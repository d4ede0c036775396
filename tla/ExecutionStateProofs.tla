------------------------ MODULE ExecutionStateProofs ------------------------
(***************************************************************************)
(* The safety properties of ExecutionState, for every number of events,    *)
(* tokens, attempts and concurrent interventions.                          *)
(*                                                                         *)
(* None is inductive alone.  FenceOrder needs that the record remembers    *)
(* every token of the ledger; the two properties of interventions need     *)
(* what is known of a request between its read and its compare-and-swap:   *)
(* it was built from a version no older than the one it expects, so that a *)
(* compare-and-swap that succeeds finds the version it was built from.     *)
(***************************************************************************)
EXTENDS ExecutionState, TLAPS

USE ExecutionAssumption, NoReceiptAssumption

\* Every token the ledger has seen is among the used tokens of later records.
TokensRemembered ==
  \A j \in 1 .. Len(ledger) : \A i \in 1 .. j :
    \E k \in 1 .. Len(ledger[j].record.used) :
      ledger[j].record.used[k] = ledger[i].record.token

LedgerInv ==
  /\ ledger \in Seq(Events)
  /\ FenceOrder
  /\ TokensRemembered
  /\ ReceiptsBindAuthority
  /\ ObserveOnlyPreserves
  /\ UnknownRequiresReconciliation

\* What each kind of request asks for; r is the record it was built from.
PlainRequest(q) ==
  /\ q.receipt = None
  /\ \/ q.kind = "TRANSITION" /\ q.next.materialized \in MaterialStates
     \/ q.kind = "OUTCOME" /\ q.next.provider \in ProviderStates
     \/ q.kind = "FENCE_ADVANCED" /\ q.next.seq \in Positive /\ q.next.token \in Tokens
BuiltFrom(q, r) ==
  /\ q.receipt \in Receipts
  /\ q.receipt.pre = Authority(r)
  /\ \/ /\ q.kind = "OBSERVED"
        /\ q.next.materialized = r.materialized
        /\ q.receipt.post = Authority(r)
     \/ /\ q.kind = "TRUST_RESET"
        /\ q.next.attempt \in Attempts /\ q.next.lease \in Positive
        /\ q.next.seq \in Positive /\ q.next.token \in Tokens
        /\ q.receipt.post = [attempt |-> q.next.attempt, lease |-> q.next.lease,
                             seq |-> q.next.seq, token |-> q.next.token]

PendingInv ==
  \A o \in Interventions : pc[o] = "cas" =>
    /\ input[o] \in Inputs
    /\ input[o].request.expected < Len(ledger)
    /\ \E v \in input[o].request.expected + 1 .. Len(ledger) :
         BuiltFrom(input[o].request, ledger[v].record)

IInv == TypeOK /\ LedgerInv /\ PendingInv /\ ReturnedReceiptIsRecorded

-----------------------------------------------------------------------------
(* The record a request leaves. *)

LEMMA FenceType ==
  ASSUME NEW a \in Attempts, NEW l \in Positive, NEW n \in Positive, NEW t \in Tokens
  PROVE  /\ Fence(a, l, n, t) \in Changes
         /\ Fence(a, l, n, t).attempt \in Attempts /\ Fence(a, l, n, t).lease \in Positive
         /\ Fence(a, l, n, t).seq \in Positive /\ Fence(a, l, n, t).token \in Tokens
BY DEF Fence, Changes

LEMMA AfterType ==
  ASSUME NEW r \in Records, NEW q \in RequestSet, PlainRequest(q) \/ BuiltFrom(q, r)
  PROVE  After(r, q) \in Records
<1>1. CASE q.kind \in {"TRANSITION", "OBSERVED"}
  <2>1. q.next.materialized \in MaterialStates
    BY <1>1 DEF PlainRequest, BuiltFrom, Records
  <2>. QED  BY <1>1, <2>1 DEF After, Transitioned, Records
<1>2. CASE q.kind = "OUTCOME"
  <2>1. q.next.provider \in ProviderStates
    BY <1>2 DEF PlainRequest, BuiltFrom, Records
  <2>. QED  BY <1>2, <2>1 DEF After, OutcomeRecorded, Records
<1>3. CASE AdvancesFence(q)
  <2>1. q.next.seq \in Positive /\ q.next.token \in Tokens
    BY <1>3 DEF PlainRequest, BuiltFrom, AdvancesFence
  <2>2. Given(q.next.attempt, r.attempt) \in Attempts
    BY DEF Given, RequestSet, Changes, Records
  <2>3. Given(q.next.lease, r.lease) \in Positive
    BY DEF Given, RequestSet, Changes, Records, Positive
  <2>4. Append(r.used, q.next.token) \in Seq(Tokens)
    BY <2>1 DEF Records
  <2>. QED  BY <1>3, <2>1, <2>2, <2>3, <2>4 DEF After, FenceAdvanced, AdvancesFence, Records
<1>. QED  BY <1>1, <1>2, <1>3 DEF PlainRequest, BuiltFrom, AdvancesFence

\* A request that does not advance the fence leaves authority and tokens alone.
LEMMA AfterKeepsAuthority ==
  ASSUME NEW r \in Records, NEW q \in RequestSet,
         q.kind \in {"TRANSITION", "OBSERVED", "OUTCOME"}
  PROVE  /\ Authority(After(r, q)) = Authority(r)
         /\ After(r, q).seq = r.seq /\ After(r, q).lease = r.lease
         /\ After(r, q).token = r.token /\ After(r, q).used = r.used
         /\ q.kind # "OUTCOME" => After(r, q).reconcile = r.reconcile
BY DEF After, Transitioned, OutcomeRecorded, Authority, Records

\* One that does moves to a higher sequence, a lease that is not lower and an
\* unused token.
LEMMA AfterAdvances ==
  ASSUME NEW r \in Records, NEW q \in RequestSet, AdvancesFence(q),
         FenceMayAdvance(r, q.next), q.next.token \in Tokens
  PROVE  /\ After(r, q).seq = r.seq + 1
         /\ After(r, q).lease \in Positive
         /\ After(r, q).lease >= r.lease
         /\ After(r, q).token = q.next.token
         /\ \A k \in 1 .. Len(r.used) : r.used[k] # After(r, q).token
         /\ After(r, q).used = Append(r.used, q.next.token)
         /\ After(r, q).reconcile = r.reconcile
<1>1. After(r, q) = FenceAdvanced(r, q.next)
  BY DEF After, AdvancesFence
<1>2. /\ Given(q.next.lease, r.lease) \in Positive
      /\ Given(q.next.lease, r.lease) >= r.lease
  BY DEF Given, FenceMayAdvance, RequestSet, Changes, Records, Positive
<1>. QED  BY <1>1, <1>2 DEF FenceAdvanced, FenceMayAdvance, Records
-----------------------------------------------------------------------------
(* The ledger. *)

\* An accepted request leaves the ledger sound.
LEMMA LedgerStep ==
  ASSUME LedgerInv, NEW key \in Keys, NEW q \in RequestSet,
         Accepted(key, q), Write(key, q), PlainRequest(q) \/ BuiltFrom(q, Current)
  PROVE  LedgerInv' /\ Len(ledger') = Len(ledger) + 1
                    /\ \A i \in 1 .. Len(ledger) : ledger'[i] = ledger[i]
                    /\ ledger'[Len(ledger) + 1].request = q
<1>. DEFINE n == Len(ledger)
            r == Current
            s == After(Current, q)
<1>1. /\ ledger \in Seq(Events) /\ n \in Nat \ {0} /\ r \in Records
      /\ ledger # <<>>
  <2>1. ledger \in Seq(Events) /\ ledger # <<>>
    BY DEF LedgerInv, Accepted
  <2>2. n \in Nat \ {0} /\ ledger[n] \in Events
    BY <2>1
  <2>. QED  BY <2>1, <2>2 DEF Current, Events
<1>2. s \in Records
  BY <1>1, AfterType
<1>3. /\ ledger' \in Seq(Events) /\ Len(ledger') = n + 1
      /\ \A i \in 1 .. n : ledger'[i] = ledger[i]
      /\ ledger'[n + 1].request = q /\ ledger'[n + 1].record = s
  <2>1. [key |-> key, request |-> q, record |-> s] \in Events
    BY <1>2 DEF Events
  <2>. QED  BY <1>1, <2>1 DEF Write
<1>4. \A i \in 1 .. n : ledger[i].record \in Records /\ ledger[i].request \in RequestSet
  <2>1. \A i \in 1 .. n : ledger[i] \in Events
    BY <1>1
  <2>. QED  BY <2>1 DEF Events
<1>5. /\ q.kind \in {"TRANSITION", "OBSERVED", "OUTCOME"} \/ AdvancesFence(q)
      /\ AdvancesFence(q) => FenceMayAdvance(r, q.next) /\ q.next.token \in Tokens
  BY DEF PlainRequest, BuiltFrom, AdvancesFence, Accepted
<1>6. r = ledger[n].record
  BY DEF Current
<1>7. \A j \in 1 .. n : \A i \in 1 .. j : /\ i \in 1 .. n
                                         /\ ledger'[i] = ledger[i] /\ ledger'[j] = ledger[j]
  BY <1>1, <1>3
<1>8. n \in 1 .. n /\ n = Len(ledger) /\ n \in Nat
  BY <1>1
<1>. HIDE DEF n, r, s
<1>10. FenceOrder'
  <2>1. \A i \in 1 .. n : /\ ledger[i].record.seq <= s.seq
                          /\ ledger[i].record.lease <= s.lease
                          /\ ledger[i].record.token = s.token => ledger[i].record.seq = s.seq
                          /\ ledger[i].record.seq = s.seq => Authority(ledger[i].record) = Authority(s)
    <3>. SUFFICES ASSUME NEW i \in 1 .. n
                  PROVE  /\ ledger[i].record.seq <= s.seq
                         /\ ledger[i].record.lease <= s.lease
                         /\ ledger[i].record.token = s.token => ledger[i].record.seq = s.seq
                         /\ ledger[i].record.seq = s.seq => Authority(ledger[i].record) = Authority(s)
      OBVIOUS
    <3>1. /\ ledger[i].record.seq <= r.seq
          /\ ledger[i].record.lease <= r.lease
          /\ ledger[i].record.token = r.token => ledger[i].record.seq = r.seq
          /\ ledger[i].record.seq = r.seq => Authority(ledger[i].record) = Authority(r)
          /\ \E k \in 1 .. Len(r.used) : r.used[k] = ledger[i].record.token
      <4>1. FenceOrder /\ TokensRemembered
        BY DEF LedgerInv
      <4>2. i \in 1 .. n /\ n \in 1 .. Len(ledger)
        BY <1>8
      <4>3. /\ ledger[i].record.seq <= ledger[n].record.seq
            /\ ledger[i].record.lease <= ledger[n].record.lease
            /\ ledger[i].record.token = ledger[n].record.token
                 => ledger[i].record.seq = ledger[n].record.seq
            /\ ledger[i].record.seq = ledger[n].record.seq
                 => Authority(ledger[i].record) = Authority(ledger[n].record)
        BY <4>1, <4>2 DEF FenceOrder
      <4>4. \E k \in 1 .. Len(ledger[n].record.used) :
               ledger[n].record.used[k] = ledger[i].record.token
        BY <4>1, <4>2 DEF TokensRemembered
      <4>. QED  BY <1>6, <4>3, <4>4
    <3>2. ledger[i].record \in Records
      BY <1>4
    <3>3. CASE q.kind \in {"TRANSITION", "OBSERVED", "OUTCOME"}
      BY <1>1, <3>1, <3>3, AfterKeepsAuthority DEF s, r
    <3>4. CASE AdvancesFence(q)
      <4>1. /\ s.seq = r.seq + 1 /\ s.lease >= r.lease /\ s.lease \in Positive
            /\ \A k \in 1 .. Len(r.used) : r.used[k] # s.token
        BY <1>1, <1>5, <3>4, AfterAdvances DEF s, r
      <4>2. /\ ledger[i].record.seq \in Nat /\ ledger[i].record.lease \in Nat
            /\ r.seq \in Nat /\ r.lease \in Nat
        BY <1>1, <3>2 DEF Records, Positive
      <4>. QED  BY <3>1, <4>1, <4>2 DEF Positive
    <3>. QED  BY <1>5, <3>3, <3>4
  <2>. QED
    <3>. SUFFICES ASSUME NEW j \in 1 .. n + 1, NEW i \in 1 .. j
                  PROVE  /\ ledger'[i].record.seq <= ledger'[j].record.seq
                         /\ ledger'[i].record.lease <= ledger'[j].record.lease
                         /\ ledger'[i].record.token = ledger'[j].record.token
                              => ledger'[i].record.seq = ledger'[j].record.seq
                         /\ ledger'[i].record.seq = ledger'[j].record.seq
                              => Authority(ledger'[i].record) = Authority(ledger'[j].record)
      BY <1>3 DEF FenceOrder, Authority
    <3>1. CASE j \in 1 .. n
      BY <1>1, <1>3, <3>1 DEF LedgerInv, FenceOrder, n
    <3>2. CASE j = n + 1 /\ i \in 1 .. n
      BY <1>3, <2>1, <3>2
    <3>3. CASE j = n + 1 /\ i = n + 1
      BY <1>2, <1>3, <3>3 DEF Records, Positive
    <3>. QED  BY <1>1, <3>1, <3>2, <3>3
<1>11. TokensRemembered'
  <2>1. \A i \in 1 .. n : \E k \in 1 .. Len(s.used) : s.used[k] = ledger[i].record.token
    <3>1. \A i \in 1 .. n : \E k \in 1 .. Len(r.used) : r.used[k] = ledger[i].record.token
      BY <1>1, <1>6 DEF LedgerInv, TokensRemembered, n
    <3>2. CASE q.kind \in {"TRANSITION", "OBSERVED", "OUTCOME"}
      BY <1>1, <3>1, <3>2, AfterKeepsAuthority DEF s, r
    <3>3. CASE AdvancesFence(q)
      <4>1. s.used = Append(r.used, q.next.token) /\ r.used \in Seq(Tokens)
        BY <1>1, <1>5, <3>3, AfterAdvances DEF s, r, Records
      <4>. QED  BY <3>1, <4>1
    <3>. QED  BY <1>5, <3>2, <3>3
  <2>2. \E k \in 1 .. Len(s.used) : s.used[k] = s.token
    BY DEF Accepted, Valid, s
  <2>. QED
    <3>. SUFFICES ASSUME NEW j \in 1 .. n + 1, NEW i \in 1 .. j
                  PROVE  \E k \in 1 .. Len(ledger'[j].record.used) :
                           ledger'[j].record.used[k] = ledger'[i].record.token
      BY <1>3 DEF TokensRemembered
    <3>1. CASE j \in 1 .. n
      <4>1. \E k \in 1 .. Len(ledger[j].record.used) :
               ledger[j].record.used[k] = ledger[i].record.token
        BY <1>8, <3>1 DEF LedgerInv, TokensRemembered
      <4>. QED  BY <1>7, <3>1, <4>1
    <3>2. CASE j = n + 1 /\ i \in 1 .. n
      BY <1>3, <2>1, <3>2
    <3>3. CASE j = n + 1 /\ i = n + 1
      BY <1>3, <2>2, <3>3
    <3>. QED  BY <1>1, <3>1, <3>2, <3>3
<1>12. ReceiptsBindAuthority'
  <2>1. q.receipt # None => q.receipt.pre = Authority(r) /\ q.receipt.post = Authority(s)
    <3>1. CASE PlainRequest(q)
      BY <3>1 DEF PlainRequest
    <3>2. CASE BuiltFrom(q, r) /\ q.kind = "OBSERVED"
      BY <1>1, <3>2, AfterKeepsAuthority DEF BuiltFrom, s, r
    <3>3. CASE BuiltFrom(q, r) /\ q.kind = "TRUST_RESET"
      <4>1. s = FenceAdvanced(r, q.next)
        BY <3>3 DEF s, r, After
      <4>2. q.next.attempt # None /\ q.next.lease # None
        BY <3>3 DEF BuiltFrom, Positive
      <4>3. Authority(s) = [attempt |-> q.next.attempt, lease |-> q.next.lease,
                            seq |-> q.next.seq, token |-> q.next.token]
        BY <1>1, <4>1, <4>2 DEF FenceAdvanced, Given, Authority, Records
      <4>. QED  BY <3>3, <4>3 DEF BuiltFrom
    <3>. QED  BY <3>1, <3>2, <3>3 DEF BuiltFrom, r
  <2>. SUFFICES ASSUME NEW i \in 2 .. n + 1, ledger'[i].request.receipt # None
                PROVE  /\ ledger'[i].request.receipt.pre = Authority(ledger'[i - 1].record)
                       /\ ledger'[i].request.receipt.post = Authority(ledger'[i].record)
    BY <1>3 DEF ReceiptsBindAuthority, Authority
  <2>2. CASE i \in 2 .. n
    BY <1>1, <1>3, <2>2 DEF LedgerInv, ReceiptsBindAuthority, n
  <2>3. CASE i = n + 1
    BY <1>1, <1>3, <1>6, <2>1, <2>3
  <2>. QED  BY <1>1, <2>2, <2>3
<1>13. ObserveOnlyPreserves'
  <2>1. q.kind = "OBSERVED" => s = r
    <3>. SUFFICES ASSUME q.kind = "OBSERVED"  PROVE s = r
      OBVIOUS
    <3>1. q.next.materialized = r.materialized
      BY DEF PlainRequest, BuiltFrom, r
    <3>. QED  BY <1>1, <3>1 DEF After, Transitioned, Records, s, r
  <2>. SUFFICES ASSUME NEW i \in 2 .. n + 1, ledger'[i].request.kind = "OBSERVED"
                PROVE  ledger'[i].record = ledger'[i - 1].record
    BY <1>3 DEF ObserveOnlyPreserves
  <2>2. CASE i \in 2 .. n
    BY <1>1, <1>3, <2>2 DEF LedgerInv, ObserveOnlyPreserves, n
  <2>3. CASE i = n + 1
    BY <1>1, <1>3, <1>6, <2>1, <2>3
  <2>. QED  BY <1>1, <2>2, <2>3
<1>14. UnknownRequiresReconciliation'
  <2>. SUFFICES ASSUME NEW j \in 1 .. n + 1, NEW i \in 1 .. j,
                       ledger'[i].request.kind = "OUTCOME",
                       ledger'[i].record.provider = "OUTCOME_UNKNOWN",
                       \A k \in i + 1 .. j : ledger'[k].request.kind # "OUTCOME"
                PROVE  ledger'[j].record.reconcile
    BY <1>3 DEF UnknownRequiresReconciliation
  <2>1. CASE j \in 1 .. n
    <3>1. /\ ledger[i].request.kind = "OUTCOME"
          /\ ledger[i].record.provider = "OUTCOME_UNKNOWN"
          /\ \A k \in i + 1 .. j : ledger[k].request.kind # "OUTCOME"
      BY <1>1, <1>3, <1>7, <2>1
    <3>2. ledger[j].record.reconcile
      BY <1>8, <2>1, <3>1 DEF LedgerInv, UnknownRequiresReconciliation
    <3>. QED  BY <1>7, <2>1, <3>2
  <2>2. CASE j = n + 1 /\ i = n + 1
    <3>1. q.kind = "OUTCOME" /\ s.provider = "OUTCOME_UNKNOWN"
      BY <1>3, <2>2
    <3>. QED  BY <1>1, <1>3, <2>2, <3>1 DEF After, OutcomeRecorded, Records, s, r
  <2>3. CASE j = n + 1 /\ i \in 1 .. n
    <3>1. r.reconcile
      BY <1>1, <1>3, <1>6, <2>3 DEF LedgerInv, UnknownRequiresReconciliation, n
    <3>2. q.kind # "OUTCOME"
      BY <1>1, <1>3, <2>3
    <3>3. s.reconcile = r.reconcile
      BY <1>1, <1>5, <3>2, AfterKeepsAuthority, AfterAdvances DEF s, r
    <3>. QED  BY <1>3, <2>3, <3>1, <3>3
  <2>. QED  BY <1>1, <2>1, <2>2, <2>3
<1>. QED  BY <1>3, <1>10, <1>11, <1>12, <1>13, <1>14 DEF LedgerInv, n, s
-----------------------------------------------------------------------------
(* The actions. *)

\* None of it changes when the ledger does not.
LEMMA LedgerStutter ==
  ASSUME LedgerInv, UNCHANGED ledger
  PROVE  LedgerInv'
<1>. USE DEF LedgerInv
<1>1. FenceOrder'
  <2>1. FenceOrder
    OBVIOUS
  <2>. QED  BY <2>1 DEF FenceOrder, Authority
<1>2. TokensRemembered'
  <2>1. TokensRemembered
    OBVIOUS
  <2>. QED  BY <2>1 DEF TokensRemembered
<1>3. ReceiptsBindAuthority'
  BY DEF ReceiptsBindAuthority, Authority
<1>4. ObserveOnlyPreserves'
  BY DEF ObserveOnlyPreserves
<1>5. UnknownRequiresReconciliation'
  BY DEF UnknownRequiresReconciliation
<1>. QED  BY <1>1, <1>2, <1>3, <1>4, <1>5

\* Pending requests stay good when the ledger grows.
LEMMA PendingStable ==
  ASSUME ledger \in Seq(Events), PendingInv, UNCHANGED <<pc, input>>,
         Len(ledger') = Len(ledger) + 1,
         \A i \in 1 .. Len(ledger) : ledger'[i] = ledger[i]
  PROVE  PendingInv'
<1>. SUFFICES ASSUME NEW o \in Interventions, pc[o] = "cas"
              PROVE  /\ input[o] \in Inputs
                     /\ input[o].request.expected < Len(ledger')
                     /\ \E v \in input[o].request.expected + 1 .. Len(ledger') :
                          BuiltFrom(input[o].request, ledger'[v].record)
  BY DEF PendingInv, BuiltFrom, Authority
<1>1. /\ input[o] \in Inputs
      /\ input[o].request.expected < Len(ledger)
      /\ input[o].request.expected \in Nat
  BY DEF PendingInv, Inputs, RequestSet
<1>2. PICK v \in input[o].request.expected + 1 .. Len(ledger) :
         BuiltFrom(input[o].request, ledger[v].record)
  BY DEF PendingInv
<1>3. v \in 1 .. Len(ledger) /\ ledger'[v] = ledger[v]
  BY <1>1
<1>. QED  BY <1>1, <1>2, <1>3

\* Returned receipts stay recorded when the ledger grows.
LEMMA ReturnedStable ==
  ASSUME ledger \in Seq(Events), ReturnedReceiptIsRecorded, UNCHANGED reply,
         Len(ledger') = Len(ledger) + 1,
         \A i \in 1 .. Len(ledger) : ledger'[i] = ledger[i]
  PROVE  ReturnedReceiptIsRecorded'
<1>. SUFFICES ASSUME NEW o \in Interventions, reply[o] # None
              PROVE  \E i \in 1 .. Len(ledger') : ledger'[i].request.receipt = reply[o]
  BY DEF ReturnedReceiptIsRecorded
<1>1. PICK i \in 1 .. Len(ledger) : ledger[i].request.receipt = reply[o]
  BY DEF ReturnedReceiptIsRecorded
<1>2. i \in 1 .. Len(ledger') /\ ledger'[i].request.receipt = reply[o]
  BY <1>1
<1>. QED  BY <1>2

LEMMA InitStep == Init => IInv
<1>. SUFFICES ASSUME Init  PROVE IInv
  OBVIOUS
<1>1. Len(ledger) = 0 /\ ledger \in Seq(Events)
  BY DEF Init
<1>2. LedgerInv
  BY <1>1 DEF LedgerInv, FenceOrder, TokensRemembered, ReceiptsBindAuthority,
              ObserveOnlyPreserves, UnknownRequiresReconciliation
<1>3. TypeOK
  BY <1>1 DEF Init, TypeOK
<1>. QED  BY <1>2, <1>3 DEF IInv, Init, PendingInv, ReturnedReceiptIsRecorded

LEMMA InitializeStep ==
  ASSUME IInv, NEW a \in Attempts, NEW t \in Tokens, NEW m \in MaterialStates,
         NEW p \in ProviderStates, Initialize(a, t, m, p)
  PROVE  IInv'
<1>. DEFINE q == [kind |-> "INITIALIZED", expected |-> 0, token |-> t,
                  next |-> NoChange, receipt |-> None]
            r == [attempt |-> a, lease |-> 1, seq |-> 1, token |-> t,
                  used |-> <<t>>, materialized |-> m, provider |-> p, reconcile |-> FALSE]
            e == [key |-> None, request |-> q, record |-> r]
<1>1. ledger' = <<e>> /\ ledger = <<>> /\ UNCHANGED <<pc, input, reply>>
  BY DEF Initialize
<1>2. e \in Events
  <2>1. q \in RequestSet
    BY DEF RequestSet, Kinds, Changes, NoChange
  <2>2. <<t>> \in Seq(Tokens)
    OBVIOUS
  <2>3. r \in Records
    BY <2>2 DEF Records, Positive
  <2>. QED  BY <2>1, <2>3 DEF Events
<1>3. /\ ledger' \in Seq(Events) /\ Len(ledger') = 1 /\ ledger'[1].record = r
      /\ ledger'[1].request = q
  <2>1. /\ e.record = r /\ e.request = q
    OBVIOUS
  <2>. HIDE DEF e, q, r
  <2>2. <<e>> \in Seq(Events) /\ Len(<<e>>) = 1 /\ <<e>>[1] = e
    BY <1>2
  <2>. QED  BY <1>1, <2>1, <2>2
<1>. HIDE DEF e, q
<1>4. \A j \in 1 .. 1 : \A i \in 1 .. j : i = 1 /\ j = 1
  OBVIOUS
<1>5. FenceOrder' /\ ReceiptsBindAuthority' /\ ObserveOnlyPreserves'
  BY <1>3, <1>4 DEF FenceOrder, ReceiptsBindAuthority, ObserveOnlyPreserves, Authority
<1>6. TokensRemembered'
  <2>1. 1 \in 1 .. Len(r.used) /\ r.used[1] = r.token
    OBVIOUS
  <2>. QED  BY <1>3, <1>4, <2>1 DEF TokensRemembered
<1>7. UnknownRequiresReconciliation'
  <2>1. q.kind # "OUTCOME"
    BY DEF q
  <2>. QED  BY <1>3, <1>4, <2>1 DEF UnknownRequiresReconciliation
<1>8. TypeOK'
  BY <1>1, <1>3 DEF IInv, TypeOK
<1>9. PendingInv' /\ ReturnedReceiptIsRecorded'
  <2>1. \A o \in Interventions : pc[o] # "cas"
    <3>. SUFFICES ASSUME NEW o \in Interventions, pc[o] = "cas"  PROVE FALSE
      OBVIOUS
    <3>1. input[o].request.expected \in Nat /\ input[o].request.expected < Len(ledger)
      BY DEF IInv, PendingInv, Inputs, RequestSet
    <3>. QED  BY <1>1, <3>1
  <2>2. \A o \in Interventions : reply[o] = None
    BY <1>1 DEF IInv, ReturnedReceiptIsRecorded
  <2>. QED  BY <1>1, <2>1, <2>2 DEF PendingInv, ReturnedReceiptIsRecorded
<1>. QED  BY <1>3, <1>5, <1>6, <1>7, <1>8, <1>9 DEF IInv, LedgerInv

LEMMA SubmitStep ==
  ASSUME IInv, NEW key \in Keys, NEW kind \in Kinds, NEW next \in Changes,
         \/ kind = "TRANSITION" /\ next.materialized \in MaterialStates
         \/ kind = "OUTCOME" /\ next.provider \in ProviderStates
         \/ kind = "FENCE_ADVANCED" /\ next.seq \in Positive /\ next.token \in Tokens,
         Submit(key, kind, next)
  PROVE  IInv'
<1>. PICK q : q = [kind |-> kind, expected |-> Version, token |-> Current.token,
                   next |-> next, receipt |-> None]
  OBVIOUS
<1>1. Accepted(key, q) /\ Write(key, q) /\ UNCHANGED <<pc, input, reply>>
  BY DEF Submit
<1>2. ledger \in Seq(Events) /\ ledger # <<>> /\ Len(ledger) <= MaxVersion
  BY <1>1 DEF IInv, LedgerInv, Accepted, Room, Version
<1>3. q \in RequestSet
  <2>1. Version \in 0 .. MaxVersion
    BY <1>2 DEF Version
  <2>2. ledger[Len(ledger)] \in Events
    BY <1>2
  <2>3. Current.token \in Tokens
    BY <2>2 DEF Current, Events, Records
  <2>. QED  BY <2>1, <2>3 DEF RequestSet
<1>4. PlainRequest(q)
  BY DEF PlainRequest
<1>5. /\ LedgerInv' /\ Len(ledger') = Len(ledger) + 1
      /\ \A i \in 1 .. Len(ledger) : ledger'[i] = ledger[i]
  BY <1>1, <1>3, <1>4, LedgerStep DEF IInv
<1>6. TypeOK'
  BY <1>1, <1>2, <1>5 DEF IInv, TypeOK, LedgerInv
<1>7. PendingInv' /\ ReturnedReceiptIsRecorded'
  BY <1>1, <1>2, <1>5, PendingStable, ReturnedStable DEF IInv
<1>. QED  BY <1>5, <1>6, <1>7 DEF IInv

LEMMA BeginInterventionStep ==
  ASSUME IInv, NEW o \in Interventions, NEW key \in Keys, NEW class \in InteractionClasses,
         NEW expected \in 0 .. Version,
         NEW next \in NewAuthorities(class, ledger[expected + 1].record),
         BeginIntervention(o, key, class, expected, next)
  PROVE  IInv'
<1>1. /\ ledger \in Seq(Events) /\ ledger # <<>> /\ UNCHANGED ledger
      /\ Len(ledger) \in Nat /\ Len(ledger) <= MaxVersion + 1
  BY DEF BeginIntervention, IInv, TypeOK
<1>2. LedgerInv'
  BY <1>1, LedgerStutter DEF IInv
<1>3. /\ ledger[expected + 1] \in Events /\ ledger[Len(ledger)] \in Events
      /\ expected \in 0 .. MaxVersion /\ expected < Len(ledger)
  BY <1>1 DEF Version
<1>4. ledger[expected + 1].record \in Records /\ Current \in Records
  BY <1>3 DEF Events, Current
<1>5. CASE Historical(key) = {}
  <2>. DEFINE t == ledger[expected + 1].record.token
              q == InterventionRequest(Current, class, expected, t, next)
  <2>1. /\ pc' = [pc EXCEPT ![o] = "cas"]
        /\ input' = [input EXCEPT ![o] = [key |-> key, request |-> q]]
        /\ UNCHANGED reply
    BY <1>5 DEF BeginIntervention
  <2>2. t \in Tokens
    BY <1>4 DEF Records
  <2>3. q \in RequestSet /\ BuiltFrom(q, Current)
    <3>1. CASE ClassOf(class) = "OBSERVE_ONLY"
      <4>1. q = [kind |-> "OBSERVED", expected |-> expected, token |-> t,
                 next |-> [NoChange EXCEPT !.materialized = Current.materialized],
                 receipt |-> [class |-> "OBSERVE_ONLY", pre |-> Authority(Current),
                              post |-> Authority(Current)]]
        BY <3>1 DEF InterventionRequest, Receipt
      <4>2. /\ Authority(Current) \in Authorities
            /\ [NoChange EXCEPT !.materialized = Current.materialized] \in Changes
            /\ [NoChange EXCEPT !.materialized = Current.materialized].materialized
                 = Current.materialized
        BY <1>4 DEF Authority, Authorities, Records, NoChange, Changes
      <4>. HIDE DEF q, t
      <4>. QED  BY <1>3, <2>2, <4>1, <4>2 DEF RequestSet, Kinds, Receipts, BuiltFrom
    <3>2. CASE ClassOf(class) # "OBSERVE_ONLY"
      <4>1. ClassOf(class) = "STATE_AFFECTING"
        BY <3>2 DEF ClassOf
      <4>2. PICK a \in Attempts, u \in Tokens :
              next = Fence(a, ledger[expected + 1].record.lease + 1,
                              ledger[expected + 1].record.seq + 1, u)
        BY <3>2 DEF NewAuthorities
      <4>3. /\ next \in Changes /\ next.attempt \in Attempts /\ next.lease \in Positive
            /\ next.seq \in Positive /\ next.token \in Tokens
        <5>1. /\ ledger[expected + 1].record.lease + 1 \in Positive
              /\ ledger[expected + 1].record.seq + 1 \in Positive
          <6>1. /\ ledger[expected + 1].record.lease \in Positive
                /\ ledger[expected + 1].record.seq \in Positive
            BY <1>4 DEF Records
          <6>2. \A n \in Positive : n + 1 \in Positive
            BY DEF Positive
          <6>. QED  BY <6>1, <6>2
        <5>. QED  BY <4>2, <5>1, FenceType
      <4>4. q = [kind |-> "TRUST_RESET", expected |-> expected, token |-> t, next |-> next,
                 receipt |-> [class |-> "STATE_AFFECTING", pre |-> Authority(Current),
                              post |-> [attempt |-> next.attempt, lease |-> next.lease,
                                        seq |-> next.seq, token |-> next.token]]]
        BY <3>2, <4>1 DEF InterventionRequest, Receipt
      <4>5. /\ Authority(Current) \in Authorities
            /\ [attempt |-> next.attempt, lease |-> next.lease,
                seq |-> next.seq, token |-> next.token] \in Authorities
        BY <1>4, <4>3 DEF Authority, Authorities, Records
      <4>. HIDE DEF q, t
      <4>. QED  BY <1>3, <2>2, <4>3, <4>4, <4>5 DEF RequestSet, Kinds, Receipts, BuiltFrom
    <3>. QED  BY <3>1, <3>2
  <2>4. q.expected = expected
    BY DEF InterventionRequest
  <2>. HIDE DEF q, t
  <2>5. [key |-> key, request |-> q] \in Inputs
    BY <2>3 DEF Inputs
  <2>6. TypeOK'
    BY <1>1, <2>1, <2>5 DEF IInv, TypeOK
  <2>7. PendingInv'
    <3>. SUFFICES ASSUME NEW c \in Interventions, pc'[c] = "cas"
                  PROVE  /\ input'[c] \in Inputs
                         /\ input'[c].request.expected < Len(ledger)
                         /\ \E v \in input'[c].request.expected + 1 .. Len(ledger) :
                              BuiltFrom(input'[c].request, ledger[v].record)
      BY <1>1 DEF PendingInv, BuiltFrom, Authority
    <3>1. CASE c = o
      <4>1. input'[c] = [key |-> key, request |-> q]
        BY <2>1, <3>1 DEF IInv, TypeOK
      <4>2. Len(ledger) \in expected + 1 .. Len(ledger) /\ BuiltFrom(q, ledger[Len(ledger)].record)
        BY <1>1, <1>3, <2>3 DEF Current
      <4>. QED  BY <1>3, <2>4, <2>5, <4>1, <4>2
    <3>2. CASE c # o
      <4>1. pc[c] = "cas" /\ input'[c] = input[c]
        BY <2>1, <3>2 DEF IInv, TypeOK
      <4>. QED  BY <4>1 DEF IInv, PendingInv
    <3>. QED  BY <3>1, <3>2
  <2>8. ReturnedReceiptIsRecorded'
    BY <1>1, <2>1 DEF IInv, ReturnedReceiptIsRecorded
  <2>. QED  BY <1>2, <2>6, <2>7, <2>8 DEF IInv
<1>6. CASE Historical(key) # {}
  <2>. DEFINE h == CHOOSE r \in Historical(key) : TRUE
              back == IF ValidReceipt(h) /\ MatchesInput(h, class, next) THEN h ELSE None
  <2>1. /\ pc' = [pc EXCEPT ![o] = "done"]
        /\ reply' = [reply EXCEPT ![o] = back]
        /\ UNCHANGED input
    BY <1>6 DEF BeginIntervention
  <2>2. h \in Historical(key)
    BY <1>6
  <2>3. PICK i \in 1 .. Len(ledger) : ledger[i].request.receipt = h /\ h # None
    BY <2>2 DEF Historical
  <2>. HIDE DEF h
  <2>4. h \in Receipts
    <3>1. ledger[i] \in Events
      BY <1>1
    <3>. QED  BY <2>3, <3>1 DEF Events, RequestSet
  <2>5. TypeOK'
    BY <1>1, <2>1, <2>4 DEF IInv, TypeOK
  <2>6. PendingInv'
    <3>. SUFFICES ASSUME NEW c \in Interventions, pc'[c] = "cas"
                  PROVE  /\ input[c] \in Inputs
                         /\ input[c].request.expected < Len(ledger)
                         /\ \E v \in input[c].request.expected + 1 .. Len(ledger) :
                              BuiltFrom(input[c].request, ledger[v].record)
      BY <1>1, <2>1 DEF PendingInv, BuiltFrom, Authority
    <3>1. pc[c] = "cas"
      BY <2>1 DEF IInv, TypeOK
    <3>. QED  BY <3>1 DEF IInv, PendingInv
  <2>7. ReturnedReceiptIsRecorded'
    BY <1>1, <2>1, <2>3 DEF IInv, TypeOK, ReturnedReceiptIsRecorded
  <2>. QED  BY <1>2, <2>5, <2>6, <2>7 DEF IInv
<1>. QED  BY <1>5, <1>6

LEMMA SubmitInterventionStep ==
  ASSUME IInv, NEW o \in Interventions, SubmitIntervention(o)
  PROVE  IInv'
<1>1. /\ ledger \in Seq(Events) /\ Len(ledger) \in Nat /\ Len(ledger) <= MaxVersion + 1
      /\ pc[o] = "cas"
  BY DEF IInv, TypeOK, SubmitIntervention
<1>2. PICK key \in Keys, q \in RequestSet : input[o].key = key /\ input[o].request = q
  BY <1>1 DEF IInv, PendingInv, Inputs
<1>3. PICK v \in q.expected + 1 .. Len(ledger) : BuiltFrom(q, ledger[v].record)
  BY <1>1, <1>2 DEF IInv, PendingInv
<1>4. q.receipt \in Receipts
  BY <1>3 DEF BuiltFrom
<1>5. \A c \in Interventions \ {o} : \A receipt : Return(o, receipt) =>
         pc'[c] = pc[c] /\ input'[c] = input[c] /\ reply'[c] = reply[c]
  BY DEF IInv, TypeOK, Return
<1>6. \A receipt \in Receipts \cup {None} : Return(o, receipt) =>
         /\ pc' \in [Interventions -> {"idle", "cas", "done"}]
         /\ input' \in [Interventions -> Inputs \cup {None}]
         /\ reply' \in [Interventions -> Receipts \cup {None}]
         /\ pc'[o] = "done" /\ reply'[o] = receipt
  BY DEF IInv, TypeOK, Return
<1>7. CASE Accepted(key, q) /\ Write(key, q) /\ Return(o, q.receipt)
  <2>1. q.expected = Len(ledger) - 1 /\ Len(ledger) <= MaxVersion
    BY <1>1, <1>7 DEF Accepted, Version, Room
  <2>2. BuiltFrom(q, Current)
    <3>1. v = Len(ledger)
      BY <1>1, <1>3, <2>1
    <3>. QED  BY <1>3, <3>1 DEF Current
  <2>3. /\ LedgerInv' /\ Len(ledger') = Len(ledger) + 1
        /\ \A i \in 1 .. Len(ledger) : ledger'[i] = ledger[i]
        /\ ledger'[Len(ledger) + 1].request = q
    <3>1. LedgerInv /\ Accepted(key, q) /\ Write(key, q)
      BY <1>7 DEF IInv
    <3>2. PlainRequest(q) \/ BuiltFrom(q, Current)
      BY <2>2
    <3>3. LedgerInv'
      BY <3>1, <3>2, LedgerStep
    <3>4. Len(ledger') = Len(ledger) + 1
      BY <3>1, <3>2, LedgerStep
    <3>5. \A i \in 1 .. Len(ledger) : ledger'[i] = ledger[i]
      BY <3>1, <3>2, LedgerStep
    <3>6. ledger'[Len(ledger) + 1].request = q
      BY <1>1, <3>1 DEF Write
    <3>. QED  BY <3>3, <3>4, <3>5, <3>6
  <2>4. TypeOK'
    BY <1>1, <1>4, <1>6, <1>7, <2>1, <2>3 DEF TypeOK, LedgerInv
  <2>5. PendingInv'
    <3>. SUFFICES ASSUME NEW c \in Interventions, pc'[c] = "cas"
                  PROVE  /\ input'[c] \in Inputs
                         /\ input'[c].request.expected < Len(ledger')
                         /\ \E w \in input'[c].request.expected + 1 .. Len(ledger') :
                              BuiltFrom(input'[c].request, ledger'[w].record)
      BY DEF PendingInv, BuiltFrom, Authority
    <3>1. c # o
      BY <1>4, <1>6, <1>7
    <3>2. pc[c] = "cas" /\ input'[c] = input[c]
      BY <1>5, <1>7, <3>1
    <3>3. /\ input[c] \in Inputs
          /\ input[c].request.expected < Len(ledger)
          /\ input[c].request.expected \in Nat
      BY <3>2 DEF IInv, PendingInv, Inputs, RequestSet
    <3>4. PICK w \in input[c].request.expected + 1 .. Len(ledger) :
             BuiltFrom(input[c].request, ledger[w].record)
      BY <3>2 DEF IInv, PendingInv
    <3>5. /\ w \in 1 .. Len(ledger) /\ ledger'[w] = ledger[w]
          /\ w \in input[c].request.expected + 1 .. Len(ledger')
          /\ input[c].request.expected < Len(ledger')
      BY <1>1, <2>3, <3>3
    <3>. QED  BY <3>2, <3>3, <3>4, <3>5
  <2>6. ReturnedReceiptIsRecorded'
    <3>. SUFFICES ASSUME NEW c \in Interventions, reply'[c] # None
                  PROVE  \E i \in 1 .. Len(ledger') : ledger'[i].request.receipt = reply'[c]
      BY DEF ReturnedReceiptIsRecorded
    <3>1. CASE c = o
      <4>1. Len(ledger) + 1 \in 1 .. Len(ledger')
        BY <1>1, <2>3
      <4>. QED  BY <1>4, <1>6, <1>7, <2>3, <3>1, <4>1
    <3>2. CASE c # o
      <4>1. reply'[c] = reply[c]
        BY <1>5, <1>7, <3>2
      <4>2. PICK i \in 1 .. Len(ledger) : ledger[i].request.receipt = reply[c]
        BY <4>1 DEF IInv, ReturnedReceiptIsRecorded
      <4>3. i \in 1 .. Len(ledger') /\ ledger'[i] = ledger[i]
        BY <1>1, <2>3
      <4>. QED  BY <4>1, <4>2, <4>3
    <3>. QED  BY <3>1, <3>2
  <2>. QED  BY <2>3, <2>4, <2>5, <2>6 DEF IInv
<1>8. ASSUME NEW receipt \in Receipts \cup {None}, Return(o, receipt), UNCHANGED ledger,
             receipt # None => \E i \in 1 .. Len(ledger) : ledger[i].request.receipt = receipt
      PROVE  IInv'
  <2>1. LedgerInv'
    BY <1>8, LedgerStutter DEF IInv
  <2>2. TypeOK'
    BY <1>1, <1>6, <1>8 DEF TypeOK
  <2>3. PendingInv'
    <3>. SUFFICES ASSUME NEW c \in Interventions, pc'[c] = "cas"
                  PROVE  /\ input'[c] \in Inputs
                         /\ input'[c].request.expected < Len(ledger)
                         /\ \E w \in input'[c].request.expected + 1 .. Len(ledger) :
                              BuiltFrom(input'[c].request, ledger[w].record)
      BY <1>8 DEF PendingInv, BuiltFrom, Authority
    <3>1. c # o
      BY <1>6, <1>8
    <3>2. pc[c] = "cas" /\ input'[c] = input[c]
      BY <1>5, <1>8, <3>1
    <3>. QED  BY <3>2 DEF IInv, PendingInv
  <2>4. ReturnedReceiptIsRecorded'
    BY <1>5, <1>6, <1>8 DEF IInv, ReturnedReceiptIsRecorded
  <2>. QED  BY <2>1, <2>2, <2>3, <2>4 DEF IInv
<1>9. CASE Replayed(key, q) /\ Return(o, q.receipt) /\ UNCHANGED ledger
  <2>1. PICK i \in 1 .. Len(ledger) : ledger[i].request = q
    BY <1>9 DEF Replayed
  <2>. QED  BY <1>4, <1>8, <1>9, <2>1
<1>10. CASE Return(o, None) /\ UNCHANGED ledger
  BY <1>8, <1>10
<1>. QED  BY <1>2, <1>7, <1>9, <1>10 DEF SubmitIntervention

-----------------------------------------------------------------------------
(* The theorems. *)

\* Every reachable state satisfies the inductive invariant.
THEOREM ExecutionInvariant == Spec => []IInv
<1>1. Init => IInv
  BY InitStep
<1>2. IInv /\ [Next]_vars => IInv'
  <2>. SUFFICES ASSUME IInv, [Next]_vars  PROVE IInv'
    OBVIOUS
  <2>1. ASSUME NEW a \in Attempts, NEW t \in Tokens, NEW m \in MaterialStates,
               NEW p \in ProviderStates, Initialize(a, t, m, p)
        PROVE  IInv'
    BY <2>1, InitializeStep
  <2>2. ASSUME NEW key \in Keys, NEW m \in MaterialStates, Transition(key, m)
        PROVE  IInv'
    <3>. DEFINE next == [NoChange EXCEPT !.materialized = m]
    <3>1. next \in Changes /\ next.materialized \in MaterialStates /\ "TRANSITION" \in Kinds
      BY DEF Changes, NoChange, Kinds
    <3>2. Submit(key, "TRANSITION", next)
      BY <2>2 DEF Transition
    <3>. HIDE DEF next
    <3>. QED  BY <3>1, <3>2, SubmitStep
  <2>3. ASSUME NEW key \in Keys, NEW p \in ProviderStates, RecordProviderOutcome(key, p)
        PROVE  IInv'
    <3>. DEFINE next == [NoChange EXCEPT !.provider = p]
    <3>1. next \in Changes /\ next.provider \in ProviderStates /\ "OUTCOME" \in Kinds
      BY DEF Changes, NoChange, Kinds
    <3>2. Submit(key, "OUTCOME", next)
      BY <2>3 DEF RecordProviderOutcome
    <3>. HIDE DEF next
    <3>. QED  BY <3>1, <3>2, SubmitStep
  <2>4. ASSUME NEW key \in Keys, NEW s \in 1 .. MaxVersion + 1, NEW next \in NewFences(s),
               AdvanceFence(key, next)
        PROVE  IInv'
    <3>1. /\ next \in Changes /\ next.seq \in Positive /\ next.token \in Tokens
          /\ "FENCE_ADVANCED" \in Kinds
      BY DEF NewFences, Fence, Changes, Positive, Kinds
    <3>2. Submit(key, "FENCE_ADVANCED", next)
      BY <2>4 DEF AdvanceFence
    <3>. QED  BY <3>1, <3>2, SubmitStep
  <2>5. ASSUME NEW o \in Interventions, NEW key \in Keys, NEW class \in InteractionClasses,
               NEW expected \in 0 .. Version,
               NEW next \in NewAuthorities(class, ledger[expected + 1].record),
               BeginIntervention(o, key, class, expected, next)
        PROVE  IInv'
    BY <2>5, BeginInterventionStep
  <2>6. ASSUME NEW o \in Interventions, SubmitIntervention(o)
        PROVE  IInv'
    BY <2>6, SubmitInterventionStep
  <2>7. CASE UNCHANGED vars
    <3>1. UNCHANGED ledger /\ UNCHANGED <<pc, input, reply>>
      BY <2>7 DEF vars
    <3>2. LedgerInv'
      BY <3>1, LedgerStutter DEF IInv
    <3>3. TypeOK' /\ ReturnedReceiptIsRecorded'
      BY <3>1 DEF IInv, TypeOK, ReturnedReceiptIsRecorded
    <3>4. PendingInv'
      BY <3>1 DEF IInv, PendingInv, BuiltFrom, Authority
    <3>. QED  BY <3>2, <3>3, <3>4 DEF IInv
  <2>. QED  BY <2>1, <2>2, <2>3, <2>4, <2>5, <2>6, <2>7 DEF Next
<1>. QED  BY <1>1, <1>2, PTL DEF Spec

\* Ledger, requests and receipts keep their types.
THEOREM ExecutionTypeOK == Spec => []TypeOK
BY ExecutionInvariant, PTL DEF IInv

\* Fence sequences and leases never fall and no fence token is ever used again.
THEOREM ExecutionFenceOrder == Spec => []FenceOrder
<1>1. IInv => FenceOrder
  BY DEF IInv, LedgerInv
<1>. QED  BY <1>1, ExecutionInvariant, PTL

\* The receipts of interventions name the authority they replaced.
THEOREM ExecutionReceiptsBindAuthority == Spec => []ReceiptsBindAuthority
<1>1. IInv => ReceiptsBindAuthority
  BY DEF IInv, LedgerInv
<1>. QED  BY <1>1, ExecutionInvariant, PTL

\* Observing changes nothing, whatever came between the read and the write.
THEOREM ExecutionObserveOnlyPreserves == Spec => []ObserveOnlyPreserves
<1>1. IInv => ObserveOnlyPreserves
  BY DEF IInv, LedgerInv
<1>. QED  BY <1>1, ExecutionInvariant, PTL

\* An unknown outcome requires reconciliation until another is recorded.
THEOREM ExecutionUnknownRequiresReconciliation == Spec => []UnknownRequiresReconciliation
<1>1. IInv => UnknownRequiresReconciliation
  BY DEF IInv, LedgerInv
<1>. QED  BY <1>1, ExecutionInvariant, PTL

\* Receipts that were handed out are in the ledger.
THEOREM ExecutionReturnedReceiptIsRecorded == Spec => []ReturnedReceiptIsRecorded
BY ExecutionInvariant, PTL DEF IInv
=============================================================================
