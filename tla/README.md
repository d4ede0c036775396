# Verification of the Atelier runtime

TLA+ models of the runtime's durable control plane (`src/runtime/rev51`), the
TLC runs that check them on small instances, and TLAPS proofs of their main
properties for every instance. `PROJECT.json` lists the components, runs,
mutants, the lines each definition models, the findings, the hazards and the
theorems; this file explains them.

To parse a module run `tlasany M.tla`, to check one `tlc -config Run.cfg MCModule.tla`,
to prove one `tlapm MProofs.tla`.

## 1. The system

Two stacks share this repository. *Pilote* (`src/pilote/rev51`) states what a
task means: a task contract, an execution intent and further intents for
approval, capabilities, parallelism and data, each naming the others by hash. The
*Runtime* (`src/runtime/rev51`) takes an execution plan made of them to a worker
on a local, VMware or DigitalOcean node and back to an accepted result. There is
no server: several processes work on JSON documents in a directory, each document
with its own lock file, event ledger, state version and idempotency index.

| Component | State it keeps | Operations | Hard behaviour |
|---|---|---|---|
| Durable store protocol (`durable-execution-state-v1`, repeated in every `durable-*` store) | the document, its lock file, one temporary file per process id | initialize, compare-and-swap, unlocked read | interleaved awaits, crashes, power loss, leftover files, retries |
| Execution state | attempt, lease generation, fence sequence and token, material and provider state, reconciliation flag | transition, record outcome, advance fence | stale fences, retries, order of authorities |
| Operator interventions (`operator-intervention-trust-reset-v1`) | receipts in the execution ledger | record an intervention | reads without the lock, submits later |
| Worker job launch, resource ownership proof | status, active operation | register, claim, record result, reconcile | two locks, a fence that lives in another document |
| Execution transport | state, conformance, active operation | register, conform, activate, record, reconcile, close | two locks of other stores, a claim that is not awaited |
| Result collection, verification, acceptance | a record per job, a verdict per job, one acceptance per execution | collect, verify, commit | authority that moves on between the files |
| Readiness, capability attestation, credential lease, sanitation receipt, isolation boundary | status, epoch, expiry of each | attest, issue, use, revoke, claim, expire, invalidate | time between check and use, repeated revocations |
| Provider bootstrap saga | completed phases, active operation, terminal projection | begin, record, reconcile, observe | unknown outcomes, delayed callers, an external provider |
| Admission, budget, cancellation | reservations, counters, cancellation status | reserve, start, settle, request cancellation | limits, a cancellation racing a start |
| Reservation settlement | per reservation its usage, totals | settle usage | works on a document read earlier |
| Session and terminalizations, closure seal | terminal flags, billing status, status; one seal | record progress, terminalize receipt, billing, provider; seal | unlocked reads of other stores, then a compare-and-swap |
| Artifacts, references, tombstones, deletion | bytes by content, index, tombstones, deletion receipts | stage, seal, reference, release, delete | bytes shared by executions, decisions on snapshots, crash between unlink and receipt |
| Pilote's intents, the Runtime's consumers | none; documents | build, validate, bind, plan, make a job | documents of several revisions, two translations of one rule |
| Terminal semantics, backward compatibility | none | both stacks' rules | the translations drift apart |
| Cancellation reconciliation | per operation its last result | record | unknown outcome first, terminal once |
| Plan D | lease, schedule, merge set | acquire, renew, schedule, merge | expiry, conflicting changes |
| Policy router, approval, provider scheduling, contracts, evidence, plans A, B, C, E, stage runners, revision 52 | none, or a document of the caller's | decide, validate, hash, run child processes | none of their own |

How they interact: every component that acts on the outside world binds itself
to the *fence* of the execution state, either by holding that state's lock while
it writes its own document (launch, ownership, admission, acceptance) or by
comparing with a copy of the fence it keeps (session, settlement, cancellation).
Transport, collection and acceptance follow each other through the stores of one
job; acceptance holds its evidence against the version of the execution state.
The saga's terminal projection and the settlement are copied into the session,
whose completion allows the closure seal; a sealed execution's artifact may get a
tombstone, its reference be released and its bytes be deleted. An operator's
intervention advances the fence under everybody else's feet.

What makes each correct is stated in the modules' property sections. The hazards
of the code are in `PROJECT.json`, at the line where each bites, with the
properties that would catch it, or the reason why none does.

## 2. Modules

| Module | Models | Abstract specification |
|---|---|---|
| `DurableStore` | the file protocol, one action per awaited file operation | `CasRegister` |
| `ExecutionState` | the execution state and operator interventions, one action per compare-and-swap | |
| `FencedStores` | launch store and ownership proof with both locks, one action per lock, check, write and unlock | `OneShotClaim` (launch) |
| `JobPipeline` | launch, transport, collection, verification and acceptance of several jobs of one execution | `ResultHandoff` |
| `WorkerAuthority` | readiness, capability attestation, credential lease, sanitation receipt and isolation boundary of one worker, with a clock | |
| `ProviderSaga` | the saga and the provider | |
| `AdmissionBudget` | admission document, settlement store, and what the execution state does under its lock | |
| `SessionTerminal` | the one-shot session, the four modules that bind evidence to it, and the closure seal | |
| `ArtifactStore` | bytes, stored acceptance, reference index, tombstones and physical deletion | |
| `PiloteSemantics` | Pilote's builders and validators of A2 to A7, as operators | |
| `SemanticBinding` | the Runtime's plan, bindings, worker job and admission gate, over `PiloteSemantics` | |
| `DocumentFields`, `TerminalSemantics`, `LegacyCompatibility` | rules without state that both stacks have a translation of, as operators; extended by `SemanticBinding` | |
| `MC...` | symmetry sets, views and constant definitions of the runs | |
| `...Proofs` | the theorems of each; `AuthorityProofs` those of `FencedStores` and `WorkerAuthority`, `BindingProofs` those of `SessionTerminal` and `SemanticBinding` | |

They are layers. `DurableStore` establishes that a store is a compare-and-swap
register, which is what allows the other modules to make a compare-and-swap one
step, and to leave out a call that fails because its lock is taken or its version
is old: it changes nothing. `ExecutionState` establishes that fences are strictly
ordered and never reused, which is what allows `FencedStores`, `JobPipeline`,
`AdmissionBudget` and `SessionTerminal` to keep of the execution state a number.
`FencedStores` establishes that a launch is claimed once, under its fence, which
is what `JobPipeline` starts from. `ProviderSaga` establishes that a complete saga's
projection never changes, `AdmissionBudget` that a reservation is settled once, which is
what `SessionTerminal` reads of them; a sealed session is what `ArtifactStore` calls
terminal. Where a compare-and-swap is not one step for somebody else, the model
says so: `FencedStores` keeps both locks and the time between them, `JobPipeline` and
`WorkerAuthority` split the claims that are not awaited, `AdmissionBudget` keeps the time
between the rename and the directory sync, because readers take no lock.

Definitions whose comment begins "Faulty variant" are not part of the model. Each
is a plausible mistake in the code, and each property is known to fail when its
definition is replaced by such a variant (`PROJECT.json`, "mutants").

### DurableStore

A call's `pc` is the file operation it performs next: `lock` (open of the lock
file), `read` (read, decide), `open` (open and write the temporary file),
`fsync`, `rename`, `dirsync`, `release` (unlink). The document is its event
ledger and whether its bytes are synced; `STATE_VERSION` is the ledger's length
less one, the idempotency index the keys of its events. `stable` is the length
that survives a power failure. `tmp` is kept per process id, because the
temporary file's name is the process id; two calls of one process share it, and
a restarted process may have the id of a dead one (`PidOf`). A power failure
kills all calls, reverts the document to any version since the last directory
sync and makes lock and temporary files vanish or reappear. The code never
breaks a stale lock; an operator may remove one whose owner is gone.

`answer` and the implementation of `CasRegister` say what a caller may rely on:
"applied" only of a stable event, "replayed" only of an event with the same key
and request, "conflict" and "mismatch" only when they are so.

### ExecutionState

The ledger keeps, per event, the request and the record it led to. A request
carries an idempotency key, the version and the fence token its caller saw.
`Initialize`, `Transition`, `RecordProviderOutcome` and `AdvanceFence` are the
exported operations. An intervention is two actions: `BeginIntervention` reads
the state without the lock, answers a replay from the ledger or builds a
receipt; `SubmitIntervention` does the compare-and-swap at any later time.
Replays and refusals leave the ledger as it is.

### FencedStores

One client makes one call at a time: take the execution lock, compare the fence,
take the store's lock, apply, release both. `Awaited` is the difference between
the two stores: the claim of a launch awaits its compare-and-swap before the
finally block releases the execution lock, the ownership proof's claim does not
(`UnlockExecutionEarly`). Results and reconciliations take only the store's lock
and do not compare the fence, as in the code.

### JobPipeline

Per job a launch, a transport, a collection and a verdict; per execution one
acceptance. The execution state is its version, its fence and whether a
reconciliation is pending, and `ChangeExecution` may change all of them between
any two steps. `BeginActivation` checks the fence and the launch under their locks,
`FinishActivation` is the compare-and-swap that `return` without `await` lets run
later; `Activatable` is what that compare-and-swap looks at. `TransportValid` is the
store's own validation, which `Apply` runs on every write. `Collect` needs an active
transport of the current fence, and looks at no launch. An acceptance is requested with the durable verification or with a payload of the
caller's (`AcceptVerified`, `AcceptSubmitted`); `Acceptable` is what the journal compares.
`ResultHandoff` says what is left when the stores between are forgotten: a job
hands in once, one result is accepted, and only in the version it was handed in.

### WorkerAuthority

`now` is the clock. Each store is a record of its status and what binds it. The
expiry of a readiness attestation is decided by an unlocked read (`BeginExpiry`)
and applied on the version that was read (`ApplyExpiry`); the boundary is claimed in the
same way (`CheckClaim`, `ApplyClaim`), because its compare-and-swap is not awaited.
`authorized` is what callers were told: which operation may run, and in which state the
boundary was when they were told so. `begun` and `unknown` are the revocations that were begun
and whose outcome is unknown.

### ArtifactStore

Bytes are identified by their content, so that two executions, or two artifact
ids, may share them. Staging, sealing, acceptance, index, tombstone and release
are one step each under their lock; a stored acceptance is two (seal the bytes,
then write the journal), a deletion three (`DecideDeletion` on snapshots, `Unlink` and
`WriteReceipt` under the lock of the receipt), and both may crash in between.

### PiloteSemantics and SemanticBinding

A document is a record of the fields that other documents or the Runtime
compare; its hash is the document. `PiloteSemantics` has, for each type, the set of
documents the builder makes (`A4Documents`, ...) and the validator's conditions.
`SemanticBinding` has the Runtime's: `BindingA3` to `BindingA6` and `BindA7` are what the
consumers compare of documents, plan and admission store, `CreatePlan` and `CreateJob` what
they make. Left out of them is what they check of their caller's other arguments alone: who
owns the selection, its provider, transport and cost reservation, the form of execution-only
dependencies (A6), and the enforcement and capabilities observed of a worker (A5). The
bindings then accept more than the code does: `NoMixture` and `WithinSemanticCap` hold of it
all the more, and `StacksAgree` speaks of the documents, not of those arguments.

What is bound may be of any revision and intent that exists; the binding decides. `CheckAdmission` is the A6 gate, on a copy of the
admission store; `Reserve` the store's own reservation, one at a time. Where the
Runtime has a rule of its own that Pilote has too, both are written down
(`ValidVerifierPolicy` is Pilote's validator, `RuntimeValidVerifierPolicy` the Runtime's) and
`StacksAgree` compares them. Of the id of a verifier policy the length is kept, which is
where those two differ.

`DocumentFields`, `TerminalSemantics` and `LegacyCompatibility` have no state: they are the two
stacks' tables and functions, side by side, and the comparison of them over all their
inputs.

### ProviderSaga

The variables are the saga's fields; `begun` is every operation any caller was
ever told to go ahead with, and `effects` what the provider did. Because a
begin is replayed "ok" for ever, a caller may have the provider perform an
operation at any later time (`Perform`). It is assumed that the provider performs
an operation once (the operation has an idempotency key) and that "PASS" is
reported only of an operation the provider performed.

### AdmissionBudget

`Admitted` is the whole of a request up to the rename, under both locks;
`Committed` the directory sync, the unlocks and the answer. Runtime seconds and
micro dollars are checked and summed alike, so that one amount stands for both.
The accountant (`ReadAdmission`, `SettleUsage`) works on a document it read at
some earlier time. The execution's fence and pending reconciliation change only
while its lock is free.

### SessionTerminal

`op` is the module a caller is in: `execution`
(`pilote-execution-terminal-semantic-consumer-v1`), `receipt`, `billing`, `provider`, or
`disconnect` (`recordSessionClientDisconnectV1`). A binder is four steps: `Begin`
fixes the session version the request expects, `ReadEvidence` reads the other
store, `CheckSession` reads the session and decides, `Cas` is `applySessionCas`.
Neither read takes a lock, so everything may happen in between. `Bound` is what
the binder compares, `Unbound` its refusal of a flag that is set. A caller whose
request was applied may repeat it (`Retry`, with `applied` for its key in the
idempotency index) or prepare another one (`Abandon`, also after a crash). The
stores' side is one action each: `AdvanceFence`, `Accept`, `Settle`, `CompleteSaga`.
`CommitSeal` holds the session's lock and the seal's, and is one step.

The session starts bound to fence 1, with any billing status its initialization
accepts. Fences below the session's need no value of their own: to a binder they
are, like later ones, not the session's.

## 3. Runs

| Run | Properties | Bounds |
|---|---|---|
| `DurableStoreSafety` | type, `PublishedIsSynced`, refinement of `CasRegister`, `EveryCallReturns`, `LockIsFreed` | 3 calls in 2 processes (two share one), 2 keys, versions 0..1, 1 fault |
| `ExecutionStateSafety` | type, `FenceOrder`, `ReceiptsBindAuthority`, `UnknownRequiresReconciliation`, `ReturnedReceiptIsRecorded` | 2 keys, 3 tokens, 2 attempts, 2 concurrent interventions, 2 changes, leases to 2 |
| `FencedStoresSafety` | type, `OneOperation`, refinement of `OneShotClaim` | 2 clients, 2 operations, 1 fence advance, the versions of `MCFencedStores` |
| `FencedStoresOwnership` | `ClaimIsFenced` (violated) | as above |
| `JobPipelineSafety` | type, `OneActivation`, `AcceptedLineage`, refinement of `ResultHandoff` | 2 jobs, 2 racing activators, 2 operations, 2 contents, 2 changes of the execution, transports to 4 and 3 changes |
| `WorkerAuthoritySafety` | type, `AuthoritySound`, `AuthorityIsNeverRegained` | 2 callers, 2 attestations that expire at 1 and 2, 2 operations, clock to 2 |
| `WorkerAuthorityRevocation` | `RevocationIsNotRepeated` (violated) | 1 caller, otherwise as above |
| `ProviderSagaSafety` | type, `ProjectionIsEarned`, `ProjectionNeverReverts` | all 10 phases, 2 operations; no other bound |
| `AdmissionBudgetSafety` | type, `BudgetHolds`, `CancellationIsExact`, `SettlementIsOfTerminal`, `NothingStartsAfterCancellation` | 3 reservations, amounts 1 and 2 of at most 3, parallelism 2, 2 executions, 1 retry, no repair, 2 fences, 1 power failure |
| `SessionTerminalSafety` | type, `CompleteHasEvidence`, `SealIsOfThisSession`, `BoundOnce`, `ProviderAfterBilling` | 2 callers, 2 fences, 5 events |
| `ArtifactStoreSafety` | type, `ReferencedBytesKept`, `DeletionIsEarned` | 3 executions, 2 artifact ids, 2 contents; no other bound |
| `SemanticBindingSafety` | type, `NoMixture`, `WithinSemanticCap`, `StacksAgree` | 2 revisions of the contract, 3 sets of options, policy ids of 32, 128 and 129 characters, 2 callers, requests to 2, admission versions to 4, no limit or a limit of 1 |

What the properties have in common is that no single step can be looked at to
see them. `AcceptedLineage` relates an acceptance to four stores that may all have
moved on since; `OneActivation` and `AuthoritySound` hold although the checks are made
under locks that are gone when the claim is written, because the compare-and-swap
looks at its own store again; `ReferencedBytesKept` holds although a deletion decides
on old snapshots, because the index takes no reference after it is sealed;
`WithinSemanticCap` holds although the store does not know the cap, because the version a
reservation expects is the one the decision was made on.

Why the bounds are enough. Two calls are needed for a lost update and a third
for the retry of a call that died between the other two; two of the three share a
process id, so that temporary files are contended and reused. One fault is a crash, a power
failure or a failing operation, at any point; the theorems hold for any number. Three
fence tokens allow two advances and one reuse. In `FencedStores` two clients are
enough for every race over two locks, and one advance is enough to make a fence
stale. In `JobPipeline` two jobs compete for the one acceptance, two changes of the
execution come between any two steps, and the first transport can be registered,
made conformant, activated and closed, or left unknown and reconciled. In
`WorkerAuthority` one attestation expires while the other replaces it, and everything has
expired when the clock stops. In `AdmissionBudget` the amounts exceed the limit with three
reservations and not with two of the smaller, each kind of limit is met (2, 1 and 0), and
parallelism is met before the limits are. In `SessionTerminal` a session needs four
events to complete, the fifth is a disconnect or a late call. In `ArtifactStore` two
executions share an artifact id or a content while a third shares neither or both. In
`SemanticBinding` the second revision narrows every field of the first, the cap
differs from the contract's limit for the serial intent, and the ids of the verifier policies
lie on both sides of the Runtime's limit. Two runs have a `VIEW`: an activation in
`JobPipeline`, or a request in `SessionTerminal`, that the compare-and-swap would refuse now
is refused for ever, because versions only go up, so that all of these are one
to TLC. The view is written with the guard of the compare-and-swap itself, and
only takes together what that guard refuses. Bounds in guards are named
in the modules' CONSTANTS (`MaxVersion`, `MaxTransportVersion`, `MaxFaults`, `MaxLease`,
`MaxFence`, `MaxEvents`, `MaxPowerLosses`, `MaxTime`, `MaxRequest`). The theorems hold for all values
of them.

`CHECK_DEADLOCK FALSE` is given where the system may stop: every call made (each
call of `DurableStore` is made once), the ledger at its bound, everything accepted,
deleted or expired. Symmetry is used in the runs without liveness.

Fairness. Only `DurableStoreSafety` assumes any, and only its two liveness properties
need it: `FairSpec` is weak fairness of each call's next step. It says that an event
loop that is not killed eventually runs the continuation of an await whose file
operation has completed. Nothing is assumed of callers, of operators who remove
stale files, or of failures. The other components have no scheduling of their
own: whether a job, a cancellation or a deletion goes on is up to whoever calls.

### What the violated runs show

Each states a sentence of the repository's documents that the code does not meet.

* `FencedStoresOwnership`: the ownership proof's claim outlives the execution
  lock, and can be written after the fence advanced
  (`durable-resource-ownership-proof-v1.mjs:362`, `return` without `await`). The same form
  is in `durable-execution-transport-v1.mjs:371` and
  `durable-worker-isolation-boundary-v1.mjs:241`, where `JobPipeline` and `WorkerAuthority` show what
  it costs and what holds all the same.
* `WorkerAuthorityRevocation`: a second requirement to revoke a credential forgets
  that a revocation's outcome is unknown, and another operation begins
  (`durable-job-credential-lease-v1.mjs:108`).

### What the models show besides

Behaviour of the code that is in the models and that a reader of the documents
may not expect. No run but the one named is about it.

* Pilote and the Runtime disagree on verifier policies. Pilote builds and validates one
  with any id that is not empty (`verifier-acceptance-intent-v1.mjs:127`), and an intent that
  names it (`execution-intent-v1.mjs:216`); the Runtime refuses an id of more than 128
  characters (`pilote-verifier-acceptance-consumer-v1.mjs:117`), as the published schema does
  (`pilote-verifier-policy-v1.schema.json:11`). A plan can be made of such an intent, and its
  policy can never be bound. `StacksAgree` (`SemanticBindingSafety`) states exactly this.
* A retry is answered `ok` from a document whose rename was never made durable
  (`durable-execution-state-v1.mjs:247`). A leftover temporary file makes the writes of a process
  with the same id fail (131). Initialization takes `OUTCOME_UNKNOWN` without
  requiring reconciliation (187).
* A trust reset may keep the attempt id (`operator-intervention-trust-reset-v1.mjs:122`).
* A failed saga is resumed by a later result of the operation that failed
  (`provider-bootstrap-saga-v1.mjs:383`), and keeps its `FAILURE` (366).
* `EXECUTION_TERMINAL` may be set on the evidence of an execution state that is no longer
  current (`pilote-execution-terminal-semantic-consumer-v1.mjs:182`, an unlocked read).
* A retry of billing terminalization is refused after another settlement
  (`durable-billing-terminalization-v1.mjs:64`); a session whose billing status differs from its
  saga's never completes (`one-shot-execution-session-v1.mjs:224`).
* A reservation of an earlier fence can be started
  (`durable-admission-budget-cancellation-v1.mjs:375`); settlement waits for reconciliation (98).
* A result whose durable verdict is FAIL can be accepted on a payload of the
  caller's (`durable-result-collection-v1.mjs:343`).
* A claim of the isolation boundary may be answered by a replay when the boundary
  is already INVALID (`durable-worker-isolation-boundary-v1.mjs:236`, 206).
* An artifact id accepted by two executions has one tombstone, so that the other's
  reference is never released (`authoritative-gc-tombstone-v1.mjs:7`); bytes sealed again while
  a deletion is under way are lost (`artifact-content-store-v1.mjs:64`); an acceptance the
  index was not told of does not keep its bytes (`artifact-reference-index-v1.mjs:9`).
* The A7 binding compares neither plan nor intent
  (`pilote-checkpoint-cache-data-locality-consumer-v1.mjs:20`), no function composes the bindings, and a
  plan or worker job can be made without them.

## 4. Proofs

All theorems are about the specification with arbitrary constants, under the
assumptions named in the modules (`StoreAssumption`, `ExecutionAssumption`,
`FencedAssumption`, `AuthorityAssumption`, `PipelineAssumption`, `SagaAssumption`,
`BudgetAssumption`, `TerminalAssumption`, `SemanticsAssumption`, `BindingAssumption`,
`ArtifactAssumption` and the ones about null values). Each proof
module defines an inductive invariant, proves that it holds initially and is
preserved by every action, and derives the properties.

* `DurableStoreProofs`. That a call alone holds the lock (`LockHeld`) is not
  inductive: it needs that a call in the critical section *is* the lock's owner
  across crashes, that its copy `seen` is the current ledger until the rename, that
  its temporary file is that ledger with its request appended and synced before
  the rename, and that the decision it made still holds. From this follow `LockHeld`,
  `LedgerSound`, `PublishedIsSynced` and, step by step, the refinement: a rename is
  `Commit`, a directory sync is `Persist`, an unlink is the answer, and everything else a stutter, an
  invocation or a crash. What a caller may rely on is then proved of the register's steps
  alone: an event that was answered "applied" is stable (`StoreAppliedIsDurable`), and
  stable events stay (`StoreStableEventsStay`).
* `ExecutionStateProofs`. The invariant is over the whole ledger: each event follows from
  the record before it, each pending receipt was built from *some* record of
  the ledger, and the version and token of its request pin that record to be the
  last one if the request is accepted. That is what makes the unlocked read harmless.
* `AuthorityProofs`. For `FencedStores`: a client past the fence check of an awaited
  claim still holds the execution lock, so that the fence it compared is current when it
  writes; the first entry of a ledger is its claim and names the operation of
  all others. So `ClaimIsFenced`, which a run shows violated by the ownership proof,
  does hold of every store whose claim is awaited (`FencedAwaitedClaims`). For
  `WorkerAuthority`: that no work is authorised without its grounds (`AuthoritySound`)
  is strengthened by one invariant for each of three stores.
  A decision about readiness that was made without the lock is of an older version,
  which the compare-and-swap refuses, or of the attestation that is still there and
  has expired meanwhile (`ReadinessInv`). A revocation that passed leaves nothing to
  revoke, and a receipt is only issued after it (`CredentialInv`). One claim at most
  enters the boundary's index, when it leaves AVAILABLE for good (`BoundaryInv`).
* `JobPipelineProofs`. What a late claim was checked against never goes back: a
  launch stays claimed, and fences of launches and transports are never rewritten
  (`CallInv`). A transport with an operation, active or unknown, has this operation and
  no other in its ledger, and is never READY without one again (`TransportInv`), so that
  the compare-and-swap refuses whatever comes late. A collection is from a transport
  that was activated (`CollectionInv`). The refinement maps each step to `Change`, `Collect`,
  `Accept` or a stutter.
* `ProviderSagaProofs`. What was begun is one operation per completed phase and
  the active one; the provider performed those of the completed phases, and
  perhaps the active one.
* `AdmissionBudgetProofs`. The invariant holds of three documents at once: the
  visible one, the stable one and the accountant's snapshot, each obtained from
  the earlier by admitted requests. The sum of amounts is a fold over a set, which is
  defined by recursion: that it exists and what one more reservation adds to it is
  proved by induction over the finite subsets of the reservations, with the
  library's theorem that strict inclusion is well-founded on them.
* `BindingProofs`. For `SessionTerminal`: a decision is made before the session's lock is
  taken. What the binder read of acceptance, settlement and a complete saga can
  only stay true; what it read of the session is true as long as the session has
  the version the request expects (`DecidedInv`), and the compare-and-swap
  applies the request in no other. The evidence of the execution's end does
  change, and is in none of the properties. A sealed session is
  complete, and a complete session takes no event (`SealInv`), so that its end is kept
  (`SessionEndIsKept`). For `SemanticBinding`:
  the plan is written once and a job's transport is one its path permits (`PlanInv`);
  a reservation or a release is a version, so that a decision which is of the current version
  still has room for everything it allowed (`CheckInv`). From these follow
  `NoMixture` and `WithinSemanticCap`. `StacksAgree` compares the rules of the two
  stacks, and says for which ids of a verifier policy they differ; the lemmas under it hold
  for every document, registry and evidence.
* `ArtifactStoreProofs`. While the index is open nothing was ever unlinked
  (`OpenInv`); after it is sealed references are only released. What a deletion saw
  (`Cleared`) therefore stays true until it unlinks, and after it. A released reference
  has its execution's tombstone, and a tombstone an ended execution.

Proved and not in a run: `LockHeld`, `LedgerSound`, `ObserveOnlyPreserves`, `EffectsInOrder`,
which are parts of, or implied by, what the runs check and are stated for the reader;
`FieldsAgreeOnEvery`, `EndIsTerminal` and `SelectionsAreOne`, which say of every
document, evidence and registry what the run compares on those of its instance;
`StoreAppliedIsDurable`, `StoreStableEventsStay`, `FencedAwaitedClaims` and
`SessionEndIsKept`, which follow from the invariants above.

Only model-checked: the liveness properties `EveryCallReturns` and `LockIsFreed`, which
are about fairness and ENABLED, and the two runs that are expected to be violated.

## 5. Further work

A clock in `SessionTerminal`, should sessions ever expire. A composition of the worker's gates,
should the code ever have one.

## 6. Not modelled

Hashing and canonical JSON: a hash is taken to identify its content, and the event
chain to be what was appended; the models therefore say nothing about a document
edited by hand. Wall-clock time of events. Document schemas beyond the fields
named.

The cancellation journal (`durable-cancellation-reconciliation-v1`) is one map with one
compare-and-swap, read by nothing else: a model would repeat its guard. The policy
router, approval grants, provider scheduling, checkpoint and continuation
decisions, contracts, evidence and revision 52 are validators and decision tables
over a request, without state or concurrency of their own. Plan D and plans A, B, C and E are an earlier generation
that revision 51 does not call. The browser, web and stage runners, tools and
scripts run child processes and do input and output. `PROJECT.json`, "components",
lists them all.
