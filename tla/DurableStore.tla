---------------------------- MODULE DurableStore ----------------------------
(***************************************************************************)
(* The file protocol shared by the runtime's durable JSON stores, at the   *)
(* granularity of its awaited file operations (durable-execution-state-v1: *)
(* acquireLock, readDurableExecutionStateV1, applyCas, atomicWriteJson,    *)
(* releaseLock, initializeDurableExecutionStateV1).                        *)
(*                                                                         *)
(* A call takes the lock file or fails at once, reads the store, decides,  *)
(* writes a temporary file named after its process id, syncs it, renames   *)
(* it over the store, syncs the directory and unlinks the lock.  Processes *)
(* crash between any two steps and leave lock and temporary file behind; a *)
(* power failure also reverts what the directory has not been synced for.  *)
(*                                                                         *)
(* The store is abstracted to its event ledger: STATE_VERSION is its       *)
(* length less one and IDEMPOTENCY_INDEX the keys of its events.           *)
(***************************************************************************)
EXTENDS Integers, Sequences

CONSTANTS Calls,       \* invocations of a store operation, each made at most once
          Pids,        \* process ids; a restarted process may get the same one
          PidOf,       \* the process id a call runs under
          Keys,        \* idempotency keys
          MaxVersion,  \* callers expect versions 0 .. MaxVersion
          MaxFaults,   \* bound on failing file operations and crashes
          NoCall,      \* no lock file
          NoFile       \* no temporary file

ASSUME StoreAssumption ==
  /\ PidOf \in [Calls -> Pids]
  /\ MaxVersion \in Nat
  /\ MaxFaults \in Nat
  /\ NoCall \notin Calls

VARIABLES file,     \* the store as readers see it; an empty ledger is an absent file
          stable,   \* length of the ledger that a power failure cannot revert
          lock,     \* the call that created the lock file, or NoCall
          tmp,      \* per process id, the temporary file
          pc,       \* per call, the file operation it performs next
          request,  \* per call, its request
          seen,     \* per call, the ledger it read under the lock, until it has written
          outcome,  \* per call, what it returns or throws
          faults    \* failed file operations and crashes so far

vars == <<file, stable, lock, tmp, pc, request, seen, outcome, faults>>

\* The register a caller is promised.  A call that died returned nothing.
answer == [c \in Calls |-> IF pc[c] = "done" THEN outcome[c]
                           ELSE IF pc[c] = "dead" THEN "lost" ELSE "none"]
Register == INSTANCE CasRegister WITH ledger <- file.ledger

InitRequest == Register!InitRequest
NoRequest == Register!NoRequest
Requests == Register!Requests
SameKey(l, r) == Register!SameKey(l, r)
Version(l) == Register!Version(l)

Content == [ledger : Seq(Requests), synced : BOOLEAN]
ASSUME NoFileAssumption == NoFile \notin Content

Locked == {"read", "open", "fsync", "rename", "dirsync", "release"}
InFlight(c) == pc[c] = "lock" \/ pc[c] \in Locked
Leftover == [ledger |-> <<>>, synced |-> FALSE]

-----------------------------------------------------------------------------
Init ==
  /\ file = [ledger |-> <<>>, synced |-> TRUE]
  /\ stable = 0
  /\ lock = NoCall
  /\ tmp = [p \in Pids |-> NoFile]
  /\ pc = [c \in Calls |-> "idle"]
  /\ request = [c \in Calls |-> NoRequest]
  /\ seen = [c \in Calls |-> <<>>]
  /\ outcome = [c \in Calls |-> "none"]
  /\ faults = 0

Goto(c, label) == pc' = [pc EXCEPT ![c] = label]

\* Leave the critical section (or the call, when the lock was not obtained).
Finish(c, label, result) ==
  /\ Goto(c, label)
  /\ outcome' = [outcome EXCEPT ![c] = result]

Begin(c, r) ==
  /\ pc[c] = "idle"
  /\ request' = [request EXCEPT ![c] = r]
  /\ Goto(c, "lock")
  /\ UNCHANGED <<file, stable, lock, tmp, seen, outcome, faults>>

\* Faulty variant: a contended lock is waited for.
AcquireLockWaiting(c) ==
  /\ pc[c] = "lock"
  /\ lock = NoCall
  /\ lock' = c
  /\ Goto(c, "read")
  /\ UNCHANGED <<file, stable, tmp, request, seen, outcome, faults>>

\* open(path.lock, "wx")
AcquireLock(c) ==
  /\ pc[c] = "lock"
  /\ \/ /\ lock = NoCall
        /\ lock' = c
        /\ Goto(c, "read")
        /\ UNCHANGED outcome
     \/ /\ lock # NoCall
        /\ Finish(c, "done", "locked")
        /\ UNCHANGED lock
  /\ UNCHANGED <<file, stable, tmp, request, seen, faults>>

\* Faulty variant: the version comparison is dropped.
DecisionsBlind(l, r) ==
  IF SameKey(l, r) # {} THEN {IF r \in SameKey(l, r) THEN "replayed" ELSE "conflict"}
  ELSE {"refused", "none"}

\* What applyCas and initialize decide from the ledger they read, before any
\* write: "ALREADY_EXISTS" and a missing store are version mismatches, and
\* "refused" stands for a guard of the particular operation or validateStore.
Decisions(l, r) ==
  IF SameKey(l, r) # {} THEN {IF r \in SameKey(l, r) THEN "replayed" ELSE "conflict"}
  ELSE IF r.expected # Version(l) THEN {"mismatch"}
  ELSE {"refused", "none"}

\* Faulty variant: a decision taken before the try block returns with the lock.
ReadAndDecideKeepingLock(c) ==
  /\ pc[c] = "read"
  /\ \E decision \in Decisions(file.ledger, request[c]) :
       IF decision = "none"
       THEN Goto(c, "open") /\ seen' = [seen EXCEPT ![c] = file.ledger] /\ UNCHANGED outcome
       ELSE Finish(c, "done", decision) /\ UNCHANGED seen
  /\ UNCHANGED <<file, stable, lock, tmp, request, faults>>

ReadAndDecide(c) ==
  /\ pc[c] = "read"
  /\ \E decision \in Decisions(file.ledger, request[c]) :
       IF decision = "none"
       THEN Goto(c, "open") /\ seen' = [seen EXCEPT ![c] = file.ledger] /\ UNCHANGED outcome
       ELSE Finish(c, "release", decision) /\ UNCHANGED seen
  /\ UNCHANGED <<file, stable, lock, tmp, request, faults>>

\* Faulty variant: the temporary file is renamed without being synced.
OpenTempUnsynced(c) ==
  /\ pc[c] = "open"
  /\ tmp[PidOf[c]] = NoFile
  /\ tmp' = [tmp EXCEPT ![PidOf[c]] = [ledger |-> Append(seen[c], request[c]), synced |-> FALSE]]
  /\ Goto(c, "rename")
  /\ UNCHANGED <<file, stable, lock, request, seen, outcome, faults>>

\* open(path.tmp-pid, "wx") and writeFile; fails while a leftover exists.
OpenTemp(c) ==
  LET p == PidOf[c] IN
  /\ pc[c] = "open"
  /\ \/ /\ tmp[p] = NoFile
        /\ tmp' = [tmp EXCEPT ![p] = [ledger |-> Append(seen[c], request[c]), synced |-> FALSE]]
        /\ Goto(c, "fsync")
        /\ UNCHANGED outcome
     \/ /\ tmp[p] # NoFile
        /\ Finish(c, "release", "error")
        /\ UNCHANGED tmp
  /\ seen' = [seen EXCEPT ![c] = <<>>]
  /\ UNCHANGED <<file, stable, lock, request, faults>>

SyncTemp(c) ==
  /\ pc[c] = "fsync"
  /\ tmp' = [tmp EXCEPT ![PidOf[c]].synced = TRUE]
  /\ Goto(c, "rename")
  /\ UNCHANGED <<file, stable, lock, request, seen, outcome, faults>>

\* Faulty variant: success is returned without the directory sync.
RenameTempOnly(c) ==
  /\ pc[c] = "rename"
  /\ file' = tmp[PidOf[c]]
  /\ tmp' = [tmp EXCEPT ![PidOf[c]] = NoFile]
  /\ Finish(c, "release", "applied")
  /\ UNCHANGED <<stable, lock, request, seen, faults>>

RenameTemp(c) ==
  /\ pc[c] = "rename"
  /\ file' = tmp[PidOf[c]]
  /\ tmp' = [tmp EXCEPT ![PidOf[c]] = NoFile]
  /\ Goto(c, "dirsync")
  /\ UNCHANGED <<stable, lock, request, seen, outcome, faults>>

\* Faulty variant: the event counted is one that was never written.
SyncDirectoryAhead(c) ==
  /\ pc[c] = "dirsync"
  /\ stable' = Len(file.ledger) + 1
  /\ Finish(c, "release", "applied")
  /\ UNCHANGED <<file, lock, tmp, request, seen, faults>>

SyncDirectory(c) ==
  /\ pc[c] = "dirsync"
  /\ stable' = Len(file.ledger)
  /\ Finish(c, "release", "applied")
  /\ UNCHANGED <<file, lock, tmp, request, seen, faults>>

\* handle.close() and unlink(path.lock); the call then returns or throws.
ReleaseLock(c) ==
  /\ pc[c] = "release"
  /\ lock' = NoCall
  /\ Goto(c, "done")
  /\ UNCHANGED <<file, stable, tmp, request, seen, outcome, faults>>

-----------------------------------------------------------------------------
(* Failing file operations. *)

\* The bound on everything that goes wrong.
Fault == faults < MaxFaults /\ faults' = faults + 1

\* A read, write, sync or rename fails: the error leaves the try block, the
\* finally block releases the lock, and a temporary file stays where it is.
OperationFails(c) ==
  /\ Fault
  /\ pc[c] \in {"read", "open", "fsync", "rename", "dirsync"}
  /\ Finish(c, "release", "error")
  /\ UNCHANGED <<file, stable, lock, tmp, request, seen>>

\* The lock file exists but writing the pid to it fails: nobody unlinks it.
LockWriteFails(c) ==
  /\ Fault
  /\ pc[c] = "lock"
  /\ lock = NoCall
  /\ lock' = c
  /\ Finish(c, "done", "error")
  /\ UNCHANGED <<file, stable, tmp, request, seen>>

\* The unlink fails and its error is swallowed: the lock file stays.
UnlinkFails(c) ==
  /\ Fault
  /\ pc[c] = "release"
  /\ Goto(c, "done")
  /\ UNCHANGED <<file, stable, lock, tmp, request, seen, outcome>>

-----------------------------------------------------------------------------
(* Crashes.  Nothing in the store recovers a leftover lock or temporary    *)
(* file; whoever operates the node may remove one whose owner is gone.     *)

Kill(D) == pc' = [c \in Calls |-> IF c \in D THEN "dead" ELSE pc[c]]

ProcessCrash(p) ==
  /\ Fault
  /\ \E c \in Calls : PidOf[c] = p /\ InFlight(c)
  /\ Kill({c \in Calls : PidOf[c] = p /\ InFlight(c)})
  /\ UNCHANGED <<file, stable, lock, tmp, request, seen, outcome>>

CreatedLock(c) == pc[c] \notin {"idle", "lock"} /\ outcome[c] # "locked"

\* Every directory change since the last directory sync may be undone: the
\* store reverts to one of its versions since then, and lock and temporary
\* files may vanish or reappear.
PowerLoss ==
  /\ Fault
  /\ \E c \in Calls : pc[c] # "idle"
  /\ Kill({c \in Calls : InFlight(c)})
  /\ \E n \in stable .. Len(file.ledger) :
       /\ file' = [file EXCEPT !.ledger = SubSeq(file.ledger, 1, n)]
       /\ stable' = n
  /\ lock' \in {NoCall} \cup {c \in Calls : CreatedLock(c)}
  /\ \E P \in SUBSET {PidOf[c] : c \in {d \in Calls : CreatedLock(d)}} :
       tmp' = [p \in Pids |-> IF p \in P THEN Leftover ELSE NoFile]
  /\ UNCHANGED <<request, seen, outcome>>

OperatorRemovesLock ==
  /\ lock # NoCall
  /\ ~InFlight(lock)
  /\ lock' = NoCall
  /\ UNCHANGED <<file, stable, tmp, pc, request, seen, outcome, faults>>

OperatorRemovesTemp(p) ==
  /\ tmp[p] # NoFile
  /\ \A c \in Calls : PidOf[c] = p => ~InFlight(c)
  /\ tmp' = [tmp EXCEPT ![p] = NoFile]
  /\ UNCHANGED <<file, stable, lock, pc, request, seen, outcome, faults>>

-----------------------------------------------------------------------------
Step(c) ==
  \/ AcquireLock(c)
  \/ ReadAndDecide(c)
  \/ OpenTemp(c)
  \/ SyncTemp(c)
  \/ RenameTemp(c)
  \/ SyncDirectory(c)
  \/ ReleaseLock(c)

Failure(c) == OperationFails(c) \/ LockWriteFails(c) \/ UnlinkFails(c)

Environment ==
  \/ \E p \in Pids : ProcessCrash(p) \/ OperatorRemovesTemp(p)
  \/ PowerLoss
  \/ OperatorRemovesLock

Next ==
  \/ \E c \in Calls : \/ \E r \in Requests : Begin(c, r)
                      \/ Step(c)
                      \/ Failure(c)
  \/ Environment

Spec == Init /\ [][Next]_vars

\* An event loop that is not killed runs the continuation of every await.
FairSpec == Spec /\ \A c \in Calls : WF_vars(Step(c))

-----------------------------------------------------------------------------
(* Properties. *)

Outcomes == Register!Answers \cup {"none"}
Labels == {"idle", "lock", "done", "dead"} \cup Locked

TypeOK ==
  /\ file \in Content
  /\ stable \in 0 .. Len(file.ledger)
  /\ lock \in Calls \cup {NoCall}
  /\ tmp \in [Pids -> Content \cup {NoFile}]
  /\ pc \in [Calls -> Labels]
  /\ request \in [Calls -> Requests \cup {NoRequest}]
  /\ seen \in [Calls -> Seq(Requests)]
  /\ outcome \in [Calls -> Outcomes]
  /\ faults \in 0 .. MaxFaults

\* Between open(path.lock, "wx") and unlink a call is alone with the store, and
\* the lock file it finds at the end is its own: a failed call, a crash or a
\* stale lock removed by hand never lets two calls in.
LockHeld == \A c \in Calls : pc[c] \in Locked => lock = c

\* Every event was admitted against exactly the version before it, and no
\* idempotency key has two events: no update is lost, no request is applied
\* twice, across retries, crashes and reverted renames.
Sound(l) ==
  /\ \A i \in 1 .. Len(l) : l[i].expected = i - 2
  /\ \A i, j \in 2 .. Len(l) : l[i].key = l[j].key => i = j
LedgerSound == Sound(file.ledger)

\* Readers that take no lock, and a reopen after power loss, find a whole
\* document: what was renamed over the store had been synced.
PublishedIsSynced == file.synced

\* The store is the compare-and-swap register of CasRegister.
ImplementsRegister == Register!Spec

\* Every call made returns, throws or dies with its process: fail-fast locking
\* leaves nobody waiting.
EveryCallReturns == \A c \in Calls : pc[c] = "lock" ~> pc[c] \in {"done", "dead"}

\* Without faults the lock file never stays behind.
LockIsFreed == (lock # NoCall /\ faults = 0) ~> (lock = NoCall \/ faults > 0)
=============================================================================
