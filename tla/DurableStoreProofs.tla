------------------------- MODULE DurableStoreProofs -------------------------
(***************************************************************************)
(* The durable store is proved, for every set of calls, processes and keys *)
(* and every number of faults, to exclude concurrent writers, to keep a    *)
(* sound ledger and to implement the compare-and-swap register.            *)
(***************************************************************************)
EXTENDS DurableStore, TLAPS

Admissible(l, r) == Register!Admissible(l, r)
Truthful(a, r, l, n) == Register!Truthful(a, r, l, n)

\* A call has a request once it is made.
RequestInv == \A c \in Calls : pc[c] # "idle" => request[c] \in Requests
IdleInv == \A c \in Calls : pc[c] = "idle" => request[c] = NoRequest

\* What the holder of the lock knows between its file operations.
OpenInv == \A c \in Calls : pc[c] = "open" =>
  seen[c] = file.ledger /\ Admissible(file.ledger, request[c])
TempInv == \A c \in Calls : pc[c] \in {"fsync", "rename"} =>
  /\ Admissible(file.ledger, request[c])
  /\ tmp[PidOf[c]] \in Content
  /\ tmp[PidOf[c]].ledger = Append(file.ledger, request[c])
  /\ pc[c] = "rename" => tmp[PidOf[c]].synced
DirsyncInv == \A c \in Calls : pc[c] = "dirsync" =>
  Len(file.ledger) > 0 /\ file.ledger[Len(file.ledger)] = request[c]
ReleaseInv == \A c \in Calls : pc[c] = "release" =>
  outcome[c] # "none" /\ Truthful(outcome[c], request[c], file.ledger, stable)

IInv == /\ TypeOK /\ LockHeld /\ PublishedIsSynced /\ LedgerSound
        /\ RequestInv /\ IdleInv /\ OpenInv /\ TempInv /\ DirsyncInv /\ ReleaseInv

-----------------------------------------------------------------------------
(* Ledgers. *)

LEMMA RequestTypes ==
  /\ InitRequest \in Requests
  /\ NoRequest \notin Requests
  /\ \A r \in Requests : r.expected \in Int /\ (r.expected < 0 <=> r = InitRequest)
BY StoreAssumption DEF Register!Requests, Register!CasRequests, Register!InitRequest, Register!NoRequest,
   Requests, InitRequest, NoRequest, Register!InitKey

\* Committing an admissible request keeps the ledger sound.
LEMMA AppendSound ==
  ASSUME NEW l \in Seq(Requests), NEW r \in Requests, Sound(l), Admissible(l, r)
  PROVE  Sound(Append(l, r))
<1> DEFINE k == Append(l, r)
<1>1. /\ Len(k) = Len(l) + 1 /\ Len(l) \in Nat
      /\ k[Len(k)] = r
      /\ \A i \in 1 .. Len(l) : k[i] = l[i]
  OBVIOUS
<1>2. r.expected = Len(l) - 1
  BY DEF Admissible, Register!Admissible, Register!Version
<1>3. \A i \in 1 .. Len(k) : k[i].expected = i - 2
  BY <1>1, <1>2 DEF Sound
<1>4. ASSUME NEW i \in 2 .. Len(l), l[i].key = r.key, Len(l) > 0
      PROVE FALSE
  <2>1. l[i] # InitRequest /\ r # InitRequest
    BY <1>2, <1>4 DEF Sound, InitRequest, Register!InitRequest
  <2>2. l[i] \in SameKey(l, r)
    BY <1>4, <2>1 DEF SameKey, Register!SameKey, Register!Events, InitRequest
  <2> QED
    BY <2>2 DEF Admissible, Register!Admissible, SameKey
<1>5. ASSUME NEW i \in 2 .. Len(k), NEW j \in 2 .. Len(k), k[i].key = k[j].key
      PROVE  i = j
  <2>1. CASE i \in 1 .. Len(l) /\ j \in 1 .. Len(l)
    BY <1>1, <1>5, <2>1 DEF Sound
  <2>2. CASE i \in 1 .. Len(l) /\ j = Len(k)
    BY <1>1, <1>4, <1>5, <2>2
  <2>3. CASE i = Len(k) /\ j \in 1 .. Len(l)
    BY <1>1, <1>4, <1>5, <2>3
  <2> QED
    BY <1>1, <2>1, <2>2, <2>3
<1> QED
  BY <1>3, <1>5 DEF Sound

\* So does reverting it to an earlier version.
LEMMA PrefixSound ==
  ASSUME NEW l \in Seq(Requests), NEW n \in 0 .. Len(l), Sound(l)
  PROVE  /\ SubSeq(l, 1, n) \in Seq(Requests)
         /\ Len(SubSeq(l, 1, n)) = n
         /\ Sound(SubSeq(l, 1, n))
<1>1. /\ SubSeq(l, 1, n) \in Seq(Requests)
      /\ Len(SubSeq(l, 1, n)) = n
      /\ \A i \in 1 .. n : SubSeq(l, 1, n)[i] = l[i]
  OBVIOUS
<1> QED
  BY <1>1 DEF Sound

-----------------------------------------------------------------------------
(* Steps that keep the ledger: what IInv says of the calls that do not move *)
(* is then untouched.                                                       *)

LEMMA InitInv == Init => IInv
BY StoreAssumption, RequestTypes DEF Init, IInv, TypeOK, Content, Outcomes, Labels, LockHeld, Locked,
   PublishedIsSynced, LedgerSound, Sound, RequestInv, IdleInv, OpenInv, TempInv, DirsyncInv, ReleaseInv,
   NoRequest

LEMMA BeginInv ==
  ASSUME IInv, NEW c \in Calls, NEW r \in Requests, Begin(c, r)
  PROVE  IInv'
BY StoreAssumption, RequestTypes DEF Begin, Goto, IInv, TypeOK, Labels, LockHeld, Locked,
   PublishedIsSynced, LedgerSound, RequestInv, IdleInv, OpenInv, TempInv, DirsyncInv, ReleaseInv

LEMMA AcquireLockInv ==
  ASSUME IInv, NEW c \in Calls, AcquireLock(c)
  PROVE  IInv'
<1> USE DEF Goto, Finish
<1>1. TypeOK' /\ LockHeld'
  BY StoreAssumption DEF AcquireLock, IInv, TypeOK, Labels, Outcomes, LockHeld, Locked, Register!Answers
<1>2. PublishedIsSynced' /\ LedgerSound' /\ RequestInv' /\ IdleInv'
  BY DEF AcquireLock, IInv, TypeOK, PublishedIsSynced, LedgerSound, RequestInv, IdleInv
<1>3. OpenInv' /\ TempInv' /\ DirsyncInv' /\ ReleaseInv'
  BY DEF AcquireLock, IInv, TypeOK, OpenInv, TempInv, DirsyncInv, ReleaseInv
<1> QED
  BY <1>1, <1>2, <1>3 DEF IInv

\* Everything the moves inside the critical section have in common.
LEMMA Alone ==
  ASSUME IInv, NEW c \in Calls, pc[c] \in Locked, NEW d \in Calls, pc[d] \in Locked
  PROVE  c = d
BY DEF IInv, LockHeld

LEMMA ReadAndDecideInv ==
  ASSUME IInv, NEW c \in Calls, ReadAndDecide(c)
  PROVE  IInv'
<1> USE DEF Goto, Finish
<1>1. PICK decision \in Decisions(file.ledger, request[c]) :
        IF decision = "none"
        THEN Goto(c, "open") /\ seen' = [seen EXCEPT ![c] = file.ledger] /\ UNCHANGED outcome
        ELSE Finish(c, "release", decision) /\ UNCHANGED seen
  BY DEF ReadAndDecide
<1>2. decision \in Outcomes
  BY <1>1 DEF Decisions, Outcomes, Register!Answers
<1>3. pc[c] = "read" /\ UNCHANGED <<file, stable, lock, tmp, request, faults>>
  BY DEF ReadAndDecide
<1>4. CASE decision = "none"
  <2>1. Admissible(file.ledger, request[c])
    BY <1>1, <1>4 DEF Decisions, Admissible, Register!Admissible, SameKey, Version
  <2>2. TypeOK' /\ LockHeld'
    <3>1. file.ledger \in Seq(Requests)
      BY DEF IInv, TypeOK, Content
    <3> QED
      BY <1>1, <1>3, <1>4, <3>1 DEF IInv, TypeOK, Labels, LockHeld, Locked
  <2>3. PublishedIsSynced' /\ LedgerSound' /\ RequestInv' /\ IdleInv' /\ DirsyncInv' /\ TempInv'
    BY <1>1, <1>3, <1>4 DEF IInv, TypeOK, PublishedIsSynced, LedgerSound, RequestInv, IdleInv, TempInv, DirsyncInv
  <2>4. OpenInv' /\ ReleaseInv'
    BY <1>1, <1>3, <1>4, <2>1 DEF IInv, TypeOK, OpenInv, ReleaseInv
  <2> QED
    BY <2>2, <2>3, <2>4 DEF IInv
<1>5. CASE decision # "none"
  <2>1. Truthful(decision, request[c], file.ledger, stable)
    BY <1>1, <1>5 DEF Decisions, Truthful, Register!Truthful, SameKey, Version
  <2>2. TypeOK' /\ LockHeld'
    BY <1>1, <1>2, <1>3, <1>5 DEF IInv, TypeOK, Labels, LockHeld, Locked
  <2>3. PublishedIsSynced' /\ LedgerSound' /\ RequestInv' /\ IdleInv' /\ DirsyncInv' /\ TempInv'
    BY <1>1, <1>3, <1>5 DEF IInv, TypeOK, PublishedIsSynced, LedgerSound, RequestInv, IdleInv, TempInv, DirsyncInv
  <2>4. OpenInv' /\ ReleaseInv'
    BY <1>1, <1>3, <1>5, <2>1 DEF IInv, TypeOK, OpenInv, ReleaseInv
  <2> QED
    BY <2>2, <2>3, <2>4 DEF IInv
<1> QED
  BY <1>4, <1>5

LEMMA OpenTempInv ==
  ASSUME IInv, NEW c \in Calls, OpenTemp(c)
  PROVE  IInv'
<1> USE DEF Goto, Finish
<1>1. CASE tmp[PidOf[c]] = NoFile /\ pc' = [pc EXCEPT ![c] = "fsync"]
  <2> DEFINE new == [ledger |-> Append(seen[c], request[c]), synced |-> FALSE]
  <2>1. /\ pc[c] = "open" /\ UNCHANGED <<file, stable, lock, request, faults, outcome>>
        /\ tmp' = [tmp EXCEPT ![PidOf[c]] = new]
        /\ seen' = [seen EXCEPT ![c] = <<>>]
    BY <1>1, NoFileAssumption DEF OpenTemp, IInv, TypeOK, Labels
  <2>2. new \in Content /\ PidOf[c] \in Pids
    <3>1. seen[c] \in Seq(Requests) /\ request[c] \in Requests
      BY <2>1 DEF IInv, TypeOK, RequestInv
    <3>2. Append(seen[c], request[c]) \in Seq(Requests)
      BY <3>1
    <3> QED
      BY <3>2, StoreAssumption DEF Content
  <2>3. TypeOK' /\ LockHeld'
    BY <1>1, <2>1, <2>2 DEF IInv, TypeOK, Labels, LockHeld, Locked
  <2>4. TempInv'
    <3> SUFFICES ASSUME NEW d \in Calls, pc'[d] \in {"fsync", "rename"}
                 PROVE  d = c
      BY <1>1, <2>1, <2>2, NoFileAssumption DEF IInv, TypeOK, OpenInv, TempInv
    <3> QED
      BY <1>1, <2>1, Alone DEF IInv, TypeOK, Locked
  <2>5. PublishedIsSynced' /\ LedgerSound' /\ RequestInv' /\ IdleInv' /\ OpenInv' /\ DirsyncInv' /\ ReleaseInv'
    BY <1>1, <2>1 DEF IInv, TypeOK, PublishedIsSynced, LedgerSound, RequestInv, IdleInv, OpenInv, DirsyncInv, ReleaseInv
  <2> QED
    BY <2>3, <2>4, <2>5 DEF IInv
<1>2. CASE Finish(c, "release", "error") /\ UNCHANGED tmp
  <2>1. TypeOK' /\ LockHeld'
    BY <1>2 DEF OpenTemp, IInv, TypeOK, Labels, Outcomes, LockHeld, Locked, Register!Answers
  <2>2. PublishedIsSynced' /\ LedgerSound' /\ RequestInv' /\ IdleInv' /\ OpenInv' /\ TempInv' /\ DirsyncInv'
    BY <1>2 DEF OpenTemp, IInv, TypeOK, PublishedIsSynced, LedgerSound, RequestInv, IdleInv, OpenInv, TempInv, DirsyncInv
  <2>3. ReleaseInv'
    BY <1>2 DEF OpenTemp, IInv, TypeOK, ReleaseInv, Truthful, Register!Truthful
  <2> QED
    BY <2>1, <2>2, <2>3 DEF IInv
<1> QED
  BY <1>1, <1>2 DEF OpenTemp

LEMMA SyncTempInv ==
  ASSUME IInv, NEW c \in Calls, SyncTemp(c)
  PROVE  IInv'
<1> USE DEF Goto
<1>1. PidOf[c] \in Pids /\ tmp[PidOf[c]] \in Content
  BY StoreAssumption DEF SyncTemp, IInv, TempInv
<1>2. TypeOK' /\ LockHeld'
  BY <1>1 DEF SyncTemp, IInv, TypeOK, Labels, LockHeld, Locked, Content
<1>3. PublishedIsSynced' /\ LedgerSound' /\ RequestInv' /\ IdleInv' /\ OpenInv' /\ DirsyncInv' /\ ReleaseInv'
  BY DEF SyncTemp, IInv, TypeOK, PublishedIsSynced, LedgerSound, RequestInv, IdleInv, OpenInv, DirsyncInv, ReleaseInv
<1>4. TempInv'
  <2> SUFFICES ASSUME NEW d \in Calls, pc'[d] \in {"fsync", "rename"}
               PROVE  d = c
    BY <1>1 DEF SyncTemp, IInv, TypeOK, TempInv, Content
  <2> QED
    BY Alone DEF SyncTemp, IInv, TypeOK, Locked
<1> QED
  BY <1>2, <1>3, <1>4 DEF IInv

\* The rename is the commit: the ledger grows by the admitted request.
LEMMA RenameTempCommits ==
  ASSUME IInv, NEW c \in Calls, RenameTemp(c)
  PROVE  /\ request[c] \in Requests
         /\ Admissible(file.ledger, request[c])
         /\ file'.ledger = Append(file.ledger, request[c])
         /\ file' \in Content /\ file'.synced
BY DEF RenameTemp, IInv, TempInv, RequestInv

LEMMA RenameTempInv ==
  ASSUME IInv, NEW c \in Calls, RenameTemp(c)
  PROVE  IInv'
<1> USE DEF Goto
<1>1. /\ pc[c] = "rename" /\ pc' = [pc EXCEPT ![c] = "dirsync"]
      /\ tmp' = [tmp EXCEPT ![PidOf[c]] = NoFile]
      /\ UNCHANGED <<stable, lock, request, seen, outcome, faults>>
  BY DEF RenameTemp
<1>2. /\ file.ledger \in Seq(Requests) /\ file'.ledger \in Seq(Requests)
      /\ Len(file'.ledger) = Len(file.ledger) + 1
      /\ Len(file.ledger) \in Nat
      /\ file'.ledger[Len(file'.ledger)] = request[c]
  BY RenameTempCommits DEF IInv, TypeOK, Content
<1>3. TypeOK' /\ LockHeld'
  <2>1. stable \in 0 .. Len(file'.ledger)
    BY <1>2 DEF IInv, TypeOK
  <2> QED
    BY <1>1, <2>1, RenameTempCommits DEF IInv, TypeOK, Labels, LockHeld, Locked
<1>4. PublishedIsSynced' /\ LedgerSound' /\ RequestInv' /\ IdleInv'
  BY <1>1, <1>2, RenameTempCommits, AppendSound DEF IInv, TypeOK, PublishedIsSynced, LedgerSound, RequestInv, IdleInv
<1>5. \A d \in Calls : pc'[d] \in Locked => d = c
  BY <1>1, Alone DEF IInv, TypeOK, Locked
<1>6. OpenInv' /\ TempInv' /\ DirsyncInv' /\ ReleaseInv'
  BY <1>1, <1>2, <1>5 DEF IInv, TypeOK, OpenInv, TempInv, DirsyncInv, ReleaseInv, Locked
<1> QED
  BY <1>3, <1>4, <1>6 DEF IInv

LEMMA SyncDirectoryInv ==
  ASSUME IInv, NEW c \in Calls, SyncDirectory(c)
  PROVE  IInv'
<1> USE DEF Goto, Finish
<1>1. file.ledger \in Seq(Requests) /\ Len(file.ledger) \in Nat
  BY DEF IInv, TypeOK, Content
<1>2. TypeOK' /\ LockHeld'
  BY <1>1 DEF SyncDirectory, IInv, TypeOK, Labels, Outcomes, LockHeld, Locked, Register!Answers
<1>3. PublishedIsSynced' /\ LedgerSound' /\ RequestInv' /\ IdleInv' /\ OpenInv' /\ TempInv' /\ DirsyncInv'
  BY DEF SyncDirectory, IInv, TypeOK, PublishedIsSynced, LedgerSound, RequestInv, IdleInv, OpenInv, TempInv, DirsyncInv
<1>4. \A d \in Calls : pc'[d] = "release" => d = c
  BY Alone DEF SyncDirectory, IInv, TypeOK, Locked
<1>5. Truthful("applied", request[c], file.ledger, Len(file.ledger))
  BY <1>1 DEF SyncDirectory, IInv, DirsyncInv, Truthful, Register!Truthful
<1>6. ReleaseInv'
  BY <1>4, <1>5 DEF SyncDirectory, IInv, TypeOK, ReleaseInv
<1> QED
  BY <1>2, <1>3, <1>6 DEF IInv

LEMMA ReleaseLockInv ==
  ASSUME IInv, NEW c \in Calls, ReleaseLock(c)
  PROVE  IInv'
<1> USE DEF Goto
<1>1. TypeOK' /\ PublishedIsSynced' /\ LedgerSound' /\ RequestInv' /\ IdleInv'
  BY DEF ReleaseLock, IInv, TypeOK, Labels, PublishedIsSynced, LedgerSound, RequestInv, IdleInv
<1>2. LockHeld'
  <2> SUFFICES ASSUME NEW d \in Calls, pc'[d] \in Locked
               PROVE  FALSE
    BY DEF LockHeld
  <2> QED
    BY Alone DEF ReleaseLock, IInv, TypeOK, Locked
<1>3. OpenInv' /\ TempInv' /\ DirsyncInv' /\ ReleaseInv'
  BY DEF ReleaseLock, IInv, TypeOK, OpenInv, TempInv, DirsyncInv, ReleaseInv
<1> QED
  BY <1>1, <1>2, <1>3 DEF IInv

-----------------------------------------------------------------------------
(* Faults, crashes and the operator. *)

LEMMA FailureInv ==
  ASSUME IInv, NEW c \in Calls, Failure(c)
  PROVE  IInv'
<1> USE DEF Goto, Finish
<1>0. faults' \in 0 .. MaxFaults /\ UNCHANGED <<file, stable, tmp, request, seen>>
  BY StoreAssumption DEF Failure, OperationFails, LockWriteFails, UnlinkFails, Fault, IInv, TypeOK
<1>1. CASE OperationFails(c) \/ LockWriteFails(c)
  <2>1. PICK label \in {"release", "done"} :
          pc' = [pc EXCEPT ![c] = label] /\ outcome' = [outcome EXCEPT ![c] = "error"]
    BY <1>1 DEF OperationFails, LockWriteFails
  <2>2. lock' \in Calls \cup {NoCall} /\ pc[c] # "idle"
    BY <1>1 DEF OperationFails, LockWriteFails, IInv, TypeOK
  <2>3. TypeOK' /\ PublishedIsSynced' /\ LedgerSound' /\ RequestInv' /\ IdleInv'
    BY <1>0, <2>1, <2>2 DEF IInv, TypeOK, Labels, Locked, Outcomes, Register!Answers, PublishedIsSynced, LedgerSound,
       RequestInv, IdleInv
  <2>4. LockHeld'
    BY <1>1, StoreAssumption DEF OperationFails, LockWriteFails, IInv, TypeOK, LockHeld, Locked
  <2>5. OpenInv' /\ TempInv' /\ DirsyncInv'
    BY <1>0, <2>1 DEF IInv, TypeOK, OpenInv, TempInv, DirsyncInv
  <2>6. ReleaseInv'
    BY <1>0, <2>1 DEF IInv, TypeOK, ReleaseInv, Truthful, Register!Truthful
  <2> QED
    BY <2>3, <2>4, <2>5, <2>6 DEF IInv
<1>2. CASE UnlinkFails(c)
  <2>1. TypeOK' /\ PublishedIsSynced' /\ LedgerSound' /\ RequestInv' /\ IdleInv' /\ LockHeld'
    BY <1>0, <1>2 DEF UnlinkFails, IInv, TypeOK, Labels, PublishedIsSynced, LedgerSound, RequestInv, IdleInv, LockHeld, Locked
  <2>2. OpenInv' /\ TempInv' /\ DirsyncInv' /\ ReleaseInv'
    BY <1>0, <1>2 DEF UnlinkFails, IInv, TypeOK, OpenInv, TempInv, DirsyncInv, ReleaseInv
  <2> QED
    BY <2>1, <2>2 DEF IInv
<1> QED
  BY <1>1, <1>2 DEF Failure

LEMMA ProcessCrashInv ==
  ASSUME IInv, NEW p \in Pids, ProcessCrash(p)
  PROVE  IInv'
<1>1. \A c \in Calls : pc'[c] \in {pc[c], "dead"} /\ (pc'[c] = "idle" <=> pc[c] = "idle")
  BY DEF ProcessCrash, Kill, InFlight, Locked
<1>2. pc' \in [Calls -> Labels] /\ faults' \in 0 .. MaxFaults
  BY StoreAssumption DEF ProcessCrash, Kill, Fault, IInv, TypeOK, Labels
<1>3. UNCHANGED <<file, stable, lock, tmp, request, seen, outcome>>
  BY DEF ProcessCrash
<1>4. TypeOK' /\ PublishedIsSynced' /\ LedgerSound' /\ RequestInv' /\ IdleInv' /\ LockHeld'
  BY <1>1, <1>2, <1>3 DEF IInv, TypeOK, PublishedIsSynced, LedgerSound, RequestInv, IdleInv, LockHeld, Locked
<1>5. OpenInv' /\ TempInv' /\ DirsyncInv' /\ ReleaseInv'
  BY <1>1, <1>3 DEF IInv, OpenInv, TempInv, DirsyncInv, ReleaseInv
<1> QED
  BY <1>4, <1>5 DEF IInv

LEMMA PowerLossInv ==
  ASSUME IInv, PowerLoss
  PROVE  IInv'
<1>1. PICK n \in stable .. Len(file.ledger) :
        /\ file' = [file EXCEPT !.ledger = SubSeq(file.ledger, 1, n)]
        /\ stable' = n
  BY DEF PowerLoss
<1>2. /\ file \in Content /\ file.ledger \in Seq(Requests)
      /\ n \in 0 .. Len(file.ledger)
  BY <1>1 DEF IInv, TypeOK, Content
<1>3. /\ file' \in Content /\ file'.synced = file.synced
      /\ stable' \in 0 .. Len(file'.ledger)
      /\ Sound(file'.ledger)
  <2>1. file'.ledger = SubSeq(file.ledger, 1, n) /\ file'.synced = file.synced
    BY <1>1, <1>2 DEF Content
  <2>2. SubSeq(file.ledger, 1, n) \in Seq(Requests) /\ Len(SubSeq(file.ledger, 1, n)) = n /\ Sound(SubSeq(file.ledger, 1, n))
    BY <1>2, PrefixSound DEF IInv, LedgerSound
  <2>3. file' \in Content
    BY <1>1, <1>2, <2>2 DEF Content
  <2> QED
    BY <1>1, <1>2, <2>1, <2>2, <2>3
<1>4. \A c \in Calls : pc'[c] \notin Locked /\ (pc'[c] = "idle" <=> pc[c] = "idle")
  BY DEF PowerLoss, Kill, InFlight, Locked
<1>5. pc' \in [Calls -> Labels] /\ faults' \in 0 .. MaxFaults /\ UNCHANGED <<request, seen, outcome>>
  BY StoreAssumption DEF PowerLoss, Kill, Fault, IInv, TypeOK, Labels
<1>6. lock' \in Calls \cup {NoCall} /\ tmp' \in [Pids -> Content \cup {NoFile}]
  <2>1. Leftover \in Content
    BY DEF Leftover, Content
  <2> QED
    BY <2>1 DEF PowerLoss
<1>7. TypeOK' /\ PublishedIsSynced' /\ LedgerSound' /\ RequestInv' /\ IdleInv'
  BY <1>3, <1>4, <1>5, <1>6 DEF IInv, TypeOK, PublishedIsSynced, LedgerSound, RequestInv, IdleInv
<1>8. LockHeld' /\ OpenInv' /\ TempInv' /\ DirsyncInv' /\ ReleaseInv'
  BY <1>4 DEF LockHeld, OpenInv, TempInv, DirsyncInv, ReleaseInv, Locked
<1> QED
  BY <1>7, <1>8 DEF IInv

LEMMA OperatorInv ==
  ASSUME IInv, OperatorRemovesLock \/ \E p \in Pids : OperatorRemovesTemp(p)
  PROVE  IInv'
<1>1. CASE OperatorRemovesLock
  BY <1>1 DEF OperatorRemovesLock, InFlight, IInv, TypeOK, LockHeld, PublishedIsSynced, LedgerSound, RequestInv,
     IdleInv, OpenInv, TempInv, DirsyncInv, ReleaseInv
<1>2. ASSUME NEW p \in Pids, OperatorRemovesTemp(p)
      PROVE  IInv'
  <2>1. \A c \in Calls : pc[c] \in {"fsync", "rename"} => PidOf[c] # p
    BY <1>2 DEF OperatorRemovesTemp, InFlight, Locked
  <2>2. TempInv'
    BY <1>2, <2>1, StoreAssumption DEF OperatorRemovesTemp, IInv, TypeOK, TempInv
  <2>3. TypeOK' /\ LockHeld' /\ PublishedIsSynced' /\ LedgerSound' /\ RequestInv' /\ IdleInv'
    BY <1>2 DEF OperatorRemovesTemp, IInv, TypeOK, LockHeld, PublishedIsSynced, LedgerSound, RequestInv, IdleInv
  <2>4. OpenInv' /\ DirsyncInv' /\ ReleaseInv'
    BY <1>2 DEF OperatorRemovesTemp, IInv, OpenInv, DirsyncInv, ReleaseInv
  <2> QED
    BY <2>2, <2>3, <2>4 DEF IInv
<1> QED
  BY <1>1, <1>2

LEMMA StutterInv ==
  ASSUME IInv, UNCHANGED vars
  PROVE  IInv'
BY DEF vars, IInv, TypeOK, LockHeld, PublishedIsSynced, LedgerSound, RequestInv, IdleInv, OpenInv, TempInv,
   DirsyncInv, ReleaseInv

LEMMA NextInv == IInv /\ [Next]_vars => IInv'
<1> SUFFICES ASSUME IInv, [Next]_vars PROVE IInv'
  OBVIOUS
<1>1. ASSUME NEW c \in Calls, NEW r \in Requests, Begin(c, r) PROVE IInv'
  BY <1>1, BeginInv
<1>2. ASSUME NEW c \in Calls, Step(c) PROVE IInv'
  BY <1>2, AcquireLockInv, ReadAndDecideInv, OpenTempInv, SyncTempInv, RenameTempInv, SyncDirectoryInv,
     ReleaseLockInv DEF Step
<1>3. ASSUME NEW c \in Calls, Failure(c) PROVE IInv'
  BY <1>3, FailureInv
<1>4. ASSUME Environment PROVE IInv'
  BY <1>4, ProcessCrashInv, PowerLossInv, OperatorInv DEF Environment
<1> QED
  BY <1>1, <1>2, <1>3, <1>4, StutterInv DEF Next

\* The strengthened invariant holds throughout every behaviour of the store.
THEOREM StoreInvariant == Spec => []IInv
  BY InitInv, NextInv, PTL DEF Spec

\* Type correctness of the file protocol.
THEOREM StoreTypeOK == Spec => []TypeOK
  BY StoreInvariant, PTL DEF IInv

\* The exclusive lock file admits one call at a time, whatever fails around it.
THEOREM StoreLockHeld == Spec => []LockHeld
  BY StoreInvariant, PTL DEF IInv

\* No lost update and no request applied twice, for any number of retries,
\* crashes, failed operations and power failures.
THEOREM StoreLedgerSound == Spec => []LedgerSound
  BY StoreInvariant, PTL DEF IInv

\* Readers without the lock never see a torn document.
THEOREM StorePublishedIsSynced == Spec => []PublishedIsSynced
  BY StoreInvariant, PTL DEF IInv

-----------------------------------------------------------------------------
(* The store implements the register. *)

LEMMA SameOperators ==
  /\ Requests = Register!Requests /\ InitRequest = Register!InitRequest /\ NoRequest = Register!NoRequest
  /\ \A l, r : Admissible(l, r) <=> Register!Admissible(l, r)
  /\ \A a, l, r, n : Truthful(a, r, l, n) <=> Register!Truthful(a, r, l, n)
BY DEF Requests, InitRequest, NoRequest, Admissible, Truthful

\* A step that ends call c with result a and changes no data is the answer a.
LEMMA EndIsReply ==
  ASSUME IInv, NEW c \in Calls, NEW a \in Register!Answers,
         pc[c] \notin {"idle", "done", "dead"}, pc' = [pc EXCEPT ![c] = "done"],
         outcome'[c] = a, \A d \in Calls \ {c} : outcome'[d] = outcome[d],
         Truthful(a, request[c], file.ledger, stable), UNCHANGED <<file, stable, request>>
  PROVE  Register!Reply(c, a)
<1>1. request[c] # Register!NoRequest
  BY RequestTypes, SameOperators DEF IInv, RequestInv
<1>2. answer[c] = "none"
  BY DEF answer
<1>3. answer' = [answer EXCEPT ![c] = a]
  BY DEF answer, IInv, TypeOK
<1> QED
  BY <1>1, <1>2, <1>3, SameOperators DEF Register!Reply

\* A step that leaves the done and the dead alone gives no answer.
LEMMA NoAnswer ==
  ASSUME IInv, NEW c \in Calls, NEW label \in Labels \ {"done", "dead"}, pc[c] \notin {"done", "dead"},
         pc' = [pc EXCEPT ![c] = label], \A d \in Calls \ {c} : outcome'[d] = outcome[d]
  PROVE  UNCHANGED answer
BY DEF answer, IInv, TypeOK

LEMMA StepRefines ==
  ASSUME IInv, IInv', NEW c \in Calls, Step(c)
  PROVE  [Register!Next]_Register!vars
<1> USE DEF Goto, Finish
<1>1. CASE AcquireLock(c)
  <2>1. CASE lock = NoCall
    <3>1. UNCHANGED answer
      BY <1>1, <2>1, NoAnswer DEF AcquireLock, Labels, Locked
    <3> QED
      BY <1>1, <3>1 DEF AcquireLock, Register!vars
  <2>2. CASE lock # NoCall
    <3>1. Register!Reply(c, "locked")
      BY <1>1, <2>2, EndIsReply DEF AcquireLock, Register!Answers, Truthful, Register!Truthful, IInv, TypeOK
    <3> QED
      BY <3>1 DEF Register!Next, Register!Answers
  <2> QED
    BY <2>1, <2>2
<1>2. CASE ReadAndDecide(c) \/ OpenTemp(c) \/ SyncTemp(c)
  <2>1. PICK label \in {"open", "fsync", "rename", "release"} : pc' = [pc EXCEPT ![c] = label]
    BY <1>2 DEF ReadAndDecide, OpenTemp, SyncTemp
  <2>2. /\ UNCHANGED <<file, stable, request>>
        /\ pc[c] \notin {"done", "dead"}
        /\ \A d \in Calls \ {c} : outcome'[d] = outcome[d]
    BY <1>2 DEF ReadAndDecide, OpenTemp, SyncTemp, IInv, TypeOK
  <2>3. UNCHANGED answer
    BY <2>1, <2>2, NoAnswer DEF Labels, Locked
  <2> QED
    BY <2>2, <2>3 DEF Register!vars
<1>3. CASE RenameTemp(c)
  <2>1. UNCHANGED answer /\ answer[c] = "none"
    BY <1>3, NoAnswer DEF RenameTemp, Labels, Locked, answer
  <2>2. Register!Commit(c)
    BY <1>3, <2>1, RenameTempCommits, RequestTypes, SameOperators DEF RenameTemp, Register!Commit
  <2> QED
    BY <2>2 DEF Register!Next
<1>4. CASE SyncDirectory(c)
  <2>1. UNCHANGED answer
    BY <1>4, NoAnswer DEF SyncDirectory, Labels, Locked, IInv, TypeOK
  <2>2. Register!Persist
    BY <1>4, <2>1 DEF SyncDirectory, Register!Persist
  <2> QED
    BY <2>2 DEF Register!Next
<1>5. CASE ReleaseLock(c)
  <2>1. outcome[c] \in Register!Answers /\ Truthful(outcome[c], request[c], file.ledger, stable)
    BY <1>5 DEF ReleaseLock, IInv, TypeOK, Outcomes, ReleaseInv
  <2>2. Register!Reply(c, outcome[c])
    BY <1>5, <2>1, EndIsReply DEF ReleaseLock
  <2> QED
    BY <2>1, <2>2 DEF Register!Next
<1> QED
  BY <1>1, <1>2, <1>3, <1>4, <1>5 DEF Step

LEMMA FailureRefines ==
  ASSUME IInv, NEW c \in Calls, Failure(c)
  PROVE  [Register!Next]_Register!vars
<1> USE DEF Goto, Finish
<1>1. CASE OperationFails(c)
  <2>1. UNCHANGED answer
    BY <1>1, NoAnswer DEF OperationFails, Labels, Locked, IInv, TypeOK
  <2> QED
    BY <1>1, <2>1 DEF OperationFails, Register!vars
<1>2. CASE LockWriteFails(c)
  <2>1. Register!Reply(c, "error")
    BY <1>2, EndIsReply DEF LockWriteFails, Register!Answers, Truthful, Register!Truthful, IInv, TypeOK
  <2> QED
    BY <2>1 DEF Register!Next, Register!Answers
<1>3. CASE UnlinkFails(c)
  <2>1. outcome[c] \in Register!Answers /\ Truthful(outcome[c], request[c], file.ledger, stable)
    BY <1>3 DEF UnlinkFails, IInv, TypeOK, Outcomes, ReleaseInv
  <2>2. Register!Reply(c, outcome[c])
    BY <1>3, <2>1, EndIsReply DEF UnlinkFails
  <2> QED
    BY <2>1, <2>2 DEF Register!Next
<1> QED
  BY <1>1, <1>2, <1>3 DEF Failure

LEMMA KillAbandons ==
  ASSUME IInv, NEW D \in SUBSET Calls, \A c \in D : InFlight(c), Kill(D), UNCHANGED <<request, outcome>>
  PROVE  Register!Abandon(D)
<1>1. \A c \in D : request[c] # Register!NoRequest /\ answer[c] = "none"
  BY RequestTypes, SameOperators DEF IInv, RequestInv, InFlight, Locked, answer
<1>2. answer' = [c \in Calls |-> IF c \in D THEN "lost" ELSE answer[c]]
  BY DEF Kill, answer
<1> QED
  BY <1>1, <1>2 DEF Register!Abandon

LEMMA EnvironmentRefines ==
  ASSUME IInv, Environment
  PROVE  [Register!Next]_Register!vars
<1>1. ASSUME NEW p \in Pids, ProcessCrash(p)
      PROVE  [Register!Next]_Register!vars
  <2> DEFINE D == {c \in Calls : PidOf[c] = p /\ InFlight(c)}
  <2>1. Register!Abandon(D)
    BY <1>1, KillAbandons DEF ProcessCrash
  <2>2. Register!Crash(D)
    BY <1>1, <2>1 DEF ProcessCrash, Register!Crash
  <2> QED
    BY <2>2 DEF Register!Next
<1>2. CASE PowerLoss
  <2> DEFINE D == {c \in Calls : InFlight(c)}
  <2>1. Register!Abandon(D)
    BY <1>2, KillAbandons DEF PowerLoss
  <2>2. PICK n \in stable .. Len(file.ledger) :
          /\ file' = [file EXCEPT !.ledger = SubSeq(file.ledger, 1, n)]
          /\ stable' = n
    BY <1>2 DEF PowerLoss
  <2>3. file'.ledger = SubSeq(file.ledger, 1, n)
    BY <2>2 DEF IInv, TypeOK, Content
  <2>4. Register!PowerLoss(D, n)
    BY <1>2, <2>1, <2>2, <2>3 DEF PowerLoss, Register!PowerLoss
  <2> QED
    BY <2>4 DEF Register!Next
<1>3. CASE OperatorRemovesLock \/ \E p \in Pids : OperatorRemovesTemp(p)
  BY <1>3 DEF OperatorRemovesLock, OperatorRemovesTemp, Register!vars, answer
<1> QED
  BY <1>1, <1>2, <1>3 DEF Environment

LEMMA NextRefines == IInv /\ IInv' /\ [Next]_vars => [Register!Next]_Register!vars
<1> SUFFICES ASSUME IInv, IInv', [Next]_vars PROVE [Register!Next]_Register!vars
  OBVIOUS
<1>1. ASSUME NEW c \in Calls, NEW r \in Requests, Begin(c, r)
      PROVE  [Register!Next]_Register!vars
  <2>1. UNCHANGED answer
    BY <1>1, NoAnswer DEF Begin, Goto, Labels
  <2>2. Register!Invoke(c, r)
    BY <1>1, <2>1, SameOperators DEF Begin, IInv, IdleInv, Register!Invoke
  <2> QED
    BY <2>2, SameOperators DEF Register!Next
<1>2. CASE UNCHANGED vars
  BY <1>2 DEF vars, Register!vars, answer
<1> QED
  BY <1>1, <1>2, StepRefines, FailureRefines, EnvironmentRefines DEF Next

\* The file protocol implements the compare-and-swap register: whatever the
\* interleaving, the faults and the crashes, each answer is true when given.
THEOREM StoreImplementsRegister == Spec => ImplementsRegister
<1>1. Init => Register!Init
  BY DEF Init, Register!Init, answer, NoRequest
<1> QED
  BY <1>1, StoreInvariant, NextRefines, PTL DEF Spec, ImplementsRegister, Register!Spec

-----------------------------------------------------------------------------
(* What a caller may rely on, from the register alone. *)

\* The event of a call that was told "applied" is among the stable ones.
AppliedIsDurable ==
  \A c \in Calls : answer[c] = "applied" => \E i \in 1 .. stable : file.ledger[i] = request[c]

\* Stable events stay, whatever fails later.
StableEventsStay ==
  [][stable <= stable' /\ \A i \in 1 .. stable : file'.ledger[i] = file.ledger[i]]_Register!vars

RegisterInv ==
  /\ AppliedIsDurable
  /\ \A c \in Calls : answer[c] # "none" => request[c] # Register!NoRequest

LEMMA RegisterInit == Init => RegisterInv
BY DEF Init, RegisterInv, AppliedIsDurable, answer

\* No step of the register takes a stable event away.
LEMMA RegisterKeepsStable ==
  ASSUME IInv, [Register!Next]_Register!vars
  PROVE  stable <= stable' /\ \A i \in 1 .. stable : file'.ledger[i] = file.ledger[i]
<1>1. /\ file.ledger \in Seq(Requests) /\ stable \in Nat /\ stable <= Len(file.ledger)
      /\ Len(file.ledger) \in Nat
  BY DEF IInv, TypeOK, Content
<1>2. ASSUME NEW c \in Calls, Register!Commit(c)
      PROVE  stable <= stable' /\ \A i \in 1 .. stable : file'.ledger[i] = file.ledger[i]
  <2>1. file'.ledger = Append(file.ledger, request[c]) /\ stable' = stable
    BY <1>2 DEF Register!Commit
  <2>2. \A i \in 1 .. Len(file.ledger) : Append(file.ledger, request[c])[i] = file.ledger[i]
    BY <1>1
  <2>. QED  BY <1>1, <2>1, <2>2
<1>3. ASSUME NEW D \in SUBSET Calls, NEW n \in stable .. Len(file.ledger), Register!PowerLoss(D, n)
      PROVE  stable <= stable' /\ \A i \in 1 .. stable : file'.ledger[i] = file.ledger[i]
  <2>1. file'.ledger = SubSeq(file.ledger, 1, n) /\ stable' = n
    BY <1>3 DEF Register!PowerLoss
  <2>2. \A i \in 1 .. n : SubSeq(file.ledger, 1, n)[i] = file.ledger[i]
    BY <1>1
  <2>. QED  BY <1>1, <2>1, <2>2
<1>4. CASE Register!Persist
  BY <1>1, <1>4 DEF Register!Persist
<1>5. ASSUME UNCHANGED <<file.ledger, stable>>
      PROVE  stable <= stable' /\ \A i \in 1 .. stable : file'.ledger[i] = file.ledger[i]
  BY <1>1, <1>5
<1>. QED
  BY <1>2, <1>3, <1>4, <1>5
     DEF Register!Next, Register!vars, Register!Invoke, Register!Reply, Register!Crash

LEMMA RegisterStep ==
  ASSUME IInv, RegisterInv, [Register!Next]_Register!vars
  PROVE  RegisterInv'
<1>1. /\ stable \in Nat /\ stable <= stable'
      /\ \A i \in 1 .. stable : file'.ledger[i] = file.ledger[i]
  BY RegisterKeepsStable DEF IInv, TypeOK
<1>2. stable' \in Nat
  BY DEF IInv, TypeOK, Content, Register!Next, Register!vars, Register!Invoke, Register!Commit,
         Register!Persist, Register!Reply, Register!Crash, Register!PowerLoss
<1>3. ASSUME NEW c \in Calls, answer[c] = "applied"
      PROVE  \E i \in 1 .. stable' : file'.ledger[i] = request[c]
  <2>1. PICK i \in 1 .. stable : file.ledger[i] = request[c]
    BY <1>3 DEF RegisterInv, AppliedIsDurable
  <2>. QED  BY <1>1, <1>2, <2>1
<1>4. ASSUME NEW c \in Calls, NEW r, Register!Invoke(c, r), r \in Register!Requests
      PROVE  RegisterInv'
  <2>1. r # Register!NoRequest
    BY <1>4, RequestTypes, SameOperators
  <2>2. answer[c] = "none" /\ answer' = answer
    BY <1>4 DEF Register!Invoke, RegisterInv
  <2>3. \A d \in Calls : /\ d # c => request'[d] = request[d]
                         /\ request'[d] # Register!NoRequest \/ request'[d] = request[d]
    BY <1>4, <2>1 DEF Register!Invoke, IInv, TypeOK
  <2>. QED  BY <1>3, <2>2, <2>3 DEF RegisterInv, AppliedIsDurable
<1>5. ASSUME NEW c \in Calls, NEW a \in Register!Answers, Register!Reply(c, a)
      PROVE  RegisterInv'
  <2>1. /\ request' = request /\ request[c] # Register!NoRequest
        /\ \A d \in Calls \ {c} : answer'[d] = answer[d]
        /\ answer'[c] = a
    BY <1>5 DEF Register!Reply, answer
  <2>2. a = "applied" => \E i \in 1 .. stable : file.ledger[i] = request[c]
    BY <1>5 DEF Register!Reply, Register!Truthful
  <2>3. a = "applied" => \E i \in 1 .. stable' : file'.ledger[i] = request[c]
    BY <1>1, <1>2, <2>2
  <2>. QED  BY <1>3, <2>1, <2>3 DEF RegisterInv, AppliedIsDurable
<1>6. ASSUME NEW D \in SUBSET Calls, Register!Abandon(D), UNCHANGED request
      PROVE  RegisterInv'
  <2>1. \A d \in Calls : /\ d \in D => answer'[d] = "lost" /\ request[d] # Register!NoRequest
                         /\ d \notin D => answer'[d] = answer[d]
    BY <1>6 DEF Register!Abandon
  <2>. QED  BY <1>3, <1>6, <2>1 DEF RegisterInv, AppliedIsDurable
<1>7. ASSUME UNCHANGED <<request, answer>>
      PROVE  RegisterInv'
  BY <1>3, <1>7 DEF RegisterInv, AppliedIsDurable
<1>. QED
  BY <1>4, <1>5, <1>6, <1>7 DEF Register!Next, Register!vars, Register!Commit, Register!Persist,
     Register!Crash, Register!PowerLoss

\* A caller that was told "applied" finds its event in the store for ever: in the
\* part of the ledger that no crash, retry or power failure takes away.
THEOREM StoreAppliedIsDurable == Spec => []AppliedIsDurable
<1>1. IInv /\ IInv' /\ RegisterInv /\ [Next]_vars => RegisterInv'
  BY NextRefines, RegisterStep
<1>2. RegisterInv => AppliedIsDurable
  BY DEF RegisterInv
<1>. QED  BY <1>1, <1>2, RegisterInit, StoreInvariant, PTL DEF Spec

\* Stable events are never taken back and never rewritten.
THEOREM StoreStableEventsStay == Spec => StableEventsStay
<1>. DEFINE Stay == stable <= stable' /\ \A i \in 1 .. stable : file'.ledger[i] = file.ledger[i]
<1>1. IInv /\ IInv' /\ [Next]_vars => [Stay]_Register!vars
  BY NextRefines, RegisterKeepsStable
<1>. QED  BY <1>1, StoreInvariant, PTL DEF Spec, StableEventsStay
=============================================================================
