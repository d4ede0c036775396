------------------------ MODULE ArtifactStoreProofs ------------------------
(***************************************************************************)
(* Proofs about ArtifactStore, for any executions, artifacts and contents  *)
(* and any number of crashes.  What keeps referenced bytes is that nothing *)
(* is deleted before the index is sealed, and nothing is registered after  *)
(* it: what a deletion saw of the references to a content can then only    *)
(* stay true, however old its snapshot is when the bytes are unlinked.     *)
(***************************************************************************)
EXTENDS ArtifactStore, TLAPS

\* While the index is open no bytes were ever unlinked and no reference was
\* released: what was sealed or accepted is there.
OpenInv ==
  coverage = "OPEN" =>
    /\ \A e \in Executions : sealing[e] # None => sealing[e].content \in immutable
    /\ \A e \in Executions : accepted[e] # None => accepted[e].content \in immutable
    /\ \A e \in Executions : reference[e] # "RELEASED"

\* A tombstone is of an execution that came to its end with this artifact.
TombstoneInv ==
  \A i \in ArtifactIds :
    tombstone[i] # None =>
      /\ tombstone[i].execution \in terminal
      /\ accepted[tombstone[i].execution] = [id |-> i, content |-> tombstone[i].content]

\* A reference was released on the tombstone of its own execution.
ReleaseInv ==
  \A e \in Executions : reference[e] = "RELEASED" => e \in terminal

\* What a deletion of c under the id i has seen.
Cleared(i, c) ==
  /\ coverage = "SEALED"
  /\ tombstone[i] # None
  /\ tombstone[i].content = c
  /\ \A e \in Executions :
       reference[e] # "NONE" /\ accepted[e].content = c => reference[e] = "RELEASED"

\* It is still so when the bytes are unlinked, and ever after.
DeletionInv ==
  \A i \in ArtifactIds :
    /\ deleting[i] # "idle" => Cleared(i, deletion[i])
    /\ receipt[i] # None => Cleared(i, receipt[i])

IInv ==
  /\ TypeOK
  /\ OpenInv
  /\ ReferencedBytesKept
  /\ TombstoneInv
  /\ ReleaseInv
  /\ DeletionInv

-----------------------------------------------------------------------------
\* Init
THEOREM Initially == Init => IInv
  BY ArtifactAssumption
  DEF Init, IInv, TypeOK, OpenInv, ReferencedBytesKept, TombstoneInv, ReleaseInv, DeletionInv,
      Artifacts, Tombstones

\* Artifacts and Tombstones are records.
LEMMA ArtifactFields ==
  ASSUME NEW a \in Artifacts
  PROVE  a.id \in ArtifactIds /\ a.content \in Contents /\ a = [id |-> a.id, content |-> a.content]
  BY DEF Artifacts

LEMMA TombstoneFields ==
  ASSUME NEW t \in Tombstones
  PROVE  /\ t.content \in Contents
         /\ t.execution \in Executions
         /\ t = [content |-> t.content, execution |-> t.execution]
  BY DEF Tombstones

-----------------------------------------------------------------------------
(* Each action preserves the invariant. *)

LEMMA StagePreserves ==
  ASSUME IInv, NEW c \in Contents, Stage(c)
  PROVE  IInv'
  BY DEF IInv, TypeOK, OpenInv, ReferencedBytesKept, TombstoneInv, ReleaseInv, DeletionInv,
         Cleared, Stage, content, journals, index, deletions

\* Bytes are only added.
LEMMA SealPreserves ==
  ASSUME IInv, NEW e \in Executions, NEW a \in Artifacts, SealForAcceptance(e, a)
  PROVE  IInv'
<1>1. /\ immutable' = immutable \cup {a.content}
      /\ sealing' = [sealing EXCEPT ![e] = a]
      /\ UNCHANGED <<staged, accepted, terminal, coverage, reference, tombstone, deleting,
                     deletion, receipt>>
  BY DEF SealForAcceptance, SealContent, index, deletions
<1>2. a.content \in Contents
  BY ArtifactFields
<1>3. TypeOK'
  BY <1>1, <1>2 DEF IInv, TypeOK
<1>4. OpenInv' /\ ReferencedBytesKept'
  BY <1>1 DEF IInv, TypeOK, OpenInv, ReferencedBytesKept
<1>5. TombstoneInv' /\ ReleaseInv' /\ DeletionInv'
  BY <1>1 DEF IInv, TombstoneInv, ReleaseInv, DeletionInv, Cleared
<1>. QED
  BY <1>3, <1>4, <1>5 DEF IInv

\* An acceptance is only ever added, of bytes that were sealed; an execution that
\* was not accepted has no reference, no tombstone, and is not terminal.
LEMMA CommitAcceptancePreserves ==
  ASSUME IInv, NEW e \in Executions, CommitAcceptance(e)
  PROVE  IInv'
<1>1. /\ sealing' = [sealing EXCEPT ![e] = None]
      /\ accepted' = [accepted EXCEPT ![e] = IF accepted[e] = None THEN sealing[e] ELSE accepted[e]]
      /\ sealing[e] # None
      /\ UNCHANGED <<staged, immutable, terminal, coverage, reference, tombstone, deleting,
                     deletion, receipt>>
  BY DEF CommitAcceptance, content, index, deletions
<1>2. \A x \in Executions : accepted[x] # None => accepted'[x] = accepted[x]
  BY <1>1 DEF IInv, TypeOK
<1>3. TypeOK'
  BY <1>1 DEF IInv, TypeOK
<1>4. OpenInv' /\ ReferencedBytesKept'
  BY <1>1, <1>2 DEF IInv, TypeOK, OpenInv, ReferencedBytesKept
<1>5. TombstoneInv'
  <2>1. SUFFICES ASSUME NEW i \in ArtifactIds, tombstone[i] # None
                 PROVE  accepted'[tombstone[i].execution]
                          = [id |-> i, content |-> tombstone[i].content]
    BY <1>1 DEF IInv, TombstoneInv
  <2>2. tombstone[i].execution \in Executions
    BY <2>1, TombstoneFields DEF IInv, TypeOK
  <2>3. accepted[tombstone[i].execution] = [id |-> i, content |-> tombstone[i].content]
    BY <2>1 DEF IInv, TombstoneInv
  <2>4. [id |-> i, content |-> tombstone[i].content] \in [id : ArtifactIds, content : Contents]
    BY <2>1, TombstoneFields DEF IInv, TypeOK
  <2>. QED
    BY <1>2, <2>2, <2>3, <2>4, ArtifactAssumption
<1>6. ReleaseInv'
  BY <1>1 DEF IInv, ReleaseInv
<1>7. DeletionInv'
  <2>1. \A i \in ArtifactIds : \A c : Cleared(i, c) => Cleared(i, c)'
    <3>1. SUFFICES ASSUME NEW i \in ArtifactIds, NEW c, Cleared(i, c)
                   PROVE  Cleared(i, c)'
      OBVIOUS
    <3>. QED
      BY <1>1, <1>2, <3>1 DEF Cleared, IInv, TypeOK
  <2>. QED
    BY <1>1, <2>1 DEF IInv, DeletionInv
<1>. QED
  BY <1>3, <1>4, <1>5, <1>6, <1>7 DEF IInv

LEMMA AbandonPreserves ==
  ASSUME IInv, NEW e \in Executions, AbandonAcceptance(e)
  PROVE  IInv'
<1>1. /\ sealing' = [sealing EXCEPT ![e] = None]
      /\ UNCHANGED <<staged, immutable, accepted, terminal, coverage, reference, tombstone,
                     deleting, deletion, receipt>>
  BY DEF AbandonAcceptance, content, index, deletions
<1>2. TypeOK' /\ OpenInv'
  BY <1>1 DEF IInv, TypeOK, OpenInv
<1>3. ReferencedBytesKept' /\ TombstoneInv' /\ ReleaseInv' /\ DeletionInv'
  BY <1>1 DEF IInv, ReferencedBytesKept, TombstoneInv, ReleaseInv, DeletionInv, Cleared
<1>. QED
  BY <1>2, <1>3 DEF IInv

LEMMA TerminatePreserves ==
  ASSUME IInv, NEW e \in Executions, Terminate(e)
  PROVE  IInv'
<1>1. /\ terminal' = terminal \cup {e}
      /\ UNCHANGED <<staged, immutable, sealing, accepted, coverage, reference, tombstone,
                     deleting, deletion, receipt>>
  BY DEF Terminate, content, index, deletions
<1>2. TypeOK' /\ OpenInv' /\ ReferencedBytesKept'
  BY <1>1 DEF IInv, TypeOK, OpenInv, ReferencedBytesKept
<1>3. TombstoneInv' /\ ReleaseInv' /\ DeletionInv'
  BY <1>1 DEF IInv, TombstoneInv, ReleaseInv, DeletionInv, Cleared
<1>. QED
  BY <1>2, <1>3 DEF IInv

\* A reference is only made while the index is open, when no deletion has been
\* decided and all accepted bytes are there.
LEMMA RegisterPreserves ==
  ASSUME IInv, NEW e \in Executions, Register(e)
  PROVE  IInv'
<1>1. /\ coverage = "OPEN"
      /\ accepted[e] # None
      /\ reference' = [reference EXCEPT ![e] = "ACTIVE"]
      /\ UNCHANGED <<staged, immutable, sealing, accepted, terminal, coverage, tombstone,
                     deleting, deletion, receipt>>
  BY DEF Register, content, journals, deletions
<1>2. TypeOK'
  BY <1>1 DEF IInv, TypeOK
<1>3. OpenInv' /\ ReferencedBytesKept'
  BY <1>1 DEF IInv, TypeOK, OpenInv, ReferencedBytesKept
<1>4. TombstoneInv' /\ ReleaseInv'
  BY <1>1 DEF IInv, TypeOK, TombstoneInv, ReleaseInv
<1>5. DeletionInv'
  BY <1>1 DEF IInv, DeletionInv, Cleared
<1>. QED
  BY <1>2, <1>3, <1>4, <1>5 DEF IInv

LEMMA SealIndexPreserves ==
  ASSUME IInv, NEW acceptances \in SUBSET Executions, SealIndex(acceptances)
  PROVE  IInv'
<1>1. /\ coverage = "OPEN"
      /\ coverage' = "SEALED"
      /\ UNCHANGED <<staged, immutable, sealing, accepted, terminal, reference, tombstone,
                     deleting, deletion, receipt>>
  BY DEF SealIndex, content, journals, deletions
<1>2. TypeOK' /\ OpenInv' /\ ReferencedBytesKept'
  BY <1>1 DEF IInv, TypeOK, OpenInv, ReferencedBytesKept
<1>3. TombstoneInv' /\ ReleaseInv' /\ DeletionInv'
  BY <1>1 DEF IInv, TombstoneInv, ReleaseInv, DeletionInv, Cleared
<1>. QED
  BY <1>2, <1>3 DEF IInv

LEMMA CommitTombstonePreserves ==
  ASSUME IInv, NEW e \in Executions, NEW i \in ArtifactIds, CommitTombstone(e, i)
  PROVE  IInv'
<1> DEFINE t == [content |-> accepted[e].content, execution |-> e]
<1>1. /\ tombstone[i] = None
      /\ accepted[e] # None
      /\ accepted[e].id = i
      /\ e \in terminal
      /\ tombstone' = [tombstone EXCEPT ![i] = t]
      /\ UNCHANGED <<staged, immutable, sealing, accepted, terminal, coverage, reference,
                     deleting, deletion, receipt>>
  BY DEF CommitTombstone, Eligible, content, journals, index, deletions
<1>2. accepted[e] \in Artifacts
  BY <1>1 DEF IInv, TypeOK
<1>3. t \in Tombstones /\ accepted[e] = [id |-> i, content |-> t.content]
  BY <1>1, <1>2, ArtifactFields DEF Tombstones
<1>4. TypeOK'
  BY <1>1, <1>3 DEF IInv, TypeOK
<1>5. OpenInv' /\ ReferencedBytesKept' /\ ReleaseInv'
  BY <1>1 DEF IInv, OpenInv, ReferencedBytesKept, ReleaseInv
<1>6. TombstoneInv'
  BY <1>1, <1>3 DEF IInv, TypeOK, TombstoneInv
<1>7. DeletionInv'
  BY <1>1 DEF IInv, TypeOK, DeletionInv, Cleared
<1>. QED
  BY <1>4, <1>5, <1>6, <1>7 DEF IInv

\* References are only taken away, and on the tombstone of an execution that has
\* ended.
LEMMA ReleasePreserves ==
  ASSUME IInv, NEW e \in Executions, accepted[e] # None, Release(e)
  PROVE  IInv'
<1>1. /\ coverage = "SEALED"
      /\ reference[e] = "ACTIVE"
      /\ tombstone[accepted[e].id] # None
      /\ tombstone[accepted[e].id].execution = e
      /\ reference' = [reference EXCEPT ![e] = "RELEASED"]
      /\ UNCHANGED <<staged, immutable, sealing, accepted, terminal, coverage, tombstone,
                     deleting, deletion, receipt>>
  BY DEF Release, content, journals, deletions
<1>2. accepted[e].id \in ArtifactIds
  BY ArtifactFields DEF IInv, TypeOK
<1>3. e \in terminal
  BY <1>1, <1>2 DEF IInv, TombstoneInv
<1>4. TypeOK' /\ ReleaseInv'
  BY <1>1, <1>3 DEF IInv, TypeOK, ReleaseInv
<1>5. OpenInv' /\ ReferencedBytesKept' /\ TombstoneInv'
  BY <1>1 DEF IInv, TypeOK, OpenInv, ReferencedBytesKept, TombstoneInv
<1>6. DeletionInv'
  BY <1>1 DEF IInv, TypeOK, DeletionInv, Cleared
<1>. QED
  BY <1>4, <1>5, <1>6 DEF IInv

LEMMA DecidePreserves ==
  ASSUME IInv, NEW i \in ArtifactIds, NEW c \in Contents, DecideDeletion(i, c)
  PROVE  IInv'
<1>1. /\ deleting' = [deleting EXCEPT ![i] = "decided"]
      /\ deletion' = [deletion EXCEPT ![i] = c]
      /\ UNCHANGED <<staged, immutable, sealing, accepted, terminal, coverage, reference,
                     tombstone, receipt>>
  BY DEF DecideDeletion, content, journals, index
<1>2. Cleared(i, c)
  BY DEF DecideDeletion, NoReference, ReferencesTo, Cleared
<1>3. c # None
  BY ArtifactAssumption
<1>4. TypeOK'
  BY <1>1, <1>3 DEF IInv, TypeOK
<1>5. OpenInv' /\ ReferencedBytesKept' /\ TombstoneInv' /\ ReleaseInv'
  BY <1>1 DEF IInv, OpenInv, ReferencedBytesKept, TombstoneInv, ReleaseInv
<1>6. \A j \in ArtifactIds : \A d : Cleared(j, d) => Cleared(j, d)'
  BY <1>1 DEF Cleared
<1>7. DeletionInv'
  BY <1>1, <1>2, <1>6 DEF IInv, TypeOK, DeletionInv
<1>. QED
  BY <1>4, <1>5, <1>7 DEF IInv

\* No active reference is to the bytes that go.
LEMMA UnlinkPreserves ==
  ASSUME IInv, NEW i \in ArtifactIds, Unlink(i)
  PROVE  IInv'
<1>1. /\ deleting[i] = "decided"
      /\ UNCHANGED <<staged, sealing, accepted, terminal, coverage, reference, tombstone,
                     deletion, receipt>>
      /\ immutable' \subseteq immutable
      /\ \A c \in immutable : c # deletion[i] => c \in immutable'
      /\ \/ deleting' = [deleting EXCEPT ![i] = "unlinked"]
         \/ deleting' = [deleting EXCEPT ![i] = "idle"]
  BY DEF Unlink, journals, index
<1>2. Cleared(i, deletion[i])
  BY <1>1 DEF IInv, DeletionInv
<1>3. TypeOK'
  BY <1>1 DEF IInv, TypeOK
<1>4. OpenInv'
  BY <1>1, <1>2 DEF OpenInv, Cleared
<1>5. ReferencedBytesKept'
  BY <1>1, <1>2 DEF IInv, ReferencedBytesKept, Cleared
<1>6. TombstoneInv' /\ ReleaseInv'
  BY <1>1 DEF IInv, TombstoneInv, ReleaseInv
<1>7. DeletionInv'
  BY <1>1, <1>2 DEF IInv, TypeOK, DeletionInv, Cleared
<1>. QED
  BY <1>3, <1>4, <1>5, <1>6, <1>7 DEF IInv

LEMMA WriteReceiptPreserves ==
  ASSUME IInv, NEW i \in ArtifactIds, WriteReceipt(i)
  PROVE  IInv'
<1>1. /\ deleting[i] = "unlinked"
      /\ receipt' = [receipt EXCEPT ![i] = deletion[i]]
      /\ deleting' = [deleting EXCEPT ![i] = "idle"]
      /\ UNCHANGED <<staged, immutable, sealing, accepted, terminal, coverage, reference,
                     tombstone, deletion>>
  BY DEF WriteReceipt, content, journals, index
<1>2. Cleared(i, deletion[i])
  BY <1>1 DEF IInv, DeletionInv
<1>3. TypeOK'
  BY <1>1 DEF IInv, TypeOK
<1>4. OpenInv' /\ ReferencedBytesKept' /\ TombstoneInv' /\ ReleaseInv'
  BY <1>1 DEF IInv, OpenInv, ReferencedBytesKept, TombstoneInv, ReleaseInv
<1>5. \A j \in ArtifactIds : \A d : Cleared(j, d) => Cleared(j, d)'
  BY <1>1 DEF Cleared
<1>6. DeletionInv'
  BY <1>1, <1>2, <1>5 DEF IInv, TypeOK, DeletionInv
<1>. QED
  BY <1>3, <1>4, <1>6 DEF IInv

LEMMA CrashPreserves ==
  ASSUME IInv, NEW i \in ArtifactIds, CrashDeletion(i)
  PROVE  IInv'
<1>1. /\ deleting' = [deleting EXCEPT ![i] = "idle"]
      /\ UNCHANGED <<staged, immutable, sealing, accepted, terminal, coverage, reference,
                     tombstone, deletion, receipt>>
  BY DEF CrashDeletion, content, journals, index
<1>2. TypeOK'
  BY <1>1 DEF IInv, TypeOK
<1>3. OpenInv' /\ ReferencedBytesKept' /\ TombstoneInv' /\ ReleaseInv'
  BY <1>1 DEF IInv, OpenInv, ReferencedBytesKept, TombstoneInv, ReleaseInv
<1>4. DeletionInv'
  BY <1>1 DEF IInv, TypeOK, DeletionInv, Cleared
<1>. QED
  BY <1>2, <1>3, <1>4 DEF IInv

-----------------------------------------------------------------------------
(* The theorems. *)

\* IInv is inductive.
THEOREM Inductive == IInv /\ [Next]_vars => IInv'
<1> SUFFICES ASSUME IInv, [Next]_vars
             PROVE  IInv'
  OBVIOUS
<1>1. CASE UNCHANGED vars
  BY <1>1 DEF IInv, TypeOK, OpenInv, ReferencedBytesKept, TombstoneInv, ReleaseInv, DeletionInv,
              Cleared, vars, content, journals, index, deletions
<1>2. CASE \E c \in Contents : Stage(c)
  BY <1>2, StagePreserves
<1>3. ASSUME NEW e \in Executions,
             \/ \E a \in Artifacts : SealForAcceptance(e, a)
             \/ CommitAcceptance(e)
             \/ AbandonAcceptance(e)
             \/ Terminate(e)
             \/ Register(e)
             \/ \E i \in ArtifactIds : CommitTombstone(e, i)
             \/ accepted[e] # None /\ Release(e)
      PROVE  IInv'
  BY <1>3, SealPreserves, CommitAcceptancePreserves, AbandonPreserves, TerminatePreserves,
     RegisterPreserves, CommitTombstonePreserves, ReleasePreserves
<1>4. CASE \E acceptances \in SUBSET Executions : SealIndex(acceptances)
  BY <1>4, SealIndexPreserves
<1>5. ASSUME NEW i \in ArtifactIds,
             \/ \E c \in Contents : DecideDeletion(i, c)
             \/ Unlink(i)
             \/ WriteReceipt(i)
             \/ CrashDeletion(i)
      PROVE  IInv'
  BY <1>5, DecidePreserves, UnlinkPreserves, WriteReceiptPreserves, CrashPreserves
<1>. QED
  BY <1>1, <1>2, <1>3, <1>4, <1>5 DEF Next

\* The inductive invariant holds in every reachable state.
THEOREM Invariance == Spec => []IInv
  BY Initially, Inductive, PTL DEF Spec

\* Every variable keeps its type.
THEOREM TypeCorrect == Spec => []TypeOK
<1>1. IInv => TypeOK
  BY DEF IInv
<1>. QED
  BY Invariance, <1>1, PTL

\* As long as a reference is not released the bytes it is to are there.
THEOREM BytesKept == Spec => []ReferencedBytesKept
<1>1. IInv => ReferencedBytesKept
  BY DEF IInv
<1>. QED
  BY Invariance, <1>1, PTL

\* Bytes are deleted on behalf of an ended execution only, and of no reference.
THEOREM EarnedDeletion == Spec => []DeletionIsEarned
<1>1. ASSUME IInv, NEW i \in ArtifactIds, NEW c, Cleared(i, c)
      PROVE  /\ \E e \in terminal :
                  /\ accepted[e] = [id |-> i, content |-> c]
                  /\ tombstone[i] = [content |-> c, execution |-> e]
             /\ \A e \in ReferencesTo(c) : reference[e] = "RELEASED" /\ e \in terminal
  <2>1. tombstone[i] \in Tombstones /\ tombstone[i].content = c
    BY <1>1 DEF IInv, TypeOK, Cleared
  <2>2. tombstone[i] = [content |-> c, execution |-> tombstone[i].execution]
    BY <2>1, TombstoneFields
  <2>3. /\ tombstone[i].execution \in terminal
        /\ accepted[tombstone[i].execution] = [id |-> i, content |-> c]
    BY <1>1, <2>1 DEF IInv, TombstoneInv, Cleared
  <2>4. \A e \in ReferencesTo(c) : reference[e] = "RELEASED" /\ e \in terminal
    BY <1>1 DEF IInv, ReleaseInv, ReferencesTo, Cleared
  <2>. QED
    BY <2>2, <2>3, <2>4
<1>2. IInv => DeletionIsEarned
  <2>1. SUFFICES ASSUME IInv, NEW i \in ArtifactIds, deleting[i] = "unlinked" \/ receipt[i] # None
                 PROVE  Cleared(i, IF deleting[i] = "unlinked" THEN deletion[i] ELSE receipt[i])
    BY <1>1 DEF DeletionIsEarned
  <2>. QED
    BY <2>1 DEF IInv, DeletionInv
<1>. QED
  BY Invariance, <1>2, PTL
=============================================================================
