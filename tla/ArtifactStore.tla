--------------------------- MODULE ArtifactStore ---------------------------
(***************************************************************************)
(* The bytes of accepted artifacts, from staging to physical deletion:     *)
(* artifact-content-store-v1, stored-result-acceptance-v1, artifact-       *)
(* reference-index-v1, authoritative-gc-tombstone-v1, authoritative-gc-    *)
(* input-projection-v1, artifact-retention-v1 and artifact-physical-       *)
(* deletion-v1.                                                            *)
(*                                                                         *)
(* The bytes are addressed by their content, so that executions share      *)
(* them.  An acceptance is stored in two steps: its bytes are sealed, then *)
(* its journal is committed.  A deletion decides on snapshots of the index *)
(* and of the tombstones before it takes the lock of its receipt, unlinks  *)
(* the bytes, and writes the receipt; it may crash in between.  All other  *)
(* operations hold the lock of their store throughout and are one step.    *)
(*                                                                         *)
(* There is one reference index, one tombstone store, of one execution     *)
(* plan, and one security domain.  An execution has one artifact,          *)
(* acceptances are made by commitStoredResultAcceptanceV1 and tombstones   *)
(* from the input projection.  What a retention class asks for besides     *)
(* references and tombstone is up to the context the caller gives.         *)
(***************************************************************************)
CONSTANTS Executions,  \* executions of the plan, with a journal each
          ArtifactIds,
          Contents,    \* CONTENT_SHA256
          None

ASSUME ArtifactAssumption ==
  /\ None \notin [id : ArtifactIds, content : Contents]
  /\ None \notin [content : Contents, execution : Executions]
  /\ None \notin Contents

VARIABLES staged,     \* contents with bytes under quarantine/
          immutable,  \* contents with bytes under immutable/
          sealing,    \* per execution, the artifact whose bytes are sealed for it
          accepted,   \* per execution, the artifact of its acceptance journal
          terminal,   \* executions whose saga is complete and whose closure is sealed
          coverage,   \* COVERAGE.STATE of the index
          reference,  \* per execution, the STATUS of its reference in the index
          tombstone,  \* per artifact id, the content and the acceptance it is for
          deleting,   \* per artifact id, where its deletion is
          deletion,   \* per artifact id, the content its deletion is for
          receipt     \* per artifact id, the content its deletion receipt is for

content == <<staged, immutable>>
journals == <<sealing, accepted, terminal>>
index == <<coverage, reference>>
deletions == <<deleting, deletion, receipt>>
vars == <<content, journals, index, tombstone, deletions>>

Artifacts == [id : ArtifactIds, content : Contents]
Tombstones == [content : Contents, execution : Executions]

Init ==
  /\ staged = {}
  /\ immutable = {}
  /\ sealing = [e \in Executions |-> None]
  /\ accepted = [e \in Executions |-> None]
  /\ terminal = {}
  /\ coverage = "OPEN"
  /\ reference = [e \in Executions |-> "NONE"]
  /\ tombstone = [i \in ArtifactIds |-> None]
  /\ deleting = [i \in ArtifactIds |-> "idle"]
  /\ deletion = [i \in ArtifactIds |-> None]
  /\ receipt = [i \in ArtifactIds |-> None]

-----------------------------------------------------------------------------
(* Staging, sealing and acceptance. *)

\* Bytes of the right digest are linked into the quarantine.
Stage(c) ==
  /\ staged' = staged \cup {c}
  /\ UNCHANGED <<immutable, journals, index, tombstone, deletions>>

\* Staged bytes are linked into the immutable store, or found to be there.
SealContent(c) ==
  /\ c \in staged
  /\ immutable' = immutable \cup {c}

\* commitStoredResultAcceptanceV1 seals the bytes first ...
SealForAcceptance(e, a) ==
  /\ sealing[e] = None
  /\ SealContent(a.content)
  /\ sealing' = [sealing EXCEPT ![e] = a]
  /\ UNCHANGED <<staged, accepted, terminal, index, tombstone, deletions>>

\* ... and then commits the journal, once per execution.
CommitAcceptance(e) ==
  /\ sealing[e] # None
  /\ sealing' = [sealing EXCEPT ![e] = None]
  /\ accepted' = [accepted EXCEPT ![e] = IF accepted[e] = None THEN sealing[e] ELSE accepted[e]]
  /\ UNCHANGED <<terminal, content, index, tombstone, deletions>>

\* The process ends between the two.
AbandonAcceptance(e) ==
  /\ sealing[e] # None
  /\ sealing' = [sealing EXCEPT ![e] = None]
  /\ UNCHANGED <<accepted, terminal, content, index, tombstone, deletions>>

\* The execution's saga completes and its closure is sealed (SessionTerminal).
Terminate(e) ==
  /\ accepted[e] # None
  /\ terminal' = terminal \cup {e}
  /\ UNCHANGED <<sealing, accepted, content, index, tombstone, deletions>>

-----------------------------------------------------------------------------
(* The reference index and the tombstones. *)

\* Faulty variant: what is registered need not have been accepted.
RegisterUnaccepted(e) ==
  /\ coverage = "OPEN"
  /\ reference[e] \in {"NONE", "ACTIVE"}
  /\ reference' = [reference EXCEPT ![e] = "ACTIVE"]
  /\ UNCHANGED <<coverage, content, journals, tombstone, deletions>>

\* An accepted artifact is referenced, as long as the index is open.
Register(e) ==
  /\ coverage = "OPEN"
  /\ accepted[e] # None
  /\ reference[e] \in {"NONE", "ACTIVE"}
  /\ reference' = [reference EXCEPT ![e] = "ACTIVE"]
  /\ UNCHANGED <<coverage, content, journals, tombstone, deletions>>

\* The set of acceptances the caller calls authoritative must be the very set
\* that was registered; other acceptances may exist.
SealIndex(acceptances) ==
  /\ coverage = "OPEN"
  /\ \A e \in acceptances : accepted[e] # None
  /\ acceptances = {e \in Executions : reference[e] = "ACTIVE"}
  /\ coverage' = "SEALED"
  /\ UNCHANGED <<reference, content, journals, tombstone, deletions>>

\* Faulty variant: the execution need not be terminal.
EligibleAccepted(e, i) == accepted[e] # None /\ accepted[e].id = i

\* buildAuthoritativeGcInputV1, evaluateGcEligibilityV1: the execution was
\* accepted, it is terminal, and this artifact is in its manifest.
Eligible(e, i) ==
  /\ accepted[e] # None
  /\ accepted[e].id = i
  /\ e \in terminal

\* An artifact id has one tombstone, for the acceptance that was first to ask.
CommitTombstone(e, i) ==
  /\ tombstone[i] = None
  /\ Eligible(e, i)
  /\ tombstone' = [tombstone EXCEPT ![i] = [content |-> accepted[e].content, execution |-> e]]
  /\ UNCHANGED <<content, journals, index, deletions>>

Release(e) ==
  LET t == tombstone[accepted[e].id] IN
  /\ coverage = "SEALED"
  /\ reference[e] = "ACTIVE"
  /\ t # None
  /\ t.content = accepted[e].content
  /\ t.execution = e
  /\ reference' = [reference EXCEPT ![e] = "RELEASED"]
  /\ UNCHANGED <<coverage, content, journals, tombstone, deletions>>

-----------------------------------------------------------------------------
(* Physical deletion. *)

\* The references the index has to a content.
ReferencesTo(c) == {e \in Executions : reference[e] # "NONE" /\ accepted[e].content = c}

\* Faulty variant: only references under the artifact's own id are looked at.
NoReferenceHere(i, c) ==
  /\ coverage = "SEALED"
  /\ {e \in ReferencesTo(c) : accepted[e].id = i} # {}
  /\ \A e \in ReferencesTo(c) : accepted[e].id = i => reference[e] = "RELEASED"

\* buildZeroReferenceProofV1: every reference to the content is released.
NoReference(i, c) ==
  /\ coverage = "SEALED"
  /\ ReferencesTo(c) # {}
  /\ \A e \in ReferencesTo(c) : reference[e] = "RELEASED"

\* The decision: no reference, a tombstone of this artifact for this content and
\* for the acceptance of each of its references, and retention satisfied.
DecideDeletion(i, c) ==
  LET exact == {e \in ReferencesTo(c) : accepted[e].id = i} IN
  /\ deleting[i] = "idle"
  /\ NoReference(i, c)
  /\ tombstone[i] # None
  /\ tombstone[i].content = c
  /\ exact # {}
  /\ \A e \in exact : tombstone[i].execution = e
  /\ deleting' = [deleting EXCEPT ![i] = "decided"]
  /\ deletion' = [deletion EXCEPT ![i] = c]
  /\ UNCHANGED <<receipt, content, journals, index, tombstone>>

\* Under the lock of the receipt: one that exists ends the call, and bytes that
\* are not there are no error.
Unlink(i) ==
  /\ deleting[i] = "decided"
  /\ IF receipt[i] = None
     THEN /\ immutable' = immutable \ {deletion[i]}
          /\ deleting' = [deleting EXCEPT ![i] = "unlinked"]
     ELSE /\ deleting' = [deleting EXCEPT ![i] = "idle"]
          /\ UNCHANGED immutable
  /\ UNCHANGED <<staged, deletion, receipt, journals, index, tombstone>>

WriteReceipt(i) ==
  /\ deleting[i] = "unlinked"
  /\ receipt' = [receipt EXCEPT ![i] = deletion[i]]
  /\ deleting' = [deleting EXCEPT ![i] = "idle"]
  /\ UNCHANGED <<deletion, content, journals, index, tombstone>>

\* The deleting process ends; another may decide again.
CrashDeletion(i) ==
  /\ deleting[i] # "idle"
  /\ deleting' = [deleting EXCEPT ![i] = "idle"]
  /\ UNCHANGED <<deletion, receipt, content, journals, index, tombstone>>

Next ==
  \/ \E c \in Contents : Stage(c)
  \/ \E e \in Executions :
       \/ \E a \in Artifacts : SealForAcceptance(e, a)
       \/ CommitAcceptance(e)
       \/ AbandonAcceptance(e)
       \/ Terminate(e)
       \/ Register(e)
       \/ \E i \in ArtifactIds : CommitTombstone(e, i)
       \/ accepted[e] # None /\ Release(e)
  \/ \E acceptances \in SUBSET Executions : SealIndex(acceptances)
  \/ \E i \in ArtifactIds :
       \/ \E c \in Contents : DecideDeletion(i, c)
       \/ Unlink(i)
       \/ WriteReceipt(i)
       \/ CrashDeletion(i)

Spec == Init /\ [][Next]_vars

-----------------------------------------------------------------------------
(* Properties. *)

\* Every variable has its type.
TypeOK ==
  /\ staged \subseteq Contents /\ immutable \subseteq Contents
  /\ sealing \in [Executions -> Artifacts \cup {None}]
  /\ accepted \in [Executions -> Artifacts \cup {None}]
  /\ terminal \subseteq Executions
  /\ coverage \in {"OPEN", "SEALED"}
  /\ reference \in [Executions -> {"NONE", "ACTIVE", "RELEASED"}]
  /\ tombstone \in [ArtifactIds -> Tombstones \cup {None}]
  /\ deleting \in [ArtifactIds -> {"idle", "decided", "unlinked"}]
  /\ deletion \in [ArtifactIds -> Contents \cup {None}]
  /\ receipt \in [ArtifactIds -> Contents \cup {None}]
  /\ \A e \in Executions : reference[e] # "NONE" => accepted[e] # None
  /\ \A i \in ArtifactIds : deleting[i] # "idle" => deletion[i] # None

\* "Once sealed, new references cannot be registered into that generation"
\* (R51_P4_DURABLE_REFERENCE_INDEX_PHYSICAL_DELETION): as long as the index has
\* a reference that is not released, the bytes it is to are there, whatever
\* other executions share them and whatever a deletion decided long ago.
ReferencedBytesKept ==
  \A e \in Executions : reference[e] = "ACTIVE" => accepted[e].content \in immutable

\* Bytes are only deleted on behalf of an execution that has come to its end:
\* one whose own artifact it was, whose reference was released on its own
\* tombstone, and no other reference to them is left.
DeletionIsEarned ==
  \A i \in ArtifactIds :
    deleting[i] = "unlinked" \/ receipt[i] # None =>
      LET c == IF deleting[i] = "unlinked" THEN deletion[i] ELSE receipt[i] IN
      /\ \E e \in terminal :
           /\ accepted[e] = [id |-> i, content |-> c]
           /\ tombstone[i] = [content |-> c, execution |-> e]
      /\ \A e \in ReferencesTo(c) : reference[e] = "RELEASED" /\ e \in terminal
=============================================================================
