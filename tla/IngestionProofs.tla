--------------------------- MODULE IngestionProofs ---------------------------
(***************************************************************************)
(* Theorems about Ingestion, for any number of workers, revisions, edits,  *)
(* attempts, faults and generations: its types; what students read, which  *)
(* is one published revision at a time, frozen once it was seen, as        *)
(* PublishedDocument promises; and what the jobs write, which a claim      *)
(* guards. Every step of the pipeline publishes one draft, changes one     *)
(* draft, or leaves all revisions alone.                                   *)
(***************************************************************************)
EXTENDS Ingestion, TLAPS

-----------------------------------------------------------------------------
(* Types *)

\* A worker that is not idle holds the claim of a revision.
ClaimsARevision == \A w \in Workers :
    claim[w].step # "idle" => claim[w].revision \in Revisions

TypeInv == TypeOK /\ ClaimsARevision

LEMMA RowTypes ==
    /\ NoRow \in Revision
    /\ \A reason \in Reasons : EmptyDraft(reason) \in Revision
    /\ NoJob \in Job
    /\ \A kind \in Kinds, settled \in BOOLEAN : QueuedJob(kind, settled) \in Job
    /\ NoClaim \in Claim
  BY DEF NoRow, EmptyDraft, NoJob, QueuedJob, NoClaim, Revision, Job, Claim, Steps,
         Publications, Processings, Reasons, Statuses, Kinds, NoIndex, NoRevision

LEMMA TypeInit == IngestionInit => TypeInv
  <1> SUFFICES ASSUME IngestionInit PROVE TypeInv
    OBVIOUS
  <1>1. document \in Document
    BY DEF IngestionInit, Init, Document, Lifecycles
  <1>2. revision \in [Revisions -> Revision] /\ job \in [Revisions -> Job]
    BY RowTypes DEF IngestionInit, Init, Reasons, Kinds
  <1>3. claim \in [Workers -> Claim] /\ faults \in Nat
    BY RowTypes DEF IngestionInit, InitWorkers
  <1>4. ClaimsARevision
    BY DEF IngestionInit, InitWorkers, ClaimsARevision, NoClaim
  <1> QED
    BY <1>1, <1>2, <1>3, <1>4 DEF TypeInv, TypeOK

\* The helpers stay inside their types.
LEMMA HelperTypes ==
    ASSUME TypeInv
    PROVE  /\ Bumped \in Document
           /\ \A l \in Lifecycles, c \in Revisions \cup {NoRevision} :
                  [Bumped EXCEPT !.lifecycle = l, !.current = c] \in Document
           /\ \A table \in [Revisions -> Revision], r \in Revisions :
                  WithPublished(table, r) \in [Revisions -> Revision]
           /\ \A w \in Workers, s \in Steps : [claim[w] EXCEPT !.step = s] \in Claim
  <1>1. Bumped \in Document
    BY DEF TypeInv, TypeOK, Bumped, Document
  <1>2. ASSUME NEW l \in Lifecycles, NEW c \in Revisions \cup {NoRevision}
        PROVE  [Bumped EXCEPT !.lifecycle = l, !.current = c] \in Document
    BY <1>1 DEF Document
  <1>3. ASSUME NEW table \in [Revisions -> Revision], NEW r \in Revisions
        PROVE  WithPublished(table, r) \in [Revisions -> Revision]
    <2>1. ASSUME NEW q \in Revisions, NEW p \in Publications
          PROVE  [table[q] EXCEPT !.publication = p] \in Revision
      BY DEF Revision
    <2> QED
      BY <1>3, <2>1 DEF WithPublished, Publications
  <1>4. ASSUME NEW w \in Workers, NEW s \in Steps
        PROVE  [claim[w] EXCEPT !.step = s] \in Claim
    BY DEF TypeInv, TypeOK, Claim
  <1> QED
    BY <1>1, <1>2, <1>3, <1>4

LEMMA TeacherTypes ==
    ASSUME TypeInv, TeacherStep
    PROVE  TypeInv'
  <1> USE DEF TypeInv, TypeOK
  <1>1. UNCHANGED <<claim, faults>>
    BY DEF TeacherStep
  <1>2. SUFFICES /\ document' \in Document
                 /\ revision' \in [Revisions -> Revision]
                 /\ job' \in [Revisions -> Job]
    BY <1>1 DEF ClaimsARevision, Revisions
  <1>3. ASSUME NEW r \in Revisions, UploadReplacement(r)  PROVE <1>2!1
    BY <1>3, HelperTypes, RowTypes DEF UploadReplacement, Reasons, Kinds
  <1>4. ASSUME NEW r \in Revisions, PublishRevision(r)  PROVE <1>2!1
    <2>1. document' \in Document
      BY <1>4, HelperTypes DEF PublishRevision, Document
    <2> QED
      BY <1>4, <2>1, HelperTypes DEF PublishRevision
  <1>5. ASSUME NEW r \in Revisions, EditInPlace(r)  PROVE <1>2!1
    <2>1. [revision[r] EXCEPT !.content = revision[r].content + 1] \in Revision
      BY DEF Revision
    <2>2. [job[r] EXCEPT !.settled = FALSE] \in Job
      BY DEF Job
    <2> QED
      BY <1>5, <2>1, <2>2, HelperTypes DEF EditInPlace
  <1>6. ASSUME NEW parent \in Revisions, NEW r \in Revisions, EditCopy(parent, r)
        PROVE  <1>2!1
    <2>1. [EmptyDraft("teacher_edit") EXCEPT
               !.processing = "parsed", !.content = 1,
               !.unread = revision[parent].unread] \in Revision
      BY RowTypes DEF Reasons, Processings, Revision
    <2> QED
      BY <1>6, <2>1, HelperTypes, RowTypes DEF EditCopy, Kinds
  <1>7. ASSUME NEW parent \in Revisions, NEW r \in Revisions, RequestReparse(parent, r)
        PROVE  <1>2!1
    BY <1>7, HelperTypes, RowTypes DEF RequestReparse, Reasons, Kinds
  <1>8. ASSUME Archive \/ Restore  PROVE <1>2!1
    BY <1>8, HelperTypes DEF Archive, Restore, SetArchived, Document, Lifecycles
  <1>9. ASSUME MarkDeleted  PROVE <1>2!1
    BY <1>9, HelperTypes, RowTypes DEF MarkDeleted, Lifecycles
  <1> QED
    BY <1>3, <1>4, <1>5, <1>6, <1>7, <1>8, <1>9 DEF TeacherStep

\* The rows a worker writes.
LEMMA JobRowTypes ==
    ASSUME NEW row \in Job, NEW w \in Workers, NEW counted \in BOOLEAN, NEW attempts \in Nat
    PROVE  /\ ClaimedJob(row, w) \in Job
           /\ RequeuedJob(row, counted) \in Job
           /\ RetriedJob(row, attempts) \in Job
  <1>1. ASSUME NEW n \in Nat
        PROVE  [row EXCEPT !.status = "processing", !.attempts = n,
                           !.owner = w, !.leased = TRUE] \in Job
    BY DEF Job, Statuses
  <1>2. ASSUME NEW n \in Nat
        PROVE  [row EXCEPT !.status = "queued", !.leased = FALSE, !.attempts = n] \in Job
    BY DEF Job, Statuses
  <1>3. /\ row.attempts + 1 \in Nat
        /\ (IF counted \/ row.attempts = 0 THEN row.attempts ELSE row.attempts - 1) \in Nat
    BY DEF Job
  <1>4. RetriedJob(row, attempts) \in Job
    BY DEF RetriedJob, Job, Statuses
  <1> QED
    BY <1>1, <1>2, <1>3, <1>4 DEF ClaimedJob, RequeuedJob

LEMMA NewClaimType ==
    ASSUME TypeInv, NEW r \in Revisions, NEW kind \in Kinds
    PROVE  NewClaim(r, kind) \in Claim /\ NewClaim(r, kind).revision = r
  <1>1. job[r].attempts + 1 \in Nat /\ document.generation \in Nat
    BY DEF TypeInv, TypeOK, Job, Document
  <1> QED
    BY <1>1 DEF NewClaim, Claim, Steps

LEMMA ClaimTypes ==
    ASSUME TypeInv, NEW w \in Workers, Claims(w)
    PROVE  TypeInv'
  <1> USE DEF TypeInv, TypeOK
  <1>1. PICK kind \in Kinds, r \in Revisions : ClaimJob(w, kind, r)
    BY DEF Claims
  <1>2. job' \in [Revisions -> Job] /\ UNCHANGED <<document, revision, faults>>
    BY <1>1, JobRowTypes DEF ClaimJob
  <1>3. claim' \in [Workers -> Claim] /\ ClaimsARevision'
    BY <1>1, NewClaimType DEF ClaimJob, ClaimsARevision, Revisions
  <1> QED
    BY <1>2, <1>3

\* A worker's step that keeps its claim, gives it up or changes one step of it.
LEMMA ClaimKept ==
    ASSUME TypeInv, NEW w \in Workers,
           \/ UNCHANGED claim
           \/ Release(w)
           \/ \E s \in Steps : claim[w].step # "idle" /\ GoTo(w, s)
    PROVE  claim' \in [Workers -> Claim] /\ ClaimsARevision'
  <1> USE DEF TypeInv, TypeOK
  <1>1. CASE UNCHANGED claim
    BY <1>1 DEF ClaimsARevision, Revisions
  <1>2. CASE Release(w)
    BY <1>2, RowTypes DEF Release, ClaimsARevision, Revisions, NoClaim
  <1>3. ASSUME NEW s \in Steps, claim[w].step # "idle", GoTo(w, s)
        PROVE  claim' \in [Workers -> Claim] /\ ClaimsARevision'
    <2>1. claim' \in [Workers -> Claim]
      BY <1>3, HelperTypes DEF GoTo
    <2>2. claim'[w].revision = claim[w].revision
      BY <1>3 DEF GoTo, Claim
    <2> QED
      BY <1>3, <2>1, <2>2 DEF GoTo, ClaimsARevision, Revisions
  <1> QED
    BY <1>1, <1>2, <1>3

LEMMA ParseTypes ==
    ASSUME TypeInv, NEW w \in Workers, ParseStep(w)
    PROVE  TypeInv'
  <1> DEFINE r == claim[w].revision
  <1> USE DEF TypeInv, TypeOK
  <1>1. CASE MarkProcessing(w)
    <2>1. r \in Revisions => [revision[r] EXCEPT !.processing = "processing"] \in Revision
      BY DEF Revision, Processings
    <2>2. revision' \in [Revisions -> Revision]
      BY <1>1, <2>1 DEF MarkProcessing
    <2>3. claim' \in [Workers -> Claim] /\ ClaimsARevision'
      BY <1>1, ClaimKept DEF MarkProcessing, At, Steps
    <2> QED
      BY <1>1, <2>2, <2>3 DEF MarkProcessing
  <1>2. CASE ExtendLease(w)
    <2>1. r \in Revisions => [job[r] EXCEPT !.leased = TRUE] \in Job
      BY DEF Job
    <2> QED
      BY <1>2, <2>1, ClaimKept DEF ExtendLease
  <1>3. ASSUME NEW unread \in BOOLEAN, CommitParsed(w, unread)
        PROVE  TypeInv'
    <2>1. r \in Revisions =>
              [revision[r] EXCEPT !.processing = "parsed", !.content = 1, !.unread = unread]
                  \in Revision
      BY DEF Revision, Processings
    <2>2. revision' \in [Revisions -> Revision]
      BY <1>3, <2>1 DEF CommitParsed
    <2>3. job' \in [Revisions -> Job]
      BY <1>3, RowTypes DEF CommitParsed, Kinds
    <2> QED
      BY <1>3, <2>2, <2>3, HelperTypes, ClaimKept DEF CommitParsed
  <1>4. CASE DropParsed(w) \/ RejectSource(w) \/ StopBeforeLeaseEnds(w)
    <2>1. UNCHANGED <<rows, faults>>
      BY <1>4 DEF DropParsed, RejectSource, StopBeforeLeaseEnds
    <2>2. claim' \in [Workers -> Claim] /\ ClaimsARevision'
      BY <1>4, ClaimKept DEF DropParsed, RejectSource, StopBeforeLeaseEnds, At, Steps
    <2> QED
      BY <2>1, <2>2 DEF rows
  <1>5. CASE BreakParse(w)
    <2>1. r \in Revisions
      BY <1>5 DEF BreakParse, ClaimsARevision
    <2>2. LET c == [claim[w] EXCEPT !.step = "requeueing", !.counted = TRUE]
          IN  c \in Claim /\ c.revision = r
      BY DEF Claim, Steps
    <2>3. claim' = [claim EXCEPT ![w] =
                       [claim[w] EXCEPT !.step = "requeueing", !.counted = TRUE]]
      BY <1>5 DEF BreakParse
    <2>4. claim' \in [Workers -> Claim] /\ ClaimsARevision'
      BY <2>1, <2>2, <2>3 DEF ClaimsARevision, Revisions
    <2> QED
      BY <1>5, <2>4 DEF BreakParse, rows
  <1>6. CASE CommitFailed(w)
    <2>1. r \in Revisions =>
              /\ [revision[r] EXCEPT !.processing = "failed"] \in Revision
              /\ [job[r] EXCEPT !.status = "failed"] \in Job
      <3>1. r \in Revisions => [revision[r] EXCEPT !.processing = "failed"] \in Revision
        BY DEF Revision, Processings
      <3>2. r \in Revisions => [job[r] EXCEPT !.status = "failed"] \in Job
        BY DEF Job, Statuses
      <3> QED
        BY <3>1, <3>2
    <2>2. /\ document' \in Document
          /\ revision' \in [Revisions -> Revision]
          /\ job' \in [Revisions -> Job]
          /\ UNCHANGED faults
      <3>1. document' \in Document
        BY <1>6, HelperTypes DEF CommitFailed, rows
      <3>2. revision' \in [Revisions -> Revision] /\ job' \in [Revisions -> Job]
        BY <1>6, <2>1 DEF CommitFailed, rows
      <3> QED
        BY <1>6, <3>1, <3>2 DEF CommitFailed
    <2>3. claim' \in [Workers -> Claim] /\ ClaimsARevision'
      BY <1>6, ClaimKept DEF CommitFailed, At, Steps
    <2> QED
      BY <2>2, <2>3
  <1>7. CASE Requeue(w)
    <2>1. claim[w].counted \in BOOLEAN
      BY DEF Claim
    <2>2. job' \in [Revisions -> Job]
      BY <1>7, <2>1, JobRowTypes DEF Requeue, JobOf
    <2> QED
      BY <1>7, <2>2, ClaimKept DEF Requeue
  <1> QED
    BY <1>1, <1>2, <1>3, <1>4, <1>5, <1>6, <1>7 DEF ParseStep

\* The row of an indexed draft, when the worker has a revision.
LEMMA IndexedRowType ==
    ASSUME TypeInv, NEW w \in Workers, claim[w].revision \in Revisions,
           NEW processing \in Processings
    PROVE  IndexedRow(w, processing) \in Revision
  BY DEF TypeInv, TypeOK, IndexedRow, RevisionOf, Revision, Claim

LEMMA IndexTypes ==
    ASSUME TypeInv, NEW w \in Workers, IndexStep(w)
    PROVE  TypeInv'
  <1> DEFINE r == claim[w].revision
  <1> USE DEF TypeInv, TypeOK
  <1>1. r \in Revisions
    BY DEF IndexStep, Snapshot, IndexAndPublish, IndexForReview, BreakIndex, Retry, At,
           ClaimsARevision
  <1>2. FinishedJob(w) \in [Revisions -> Job]
    <2>1. [job[r] EXCEPT !.status = "done"] \in Job
      BY <1>1 DEF Job, Statuses
    <2> QED
      BY <2>1 DEF FinishedJob
  <1>3. CASE Snapshot(w)
    <2>1. LET c == [claim[w] EXCEPT !.step = "embedding", !.content = RevisionOf(w).content]
          IN  c \in Claim /\ c.revision = r
      <3>1. RevisionOf(w).content \in Nat
        BY <1>1 DEF RevisionOf, Revision
      <3> QED
        BY <3>1 DEF Claim, Steps
    <2>2. claim' = [claim EXCEPT ![w] = [claim[w] EXCEPT !.step = "embedding",
                                                         !.content = RevisionOf(w).content]]
      BY <1>3 DEF Snapshot
    <2>3. claim' \in [Workers -> Claim] /\ ClaimsARevision'
      BY <1>1, <2>1, <2>2 DEF ClaimsARevision, Revisions
    <2> QED
      BY <1>3, <2>3 DEF Snapshot, rows
  <1>4. CASE IndexAndPublish(w)
    <2>1. document' \in Document
      <3>1. ASSUME NEW g \in Nat
            PROVE  [document EXCEPT !.generation = g, !.current = r] \in Document
        BY <1>1 DEF Document
      <3>2. document.generation + 2 \in Nat
        BY DEF Document
      <3> QED
        BY <1>4, <3>1, <3>2 DEF IndexAndPublish
    <2>2. [revision EXCEPT ![r] = IndexedRow(w, "ready")] \in [Revisions -> Revision]
      BY <1>1, IndexedRowType DEF Processings
    <2>3. revision' \in [Revisions -> Revision]
      BY <1>1, <1>4, <2>2, HelperTypes DEF IndexAndPublish
    <2> QED
      BY <1>2, <1>4, <2>1, <2>3, ClaimKept DEF IndexAndPublish
  <1>5. CASE IndexForReview(w)
    <2>1. revision' \in [Revisions -> Revision]
      BY <1>1, <1>5, IndexedRowType DEF IndexForReview, Processings
    <2> QED
      BY <1>2, <1>5, <2>1, HelperTypes, ClaimKept DEF IndexForReview
  <1>6. CASE BreakIndex(w)
    BY <1>6, ClaimKept DEF BreakIndex, Steps, rows
  <1>7. CASE Retry(w)
    <2>1. claim[w].attempts \in Nat
      BY DEF Claim
    <2>2. job' \in [Revisions -> Job]
      BY <1>1, <1>7, <2>1, JobRowTypes DEF Retry, JobOf
    <2> QED
      BY <1>7, <2>2, ClaimKept DEF Retry
  <1> QED
    BY <1>3, <1>4, <1>5, <1>6, <1>7 DEF IndexStep

LEMMA TimeTypes ==
    ASSUME TypeInv, TimeStep \/ \E w \in Workers : Crash(w)
    PROVE  TypeInv'
  <1> USE DEF TypeInv, TypeOK
  <1>1. ASSUME NEW r \in Revisions, LeaseRunsOut(r)
        PROVE  TypeInv'
    <2>1. [job[r] EXCEPT !.leased = FALSE] \in Job
      BY DEF Job
    <2> QED
      BY <1>1, <2>1 DEF LeaseRunsOut, ClaimsARevision, Revisions
  <1>2. ASSUME NEW r \in Revisions, Settle(r)
        PROVE  TypeInv'
    <2>1. [job[r] EXCEPT !.settled = TRUE] \in Job
      BY DEF Job
    <2> QED
      BY <1>2, <2>1 DEF Settle, ClaimsARevision, Revisions
  <1>3. ASSUME NEW w \in Workers, Crash(w)
        PROVE  TypeInv'
    BY <1>3, ClaimKept DEF Crash, rows
  <1> QED
    BY <1>1, <1>2, <1>3 DEF TimeStep

LEMMA TypeStep ==
    ASSUME TypeInv, [Next]_vars
    PROVE  TypeInv'
  <1>1. CASE UNCHANGED vars
    BY <1>1 DEF vars, TypeInv, TypeOK, ClaimsARevision, Revisions
  <1>2. ASSUME NEW w \in Workers, WorkerStep(w)
        PROVE  TypeInv'
    BY <1>2, ClaimTypes, ParseTypes, IndexTypes DEF WorkerStep
  <1> QED
    BY <1>1, <1>2, TeacherTypes, TimeTypes DEF Next

\* The rows and the workers' claims keep their types, for any number of
\* workers, revisions, edits, attempts and faults.
THEOREM TypeCorrect == Spec => []TypeOK
  <1>1. Spec => []TypeInv
    BY TypeInit, TypeStep, PTL DEF Spec
  <1>2. TypeInv => TypeOK
    BY DEF TypeInv
  <1> QED
    BY <1>1, <1>2, PTL

-----------------------------------------------------------------------------
(* What a step may do to the revisions *)

SameDocument == /\ document'.lifecycle = document.lifecycle
                /\ document'.current = document.current

\* The draft r goes live; the revision students read until now is superseded.
GoesLive(r) ==
    /\ document.lifecycle = "active"
    /\ document'.lifecycle = "active"
    /\ document'.current = r
    /\ revision[r].publication = "draft"
    /\ revision'[r].publication = "published"
    /\ \A q \in Revisions \ {r} :
           revision'[q] = IF q = document.current
                          THEN [revision[q] EXCEPT !.publication = "superseded"]
                          ELSE revision[q]

\* The draft r is inserted or written to.
DraftChanges(r) ==
    /\ SameDocument
    /\ revision[r].publication \in {"none", "draft"}
    /\ revision'[r].publication = "draft"
    /\ \A q \in Revisions \ {r} : revision'[q] = revision[q]

\* Only the document itself changes, or nothing readers see.
NoDraftChanges ==
    /\ revision' = revision
    /\ \/ SameDocument
       \/ /\ document'.current = document.current
          /\ \/ document.lifecycle = "active" /\ document'.lifecycle = "archived"
             \/ document.lifecycle = "archived" /\ document'.lifecycle = "active"
       \/ /\ document.lifecycle # "deleted" /\ document'.lifecycle = "deleted"
          /\ document'.current = NoRevision

StepForReaders ==
    \/ \E r \in Revisions : GoesLive(r) \/ DraftChanges(r)
    \/ NoDraftChanges

LEMMA BumpedFields ==
    ASSUME TypeInv
    PROVE  /\ Bumped.lifecycle = document.lifecycle
           /\ Bumped.current = document.current
           /\ Bumped.generation = document.generation + 1
           /\ \A l, c : /\ [Bumped EXCEPT !.lifecycle = l].lifecycle = l
                        /\ [Bumped EXCEPT !.lifecycle = l].current = document.current
                        /\ [Bumped EXCEPT !.current = c].lifecycle = document.lifecycle
                        /\ [Bumped EXCEPT !.current = c].current = c
                        /\ [Bumped EXCEPT !.lifecycle = l, !.current = c].lifecycle = l
                        /\ [Bumped EXCEPT !.lifecycle = l, !.current = c].current = c
  BY DEF TypeInv, TypeOK, Document, Bumped

\* A step that publishes r, on rows that differ from the old ones in r alone.
LEMMA PublishingGoesLive ==
    ASSUME TypeInv, NEW r \in Revisions, NEW table \in [Revisions -> Revision],
           document.lifecycle = "active",
           document'.lifecycle = "active", document'.current = r,
           revision[r].publication = "draft",
           \A q \in Revisions \ {r} : table[q] = revision[q],
           revision' = WithPublished(table, r)
    PROVE  GoesLive(r)
  <1>1. revision'[r].publication = "published"
    BY DEF WithPublished, Revision
  <1>2. \A q \in Revisions \ {r} :
            revision'[q] = IF q = document.current
                           THEN [revision[q] EXCEPT !.publication = "superseded"]
                           ELSE revision[q]
    BY DEF WithPublished
  <1> QED
    BY <1>1, <1>2 DEF GoesLive

LEMMA TeacherForReaders ==
    ASSUME TypeInv, TeacherStep
    PROVE  StepForReaders
  <1> USE DEF TypeInv, TypeOK
  <1>1. ASSUME NEW r \in Revisions, NEW reason \in Reasons, Fresh(r), document' = Bumped,
               revision' = [revision EXCEPT ![r] = EmptyDraft(reason)]
        PROVE  DraftChanges(r)
    <2>1. EmptyDraft(reason).publication = "draft"
      BY DEF EmptyDraft, NoRow
    <2> QED
      BY <1>1, <2>1, BumpedFields DEF Fresh, Exists, DraftChanges, SameDocument
  <1>2. ASSUME NEW r \in Revisions, UploadReplacement(r)  PROVE StepForReaders
    BY <1>1, <1>2 DEF UploadReplacement, StepForReaders, Reasons
  <1>3. ASSUME NEW r \in Revisions, PublishRevision(r)  PROVE StepForReaders
    BY <1>3, PublishingGoesLive, BumpedFields
       DEF PublishRevision, Publishable, TeacherMay, StepForReaders
  <1>4. ASSUME NEW r \in Revisions, EditInPlace(r)  PROVE StepForReaders
    <2>1. revision[r].publication = "draft"
      BY <1>4 DEF EditInPlace, TakesEdit, Draft
    <2>2. [revision[r] EXCEPT !.content = revision[r].content + 1].publication = "draft"
      BY <2>1 DEF Revision
    <2> QED
      BY <1>4, <2>1, <2>2, BumpedFields
         DEF EditInPlace, DraftChanges, SameDocument, StepForReaders
  <1>5. ASSUME NEW parent \in Revisions, NEW r \in Revisions, EditCopy(parent, r)
        PROVE  StepForReaders
    <2>1. [EmptyDraft("teacher_edit") EXCEPT
               !.processing = "parsed", !.content = 1,
               !.unread = revision[parent].unread].publication = "draft"
      BY DEF EmptyDraft, NoRow
    <2> QED
      BY <1>5, <2>1, BumpedFields
         DEF EditCopy, Fresh, Exists, DraftChanges, SameDocument, StepForReaders
  <1>6. ASSUME NEW parent \in Revisions, NEW r \in Revisions, RequestReparse(parent, r)
        PROVE  StepForReaders
    BY <1>1, <1>6 DEF RequestReparse, StepForReaders, Reasons
  <1>7. ASSUME NEW from, NEW to, SetArchived(from, to)
        PROVE  /\ revision' = revision
               /\ document.lifecycle = from /\ document'.lifecycle = to
               /\ document'.current = document.current
    BY <1>7, BumpedFields DEF SetArchived, TeacherMay
  <1>8. ASSUME MarkDeleted  PROVE StepForReaders
    BY <1>8, BumpedFields DEF MarkDeleted, StepForReaders, NoDraftChanges
  <1>9. ASSUME Archive \/ Restore  PROVE StepForReaders
    BY <1>7, <1>9 DEF Archive, Restore, StepForReaders, NoDraftChanges
  <1> QED
    BY <1>2, <1>3, <1>4, <1>5, <1>6, <1>8, <1>9 DEF TeacherStep

\* A worker whose claim is checked writes to the row of one draft.
LEMMA WorkerWritesDraft ==
    ASSUME TypeInv, NEW w \in Workers, claim[w].revision \in Revisions,
           NEW row \in Revision, row.publication = "draft",
           RevisionOf(w).publication = "draft",
           revision' = [revision EXCEPT ![claim[w].revision] = row],
           SameDocument
    PROVE  StepForReaders
  BY DEF TypeInv, TypeOK, RevisionOf, DraftChanges, StepForReaders

LEMMA WorkerForReaders ==
    ASSUME TypeInv, NEW w \in Workers, WorkerStep(w)
    PROVE  StepForReaders
  <1> DEFINE r == claim[w].revision
  <1> USE DEF TypeInv, TypeOK
  <1>1. ASSUME UNCHANGED <<document, revision>>  PROVE StepForReaders
    BY <1>1 DEF StepForReaders, NoDraftChanges, SameDocument
  <1>2. ASSUME Claims(w)  PROVE StepForReaders
    BY <1>1, <1>2 DEF Claims, ClaimJob
  <1>3. ASSUME claim[w].step # "idle"  PROVE r \in Revisions
    BY <1>3 DEF ClaimsARevision
  <1>4. ASSUME NEW row \in Revision, NEW p \in Processings, row.publication = "draft"
        PROVE  /\ [row EXCEPT !.processing = p] \in Revision
               /\ [row EXCEPT !.processing = p].publication = "draft"
    BY <1>4 DEF Revision
  <1>5. CASE MarkProcessing(w)
    <2>1. CASE ~Locked(w)
      BY <1>1, <1>5, <2>1 DEF MarkProcessing
    <2>2. CASE Locked(w)
      <3>1. r \in Revisions /\ revision[r] \in Revision /\ revision[r].publication = "draft"
        BY <1>3, <1>5, <2>2 DEF MarkProcessing, At, Locked, RevisionOf
      <3>2. revision' = [revision EXCEPT ![r] = [revision[r] EXCEPT !.processing = "processing"]]
        BY <1>5, <2>2 DEF MarkProcessing
      <3>3. [revision[r] EXCEPT !.processing = "processing"] \in Revision
            /\ [revision[r] EXCEPT !.processing = "processing"].publication = "draft"
        BY <1>4, <3>1 DEF Processings
      <3> QED
        BY <1>5, <3>1, <3>2, <3>3, WorkerWritesDraft
           DEF MarkProcessing, SameDocument, RevisionOf
    <2> QED
      BY <2>1, <2>2
  <1>6. ASSUME NEW unread \in BOOLEAN, CommitParsed(w, unread)
        PROVE  StepForReaders
    <2> DEFINE new == [revision[r] EXCEPT !.processing = "parsed", !.content = 1, !.unread = unread]
    <2>1. r \in Revisions /\ revision[r] \in Revision /\ revision[r].publication = "draft"
      BY <1>3, <1>6 DEF CommitParsed, At, Locked, RevisionOf
    <2>2. revision' = [revision EXCEPT ![r] = new]
      BY <1>6 DEF CommitParsed
    <2>3. new \in Revision /\ new.publication = "draft"
      BY <2>1 DEF Revision, Processings
    <2> HIDE DEF new
    <2>4. SameDocument
      BY <1>6, BumpedFields DEF CommitParsed, SameDocument
    <2> QED
      BY <2>1, <2>2, <2>3, <2>4, WorkerWritesDraft DEF RevisionOf
  <1>7. CASE CommitFailed(w)
    <2>1. CASE ~Locked(w)
      BY <1>1, <1>7, <2>1 DEF CommitFailed, rows
    <2>2. CASE Locked(w)
      <3>1. r \in Revisions /\ revision[r] \in Revision /\ revision[r].publication = "draft"
        BY <1>3, <1>7, <2>2 DEF CommitFailed, At, Locked, RevisionOf
      <3>2. revision' = [revision EXCEPT ![r] = [revision[r] EXCEPT !.processing = "failed"]]
            /\ document' = Bumped
        BY <1>7, <2>2 DEF CommitFailed
      <3>3. [revision[r] EXCEPT !.processing = "failed"] \in Revision
            /\ [revision[r] EXCEPT !.processing = "failed"].publication = "draft"
        BY <1>4, <3>1 DEF Processings
      <3> QED
        BY <3>1, <3>2, <3>3, BumpedFields, WorkerWritesDraft DEF SameDocument, RevisionOf
    <2> QED
      BY <2>1, <2>2
  <1>8. CASE ExtendLease(w) \/ DropParsed(w) \/ RejectSource(w) \/ StopBeforeLeaseEnds(w)
             \/ BreakParse(w) \/ Requeue(w) \/ Snapshot(w) \/ BreakIndex(w) \/ Retry(w)
    BY <1>1, <1>8 DEF ExtendLease, DropParsed, RejectSource, StopBeforeLeaseEnds, BreakParse,
           Requeue, Snapshot, BreakIndex, Retry, rows
  <1>9. CASE IndexForReview(w)
    <2>1. r \in Revisions /\ revision[r] \in Revision /\ revision[r].publication = "draft"
      BY <1>3, <1>9 DEF IndexForReview, At, IndexValid, SnapshotValid, RevisionOf
    <2>2. IndexedRow(w, "partial") \in Revision
          /\ IndexedRow(w, "partial").publication = "draft"
      <3>1. IndexedRow(w, "partial") \in Revision
        BY <2>1, IndexedRowType DEF Processings
      <3> QED
        BY <2>1, <3>1 DEF IndexedRow, RevisionOf, Revision
    <2>3. revision' = [revision EXCEPT ![r] = IndexedRow(w, "partial")] /\ document' = Bumped
      BY <1>9 DEF IndexForReview
    <2> QED
      BY <2>1, <2>2, <2>3, BumpedFields, WorkerWritesDraft DEF SameDocument, RevisionOf
  <1>10. CASE IndexAndPublish(w)
    <2> DEFINE table == [revision EXCEPT ![r] = IndexedRow(w, "ready")]
    <2>1. r \in Revisions /\ revision[r].publication = "draft" /\ document.lifecycle = "active"
      BY <1>3, <1>10 DEF IndexAndPublish, At, IndexValid, SnapshotValid, RevisionOf
    <2>2. table \in [Revisions -> Revision] /\ \A q \in Revisions \ {r} : table[q] = revision[q]
      BY <2>1, IndexedRowType DEF Processings
    <2>3. document' = [document EXCEPT !.generation = document.generation + 2, !.current = r]
          /\ revision' = WithPublished(table, r)
      BY <1>10 DEF IndexAndPublish
    <2>4. document'.lifecycle = "active" /\ document'.current = r
      BY <2>1, <2>3 DEF Document
    <2> HIDE DEF table
    <2> QED
      BY <2>1, <2>2, <2>3, <2>4, PublishingGoesLive DEF StepForReaders
  <1> QED
    BY <1>2, <1>5, <1>6, <1>7, <1>8, <1>9, <1>10 DEF WorkerStep, ParseStep, IndexStep

LEMMA EveryStepForReaders ==
    ASSUME TypeInv, [Next]_vars
    PROVE  StepForReaders
  <1>1. ASSUME UNCHANGED <<document, revision>>  PROVE StepForReaders
    BY <1>1 DEF StepForReaders, NoDraftChanges, SameDocument
  <1>2. CASE UNCHANGED vars \/ TimeStep \/ \E w \in Workers : Crash(w)
    BY <1>1, <1>2 DEF vars, TimeStep, LeaseRunsOut, Settle, Crash, rows
  <1> QED
    BY <1>2, TeacherForReaders, WorkerForReaders DEF Next

-----------------------------------------------------------------------------
(* One published revision *)

LEMMA OnePublishedInit == IngestionInit => OnePublished
  BY DEF IngestionInit, Init, OnePublished, EmptyDraft, NoRow, NoRevision, Revisions

LEMMA OnePublishedStep ==
    ASSUME TypeInv, OnePublished, StepForReaders
    PROVE  OnePublished'
  <1> USE DEF TypeInv, TypeOK, OnePublished
  <1>1. ASSUME NEW r \in Revisions, GoesLive(r)
        PROVE  OnePublished'
    <2>1. SUFFICES ASSUME NEW q \in Revisions
                   PROVE  revision'[q].publication = "published" <=> document'.current = q
      BY DEF Revisions
    <2>2. CASE q = r
      BY <1>1, <2>2 DEF GoesLive
    <2>3. CASE q # r /\ q = document.current
      <3>1. revision'[q].publication = "superseded"
        BY <1>1, <2>3 DEF GoesLive, Revision
      <3> QED
        BY <1>1, <2>3, <3>1 DEF GoesLive
    <2>4. CASE q # r /\ q # document.current
      <3>1. revision'[q] = revision[q] /\ document.lifecycle = "active" /\ document'.current = r
        BY <1>1, <2>4 DEF GoesLive
      <3> QED
        BY <2>4, <3>1
    <2> QED
      BY <2>2, <2>3, <2>4
  <1>2. ASSUME NEW r \in Revisions, DraftChanges(r)
        PROVE  OnePublished'
    <2>1. SUFFICES ASSUME document.lifecycle # "deleted", NEW q \in Revisions
                   PROVE  revision'[q].publication = "published" <=> document.current = q
      BY <1>2 DEF DraftChanges, SameDocument, Revisions
    <2>2. CASE q = r
      BY <1>2, <2>1, <2>2 DEF DraftChanges
    <2>3. CASE q # r
      BY <1>2, <2>1, <2>3 DEF DraftChanges
    <2> QED
      BY <2>2, <2>3
  <1>3. CASE NoDraftChanges
    BY <1>3 DEF NoDraftChanges, SameDocument, Revisions
  <1> QED
    BY <1>1, <1>2, <1>3 DEF StepForReaders

ReadersInv == TypeInv /\ OnePublished

LEMMA ReadersInvariant == Spec => []ReadersInv
  <1>1. IngestionInit => ReadersInv
    BY TypeInit, OnePublishedInit DEF ReadersInv
  <1>2. ASSUME ReadersInv, [Next]_vars
        PROVE  ReadersInv'
    BY <1>2, TypeStep, EveryStepForReaders, OnePublishedStep DEF ReadersInv
  <1> QED
    BY <1>1, <1>2, PTL DEF Spec

\* Students read one revision: while a document is not deleted, the published
\* revision is the current one and there is no other, for any instance.
THEOREM OneRevisionIsRead == Spec => []OnePublished
  BY ReadersInvariant, PTL DEF ReadersInv

-----------------------------------------------------------------------------
(* Snapshots *)

LEMMA FrozenStep ==
    ASSUME ReadersInv, StepForReaders
    PROVE  \A r \in Revisions : SnapshotKept(r)
  BY DEF StepForReaders, GoesLive, DraftChanges, NoDraftChanges, SnapshotKept

\* A revision students could see never changes again, for any instance: a
\* published one can only become superseded.
THEOREM SnapshotsNeverChange == Spec => SnapshotsFrozen
  <1>1. ASSUME ReadersInv, [Next]_vars
        PROVE  [\A r \in Revisions : SnapshotKept(r)]_vars
    BY <1>1, EveryStepForReaders, FrozenStep DEF ReadersInv
  <1> QED
    BY <1>1, ReadersInvariant, PTL DEF Spec, SnapshotsFrozen

-----------------------------------------------------------------------------
(* The pipeline implements the document readers are promised *)

retired == {r \in Revisions : revision[r].publication = "superseded"}

LEMMA PromiseInit == IngestionInit => Published!PublicationInit
  BY DEF IngestionInit, Init, Published!PublicationInit, Published!NoRevision, NoRevision,
         EmptyDraft, NoRow

LEMMA PromiseStep ==
    ASSUME ReadersInv, StepForReaders
    PROVE  [Published!PublicationNext]_<<document.lifecycle, document.current, retired>>
  <1> USE DEF ReadersInv, TypeInv, TypeOK
  <1>1. ASSUME NEW r \in Revisions, GoesLive(r)
        PROVE  Published!Publish(r)
    <2>1. /\ document.lifecycle = "active" /\ document'.lifecycle = "active"
          /\ document'.current = r
          /\ revision[r].publication = "draft" /\ revision'[r].publication = "published"
      BY <1>1 DEF GoesLive
    <2>2. r \notin retired \cup {document.current}
      BY <2>1 DEF retired, OnePublished
    <2>3. ASSUME NEW q \in Revisions
          PROVE  revision'[q].publication = "superseded"
                     <=> q \in retired \cup ({document.current} \ {NoRevision})
      <3>1. CASE q = r
        BY <2>1, <2>2, <3>1
      <3>2. CASE q # r /\ q = document.current
        <4>1. revision'[q].publication = "superseded"
          BY <1>1, <3>2 DEF GoesLive, Revision
        <4> QED
          BY <3>2, <4>1 DEF Revisions, NoRevision
      <3>3. CASE q # r /\ q # document.current
        BY <1>1, <3>3 DEF GoesLive, retired
      <3> QED
        BY <3>1, <3>2, <3>3
    <2>4. document.current \in Revisions \cup {NoRevision}
      BY DEF Document
    <2>5. retired' = retired \cup ({document.current} \ {NoRevision})
      BY <2>3, <2>4 DEF retired, Revisions
    <2> QED
      BY <2>1, <2>2, <2>5 DEF Published!Publish, Published!NoRevision, NoRevision, retired
  <1>2. ASSUME NEW r \in Revisions, DraftChanges(r)
        PROVE  UNCHANGED <<document.lifecycle, document.current, retired>>
    <2>1. \A q \in Revisions :
              revision'[q].publication = "superseded" <=> revision[q].publication = "superseded"
      BY <1>2 DEF DraftChanges
    <2> QED
      BY <1>2, <2>1 DEF DraftChanges, SameDocument, retired, Revisions
  <1>3. CASE NoDraftChanges
    BY <1>3 DEF NoDraftChanges, SameDocument, retired, Revisions, NoRevision,
           Published!PublicationNext, Published!Shelve, Published!Unshelve,
           Published!Withdraw, Published!NoRevision
  <1> QED
    BY <1>1, <1>2, <1>3 DEF StepForReaders, Published!PublicationNext

\* The pipeline implements PublishedDocument, for any instance: what readers
\* see goes through the steps of the abstract document and no others.
THEOREM PipelineKeepsThePromise == Spec => ReadersPromise
  <1>1. ASSUME ReadersInv, [Next]_vars
        PROVE  [Published!PublicationNext]_<<document.lifecycle, document.current, retired>>
    BY <1>1, EveryStepForReaders, PromiseStep DEF ReadersInv
  <1> QED
    BY <1>1, ReadersInvariant, PromiseInit, PTL
       DEF Spec, ReadersPromise, Published!PublicationSpec, retired

-----------------------------------------------------------------------------
(* A lost or outdated claim writes nothing *)

\* Only a worker's own step changes the claim it works on.
LEMMA OwnStep ==
    ASSUME TypeInv, [Next]_vars, NEW w \in Workers,
           claim[w].step # "idle", claim'[w] # claim[w]
    PROVE  ParseStep(w) \/ IndexStep(w) \/ Crash(w)
  <1> USE DEF TypeInv, TypeOK
  <1>1. CASE TeacherStep \/ TimeStep \/ UNCHANGED vars
    BY <1>1 DEF TeacherStep, TimeStep, LeaseRunsOut, Settle, vars
  <1>2. ASSUME NEW v \in Workers, Claims(v) \/ ParseStep(v) \/ IndexStep(v) \/ Crash(v)
        PROVE  v = w
    <2>1. ASSUME Claims(v)  PROVE v = w
      BY <2>1 DEF Claims, ClaimJob
    <2>2. ASSUME ParseStep(v)  PROVE v = w
      BY <2>2 DEF ParseStep, MarkProcessing, ExtendLease, CommitParsed, DropParsed, RejectSource,
             StopBeforeLeaseEnds, BreakParse, CommitFailed, Requeue, GoTo, Release
    <2>3. ASSUME IndexStep(v) \/ Crash(v)  PROVE v = w
      BY <2>3 DEF IndexStep, Snapshot, IndexAndPublish, IndexForReview, BreakIndex, Retry, Crash,
             GoTo, Release
    <2> QED
      BY <1>2, <2>1, <2>2, <2>3
  <1>3. ~Claims(w)
    BY DEF Claims, ClaimJob
  <1> QED
    BY <1>1, <1>2, <1>3 DEF Next, WorkerStep

LEMMA ChecksItsClaim ==
    ASSUME NEW w \in Workers, ParseStep(w) \/ IndexStep(w) \/ Crash(w),
           claim'[w] # claim[w]
    PROVE  /\ ~HoldsJob(w) => UNCHANGED rows
           /\ Outdated(w) => UNCHANGED <<document, revision>>
  <1>1. Outdated(w) => ~Locked(w) /\ ~SnapshotValid(w)
    BY DEF Outdated, Locked, SnapshotValid
  <1>2. ~HoldsJob(w) => ~Locked(w) /\ ~SnapshotValid(w)
    BY DEF Locked, SnapshotValid
  <1>3. CASE ParseStep(w)
    BY <1>1, <1>2, <1>3
       DEF ParseStep, MarkProcessing, ExtendLease, CommitParsed, DropParsed, RejectSource,
           StopBeforeLeaseEnds, BreakParse, CommitFailed, Requeue, rows
  <1>4. CASE IndexStep(w) \/ Crash(w)
    BY <1>1, <1>2, <1>4
       DEF IndexStep, Snapshot, IndexAndPublish, IndexForReview, IndexValid, BreakIndex, Retry,
           Crash, rows
  <1> QED
    BY <1>3, <1>4

\* A result from a lost claim writes nothing, and one from an old generation or
\* for a document that is not active leaves the document and its revisions
\* alone: for any number of workers, in any order of their steps.
THEOREM OnlyHeldClaimsWrite == Spec => StaleResultsWriteNothing
  <1>1. TypeInv /\ [Next]_vars => \A w \in Workers : WritesOnlyItsClaim(w)
    BY OwnStep, ChecksItsClaim DEF WritesOnlyItsClaim
  <1>2. Spec => []TypeInv
    BY TypeInit, TypeStep, PTL DEF Spec
  <1> QED
    BY <1>1, <1>2, PTL DEF Spec, StaleResultsWriteNothing

-----------------------------------------------------------------------------
(* A result is stored once *)

\* What a step may make of a row: it inserts it, leaves its processing alone,
\* reads a waiting draft, or indexes a parsed one.
RowGoesOn(row, new) ==
    \/ row.publication = "none"
    \/ /\ new.publication # "none"
       /\ \/ new.processing = row.processing
          \/ /\ row.processing \in {"queued", "processing"}
             /\ new.processing \in {"processing", "parsed", "failed"}
          \/ row.processing = "parsed" /\ new.processing \in {"ready", "partial"}

RowsGoOn == \A r \in Revisions : RowGoesOn(revision[r], revision'[r])

LEMMA RowsThatGoOn ==
    ASSUME TypeInv, RowsGoOn, NEW r \in Revisions
    PROVE  GoesOn(r)
  <1>1. CASE revision[r].publication = "none"
    <2>1. Stage(r) = 0 /\ Stage(r)' \in Nat
      BY <1>1 DEF Stage, Exists
    <2> QED
      BY <2>1 DEF GoesOn
  <1>2. CASE revision[r].publication # "none"
    <2>1. revision'[r].publication # "none"
      BY <1>2 DEF RowsGoOn, RowGoesOn
    <2>2. CASE revision'[r].processing = revision[r].processing
      <3>1. Stage(r)' = Stage(r) /\ Stage(r) \in Nat
        BY <1>2, <2>1, <2>2 DEF Stage, Exists
      <3> QED
        BY <2>2, <3>1 DEF GoesOn
    <2>3. CASE /\ revision[r].processing \in {"queued", "processing"}
               /\ revision'[r].processing \in {"processing", "parsed", "failed"}
      <3>1. Stage(r) \in {1, 2} /\ Stage(r)' \in {2, 3, 4}
        BY <1>2, <2>1, <2>3 DEF Stage, Exists
      <3> QED
        BY <3>1 DEF GoesOn
    <2>4. CASE /\ revision[r].processing = "parsed"
               /\ revision'[r].processing \in {"ready", "partial"}
      <3>1. Stage(r) = 3 /\ Stage(r)' = 4
        BY <1>2, <2>1, <2>4 DEF Stage, Exists
      <3> QED
        BY <3>1 DEF GoesOn
    <2> QED
      BY <1>2, <2>2, <2>3, <2>4 DEF RowsGoOn, RowGoesOn
  <1> QED
    BY <1>1, <1>2

LEMMA OneRowGoesOn ==
    ASSUME TypeInv, NEW r \in Revisions, NEW row, RowGoesOn(revision[r], row),
           revision' = [revision EXCEPT ![r] = row]
    PROVE  RowsGoOn
  BY DEF TypeInv, TypeOK, RowsGoOn, RowGoesOn

\* Publishing changes the publication of rows that exist, and nothing else.
LEMMA PublishingGoesOn ==
    ASSUME TypeInv, NEW table \in [Revisions -> Revision], NEW r \in Revisions,
           \A q \in Revisions : RowGoesOn(revision[q], table[q]),
           revision' = WithPublished(table, r)
    PROVE  RowsGoOn
  <1>1. ASSUME NEW q \in Revisions, NEW p \in {"published", "superseded"}
        PROVE  RowGoesOn(revision[q], [table[q] EXCEPT !.publication = p])
    <2>1. LET new == [table[q] EXCEPT !.publication = p]
          IN  new.publication = p /\ new.processing = table[q].processing
      BY DEF Revision
    <2> QED
      BY <2>1 DEF RowGoesOn
  <1> QED
    BY <1>1 DEF WithPublished, RowsGoOn

LEMMA TeacherGoesOn ==
    ASSUME TypeInv, TeacherStep
    PROVE  RowsGoOn
  <1> USE DEF TypeInv, TypeOK
  <1>1. ASSUME NEW r \in Revisions, NEW row, Fresh(r), revision' = [revision EXCEPT ![r] = row]
        PROVE  RowsGoOn
    BY <1>1, OneRowGoesOn DEF Fresh, Exists, RowGoesOn
  <1>2. ASSUME UNCHANGED revision  PROVE RowsGoOn
    BY <1>2 DEF RowsGoOn, RowGoesOn
  <1>3. ASSUME NEW r \in Revisions, UploadReplacement(r)  PROVE RowsGoOn
    BY <1>1, <1>3 DEF UploadReplacement
  <1>4. ASSUME NEW r \in Revisions, PublishRevision(r)  PROVE RowsGoOn
    <2>1. \A q \in Revisions : RowGoesOn(revision[q], revision[q])
      BY DEF RowGoesOn
    <2> QED
      BY <1>4, <2>1, PublishingGoesOn DEF PublishRevision
  <1>5. ASSUME NEW r \in Revisions, EditInPlace(r)  PROVE RowsGoOn
    <2>1. LET new == [revision[r] EXCEPT !.content = revision[r].content + 1]
          IN  RowGoesOn(revision[r], new)
      BY DEF RowGoesOn, Revision
    <2> QED
      BY <1>5, <2>1, OneRowGoesOn DEF EditInPlace
  <1>6. ASSUME NEW parent \in Revisions, NEW r \in Revisions, EditCopy(parent, r)
        PROVE  RowsGoOn
    BY <1>1, <1>6 DEF EditCopy
  <1>7. ASSUME NEW parent \in Revisions, NEW r \in Revisions, RequestReparse(parent, r)
        PROVE  RowsGoOn
    BY <1>1, <1>7 DEF RequestReparse
  <1>8. ASSUME Archive \/ Restore \/ MarkDeleted  PROVE RowsGoOn
    BY <1>2, <1>8 DEF Archive, Restore, SetArchived, MarkDeleted
  <1> QED
    BY <1>3, <1>4, <1>5, <1>6, <1>7, <1>8 DEF TeacherStep

LEMMA WorkerGoesOn ==
    ASSUME TypeInv, NEW w \in Workers, ParseStep(w) \/ IndexStep(w)
    PROVE  RowsGoOn
  <1> DEFINE r == claim[w].revision
  <1> USE DEF TypeInv, TypeOK
  <1>1. ASSUME UNCHANGED revision  PROVE RowsGoOn
    BY <1>1 DEF RowsGoOn, RowGoesOn
  <1>2. claim[w].step # "idle" => r \in Revisions /\ revision[r] \in Revision
    BY DEF ClaimsARevision
  <1>3. ASSUME NEW row \in Revision, NEW p
        PROVE  /\ [row EXCEPT !.processing = p].processing = p
               /\ [row EXCEPT !.processing = p].publication = row.publication
    BY DEF Revision
  <1>4. CASE MarkProcessing(w)
    <2>1. CASE Locked(w)
      <3>1. /\ RowGoesOn(revision[r], [revision[r] EXCEPT !.processing = "processing"])
            /\ r \in Revisions
        BY <1>2, <1>3, <1>4, <2>1 DEF MarkProcessing, At, Locked, RevisionOf, RowGoesOn
      <3> QED
        BY <1>4, <2>1, <3>1, OneRowGoesOn DEF MarkProcessing
    <2> QED
      BY <1>1, <1>4, <2>1 DEF MarkProcessing
  <1>5. ASSUME NEW unread \in BOOLEAN, CommitParsed(w, unread)  PROVE RowsGoOn
    <2>1. r \in Revisions /\ revision[r] \in Revision
      BY <1>2, <1>5 DEF CommitParsed, At
    <2>2. LET new == [revision[r] EXCEPT !.processing = "parsed", !.content = 1,
                                         !.unread = unread]
          IN  new.processing = "parsed" /\ new.publication = revision[r].publication
      BY <2>1 DEF Revision
    <2>3. RowGoesOn(revision[r], [revision[r] EXCEPT !.processing = "parsed", !.content = 1,
                                                     !.unread = unread])
      BY <1>5, <2>2 DEF CommitParsed, Locked, RevisionOf, RowGoesOn
    <2> QED
      BY <1>5, <2>1, <2>3, OneRowGoesOn DEF CommitParsed
  <1>6. CASE CommitFailed(w)
    <2>1. CASE Locked(w)
      <3>1. /\ RowGoesOn(revision[r], [revision[r] EXCEPT !.processing = "failed"])
            /\ r \in Revisions
        BY <1>2, <1>3, <1>6, <2>1 DEF CommitFailed, At, Locked, RevisionOf, RowGoesOn
      <3> QED
        BY <1>6, <2>1, <3>1, OneRowGoesOn DEF CommitFailed
    <2> QED
      BY <1>1, <1>6, <2>1 DEF CommitFailed, rows
  <1>7. ASSUME IndexAndPublish(w) \/ IndexForReview(w), NEW p \in {"ready", "partial"}
        PROVE  /\ r \in Revisions /\ IndexedRow(w, p) \in Revision
               /\ RowGoesOn(revision[r], IndexedRow(w, p))
    <2>1. /\ r \in Revisions /\ revision[r] \in Revision
          /\ revision[r].processing = "parsed" /\ revision[r].publication = "draft"
      BY <1>2, <1>7
         DEF IndexAndPublish, IndexForReview, At, IndexValid, SnapshotValid, RevisionOf
    <2>2. /\ IndexedRow(w, p).processing = p
          /\ IndexedRow(w, p).publication = revision[r].publication
      BY <2>1 DEF IndexedRow, RevisionOf, Revision
    <2> QED
      BY <2>1, <2>2, IndexedRowType DEF RowGoesOn, Processings
  <1>8. CASE IndexAndPublish(w)
    <2> DEFINE table == [revision EXCEPT ![r] = IndexedRow(w, "ready")]
    <2>1. table \in [Revisions -> Revision] /\ revision' = WithPublished(table, r)
      BY <1>7, <1>8 DEF IndexAndPublish
    <2>2. ASSUME NEW q \in Revisions  PROVE RowGoesOn(revision[q], table[q])
      BY <1>7, <1>8 DEF RowGoesOn
    <2>3. r \in Revisions
      BY <1>7, <1>8
    <2> HIDE DEF table, r
    <2> QED
      BY <2>1, <2>2, <2>3, PublishingGoesOn
  <1>9. CASE IndexForReview(w)
    BY <1>7, <1>9, OneRowGoesOn DEF IndexForReview
  <1>10. CASE \/ ExtendLease(w) \/ DropParsed(w) \/ RejectSource(w) \/ StopBeforeLeaseEnds(w)
              \/ BreakParse(w) \/ Requeue(w) \/ Snapshot(w) \/ BreakIndex(w) \/ Retry(w)
    BY <1>1, <1>10 DEF ExtendLease, DropParsed, RejectSource, StopBeforeLeaseEnds, BreakParse,
       Requeue, Snapshot, BreakIndex, Retry, rows
  <1> QED
    BY <1>4, <1>5, <1>6, <1>8, <1>9, <1>10 DEF ParseStep, IndexStep

\* A revision never goes back to an earlier stage of its processing, so two
\* workers that were given one job cannot both store a result.
THEOREM StoredOnce == Spec => ResultsAreStoredOnce
  <1>1. TypeInv /\ [Next]_vars => RowsGoOn
    <2> SUFFICES ASSUME TypeInv, [Next]_vars  PROVE RowsGoOn
      OBVIOUS
    <2>1. ASSUME UNCHANGED revision  PROVE RowsGoOn
      BY <2>1 DEF RowsGoOn, RowGoesOn
    <2>2. CASE UNCHANGED vars \/ TimeStep
      BY <2>1, <2>2 DEF vars, TimeStep, LeaseRunsOut, Settle
    <2>3. ASSUME NEW w \in Workers, Claims(w) \/ Crash(w)  PROVE RowsGoOn
      BY <2>1, <2>3 DEF Claims, ClaimJob, Crash, rows
    <2> QED
      BY <2>2, <2>3, TeacherGoesOn, WorkerGoesOn DEF Next, WorkerStep
  <1>2. TypeInv /\ [Next]_vars => \A r \in Revisions : GoesOn(r)
    BY <1>1, RowsThatGoOn
  <1>3. Spec => []TypeInv
    BY TypeInit, TypeStep, PTL DEF Spec
  <1> QED
    BY <1>2, <1>3, PTL DEF Spec, ResultsAreStoredOnce

-----------------------------------------------------------------------------
(* An index is cut from the content its revision has *)

\* A row that is not ready or partial has no index, and an index that is there
\* is the content's.
IndexedRight(row) ==
    /\ row.processing \notin {"ready", "partial"} => row.index = NoIndex
    /\ row.index # NoIndex => row.index = row.content

\* A claim saw the document as it is or as it was.
ClaimsSawThePast == \A w \in Workers :
    claim[w].step # "idle" => claim[w].generation <= document.generation

\* Blocks that were read from the document as it is are the blocks it has:
\* whoever changes them raises the generation.
EmbedsWhatItReads == \A w \in Workers :
    claim[w].step = "embedding" /\ claim[w].generation = document.generation
        => claim[w].content = RevisionOf(w).content

IndexInv == /\ TypeInv
            /\ ClaimsSawThePast
            /\ EmbedsWhatItReads
            /\ \A r \in Revisions : IndexedRight(revision[r])

\* A claim that is not given up: taken from the document as it is now, or the
\* one the worker had, and then it embeds what it embedded.
ClaimGoesOn(w) ==
    claim'[w].step # "idle" =>
        \/ /\ claim'[w].generation = document'.generation
           /\ claim'[w].step = "embedding" =>
                  claim'[w].content = revision'[claim'[w].revision].content
        \/ /\ claim[w].step # "idle"
           /\ claim'[w].generation = claim[w].generation
           /\ claim'[w].step = "embedding" => claim'[w] = claim[w]

\* What every step does for the index: content changes only with the
\* generation, and the rows it writes are indexed right.
StepForIndex ==
    /\ document'.generation >= document.generation
    /\ \A r \in Revisions :
           /\ \/ revision'[r].content = revision[r].content
              \/ document'.generation > document.generation
           /\ IndexedRight(revision'[r])
    /\ \A w \in Workers : ClaimGoesOn(w)

LEMMA StepForIndexKeeps ==
    ASSUME IndexInv, StepForIndex, TypeInv'
    PROVE  IndexInv'
  <1>1. /\ document.generation \in Nat /\ document'.generation \in Nat
        /\ \A w \in Workers : /\ claim[w].generation \in Nat
                              /\ claim[w].step # "idle" => claim[w].revision \in Revisions
    BY DEF IndexInv, TypeInv, TypeOK, Document, Claim, ClaimsARevision
  <1>2. ASSUME NEW w \in Workers, claim'[w].step # "idle"
        PROVE  claim'[w].generation <= document'.generation
    BY <1>1, <1>2 DEF StepForIndex, ClaimGoesOn, IndexInv, ClaimsSawThePast
  <1>3. ASSUME NEW w \in Workers, claim'[w].step = "embedding",
               claim'[w].generation = document'.generation
        PROVE  claim'[w].content = revision'[claim'[w].revision].content
    <2>1. CASE claim'[w].content = revision'[claim'[w].revision].content
      BY <2>1
    <2>2. CASE claim'[w] = claim[w]
      <3>1. claim[w].generation <= document.generation
        BY <1>3, <2>2 DEF IndexInv, ClaimsSawThePast
      <3>2. document'.generation = document.generation
        BY <1>1, <1>3, <2>2, <3>1 DEF StepForIndex
      <3>3. revision'[claim[w].revision].content = revision[claim[w].revision].content
        BY <1>1, <1>3, <2>2, <3>2 DEF StepForIndex
      <3> QED
        BY <1>3, <2>2, <3>2, <3>3 DEF IndexInv, EmbedsWhatItReads, RevisionOf
    <2> QED
      BY <1>3, <2>1, <2>2 DEF StepForIndex, ClaimGoesOn
  <1> QED
    BY <1>2, <1>3 DEF IndexInv, StepForIndex, ClaimsSawThePast, EmbedsWhatItReads, RevisionOf

\* A step that changes no claim, or only gives claims up or moves them on.
LEMMA ClaimsGoOn ==
    ASSUME TypeInv,
           \/ UNCHANGED claim
           \/ \E w \in Workers : Release(w)
           \/ \E w \in Workers, s \in Steps \ {"embedding"} :
                  claim[w].step # "idle" /\ GoTo(w, s)
    PROVE  \A w \in Workers : ClaimGoesOn(w)
  <1>1. ASSUME NEW w \in Workers, Release(w)
        PROVE  \A v \in Workers : ClaimGoesOn(v)
    BY <1>1 DEF Release, NoClaim, TypeInv, TypeOK, ClaimGoesOn
  <1>2. ASSUME NEW w \in Workers, NEW s \in Steps \ {"embedding"},
               claim[w].step # "idle", GoTo(w, s)
        PROVE  \A v \in Workers : ClaimGoesOn(v)
    <2>1. /\ claim'[w].generation = claim[w].generation
          /\ claim'[w].step = s
      BY <1>2 DEF GoTo, TypeInv, TypeOK, Claim
    <2>2. \A v \in Workers \ {w} : claim'[v] = claim[v]
      BY <1>2 DEF GoTo, TypeInv, TypeOK
    <2> QED
      BY <1>2, <2>1, <2>2 DEF ClaimGoesOn
  <1> QED
    BY <1>1, <1>2 DEF ClaimGoesOn

\* A step that raises the generation and writes one row, indexed right.
LEMMA NewContentForIndex ==
    ASSUME IndexInv, NEW r \in Revisions, NEW row, IndexedRight(row),
           document'.generation \in Nat, document'.generation > document.generation,
           revision' = [revision EXCEPT ![r] = row],
           \A w \in Workers : ClaimGoesOn(w)
    PROVE  StepForIndex
  <1>1. \A q \in Revisions : revision'[q] = IF q = r THEN row ELSE revision[q]
    BY DEF IndexInv, TypeInv, TypeOK
  <1>2. document'.generation >= document.generation
    BY DEF IndexInv, TypeInv, TypeOK, Document
  <1> QED
    BY <1>1, <1>2 DEF IndexInv, StepForIndex

\* The revision students read changes, and no other column of a row does.
LEMMA PublishingForIndex ==
    ASSUME NEW table \in [Revisions -> Revision], NEW r \in Revisions, NEW q \in Revisions
    PROVE  /\ WithPublished(table, r)[q].content = table[q].content
           /\ IndexedRight(table[q]) => IndexedRight(WithPublished(table, r)[q])
  <1>1. ASSUME NEW p \in Publications
        PROVE  /\ [table[q] EXCEPT !.publication = p].content = table[q].content
               /\ [table[q] EXCEPT !.publication = p].index = table[q].index
               /\ [table[q] EXCEPT !.publication = p].processing = table[q].processing
    BY DEF Revision
  <1> QED
    BY <1>1 DEF WithPublished, IndexedRight, Publications

LEMMA BumpedGeneration ==
    ASSUME TypeInv
    PROVE  /\ document.generation \in Nat
           /\ Bumped.generation = document.generation + 1
           /\ \A l, c : /\ [Bumped EXCEPT !.lifecycle = l].generation = Bumped.generation
                        /\ [Bumped EXCEPT !.current = c].generation = Bumped.generation
                        /\ [Bumped EXCEPT !.lifecycle = l, !.current = c].generation
                               = Bumped.generation
  BY DEF TypeInv, TypeOK, Document, Bumped

LEMMA TeacherForIndex ==
    ASSUME IndexInv, TeacherStep
    PROVE  StepForIndex
  <1>1. TypeInv /\ \A r \in Revisions : IndexedRight(revision[r])
    BY DEF IndexInv
  <1>2. UNCHANGED claim /\ \A w \in Workers : ClaimGoesOn(w)
    BY <1>1, ClaimsGoOn DEF TeacherStep
  <1>3. ASSUME document'.generation = Bumped.generation
        PROVE  /\ document'.generation \in Nat
               /\ document'.generation > document.generation
               /\ document'.generation >= document.generation
    BY <1>1, <1>3, BumpedGeneration
  <1>4. ASSUME NEW reason \in Reasons  PROVE IndexedRight(EmptyDraft(reason))
    BY DEF IndexedRight, EmptyDraft, NoRow
  <1>5. ASSUME NEW r \in Revisions, UploadReplacement(r)  PROVE StepForIndex
    BY <1>2, <1>3, <1>4, <1>5, NewContentForIndex DEF UploadReplacement, Reasons
  <1>6. ASSUME NEW r \in Revisions, PublishRevision(r)  PROVE StepForIndex
    <2>1. document'.generation = Bumped.generation
      BY <1>1, <1>6, BumpedGeneration DEF PublishRevision
    <2>2. revision' = WithPublished(revision, r) /\ revision \in [Revisions -> Revision]
      BY <1>1, <1>6 DEF PublishRevision, TypeInv, TypeOK
    <2>3. ASSUME NEW q \in Revisions
          PROVE  /\ revision'[q].content = revision[q].content
                 /\ IndexedRight(revision'[q])
      BY <1>1, <2>2, PublishingForIndex
    <2> QED
      BY <1>2, <1>3, <2>1, <2>3 DEF StepForIndex
  <1>7. ASSUME NEW r \in Revisions, EditInPlace(r)  PROVE StepForIndex
    <2>1. /\ revision[r] \in Revision /\ IndexedRight(revision[r])
          /\ revision[r].processing = "parsed"
      BY <1>1, <1>7 DEF EditInPlace, TakesEdit, TypeInv, TypeOK
    <2>2. IndexedRight([revision[r] EXCEPT !.content = revision[r].content + 1])
      BY <2>1 DEF IndexedRight, Revision
    <2> QED
      BY <1>2, <1>3, <1>7, <2>2, NewContentForIndex DEF EditInPlace
  <1>8. ASSUME NEW parent \in Revisions, NEW r \in Revisions, EditCopy(parent, r)
        PROVE  StepForIndex
    <2>1. IndexedRight([EmptyDraft("teacher_edit") EXCEPT
               !.processing = "parsed", !.content = 1,
               !.unread = revision[parent].unread])
      BY DEF IndexedRight, EmptyDraft, NoRow
    <2> QED
      BY <1>2, <1>3, <1>8, <2>1, NewContentForIndex DEF EditCopy
  <1>9. ASSUME NEW parent \in Revisions, NEW r \in Revisions, RequestReparse(parent, r)
        PROVE  StepForIndex
    BY <1>2, <1>3, <1>4, <1>9, NewContentForIndex DEF RequestReparse, Reasons
  <1>10. ASSUME Archive \/ Restore \/ MarkDeleted  PROVE StepForIndex
    <2>1. UNCHANGED revision /\ document'.generation = Bumped.generation
      <3>1. ASSUME NEW from, NEW to, SetArchived(from, to)  PROVE <2>1!:
        BY <1>1, <3>1, BumpedGeneration DEF SetArchived
      <3>2. ASSUME MarkDeleted  PROVE <2>1!:
        BY <1>1, <3>2, BumpedGeneration DEF MarkDeleted
      <3> QED
        BY <1>10, <3>1, <3>2 DEF Archive, Restore
    <2>2. \A q \in Revisions : revision'[q].content = revision[q].content
                              /\ IndexedRight(revision'[q])
      BY <1>1, <2>1 DEF IndexedRight
    <2> QED
      BY <1>2, <1>3, <2>1, <2>2 DEF StepForIndex
  <1> QED
    BY <1>5, <1>6, <1>7, <1>8, <1>9, <1>10 DEF TeacherStep

\* A step that leaves the document and its revisions alone.
LEMMA NoRowsForIndex ==
    ASSUME IndexInv, UNCHANGED <<document, revision>>, \A w \in Workers : ClaimGoesOn(w)
    PROVE  StepForIndex
  <1>1. document.generation >= document.generation
    BY DEF IndexInv, TypeInv, TypeOK, Document
  <1> QED
    BY <1>1 DEF IndexInv, StepForIndex

LEMMA ClaimsForIndex ==
    ASSUME IndexInv, NEW w \in Workers, Claims(w)
    PROVE  StepForIndex
  <1>1. PICK kind \in Kinds, r \in Revisions : ClaimJob(w, kind, r)
    BY DEF Claims
  <1>2. /\ NewClaim(r, kind).generation = document.generation
        /\ NewClaim(r, kind).step # "embedding"
    BY DEF NewClaim
  <1>3. /\ claim'[w] = NewClaim(r, kind)
        /\ \A v \in Workers \ {w} : claim'[v] = claim[v]
        /\ UNCHANGED <<document, revision>>
    BY <1>1 DEF ClaimJob, IndexInv, TypeInv, TypeOK
  <1>4. \A v \in Workers : ClaimGoesOn(v)
    BY <1>2, <1>3 DEF ClaimGoesOn
  <1> QED
    BY <1>3, <1>4, NoRowsForIndex

\* The fields that one write to a row leaves alone.
LEMMA ProcessingWrites ==
    ASSUME NEW row \in Revision, NEW p
    PROVE  /\ [row EXCEPT !.processing = p].processing = p
           /\ [row EXCEPT !.processing = p].publication = row.publication
           /\ [row EXCEPT !.processing = p].content = row.content
           /\ [row EXCEPT !.processing = p].index = row.index
  BY DEF Revision

LEMMA ParseForIndex ==
    ASSUME IndexInv, NEW w \in Workers, ParseStep(w)
    PROVE  StepForIndex
  <1> DEFINE r == claim[w].revision
  <1>1. TypeInv /\ \A q \in Revisions : IndexedRight(revision[q])
    BY DEF IndexInv
  <1>2. r \in Revisions /\ claim[w].step # "idle" /\ revision[r] \in Revision
    BY <1>1 DEF ParseStep, MarkProcessing, ExtendLease, CommitParsed, DropParsed, RejectSource,
           StopBeforeLeaseEnds, BreakParse, CommitFailed, Requeue, At, TypeInv, TypeOK,
           ClaimsARevision
  <1>3. \A v \in Workers : ClaimGoesOn(v)
    <2>1. CASE BreakParse(w)
      <3>1. claim'[w] = [claim[w] EXCEPT !.step = "requeueing", !.counted = TRUE]
        BY <1>1, <2>1 DEF BreakParse, TypeInv, TypeOK
      <3>2. claim'[w].step = "requeueing" /\ claim'[w].generation = claim[w].generation
        BY <1>1, <3>1 DEF TypeInv, TypeOK, Claim
      <3>3. \A v \in Workers \ {w} : claim'[v] = claim[v]
        BY <1>1, <2>1 DEF BreakParse, TypeInv, TypeOK
      <3> QED
        BY <1>2, <3>2, <3>3 DEF ClaimGoesOn
    <2>2. CASE MarkProcessing(w) \/ RejectSource(w)
      BY <1>1, <1>2, <2>2, ClaimsGoOn DEF MarkProcessing, RejectSource, Steps
    <2>3. CASE DropParsed(w) \/ CommitFailed(w)
      BY <1>1, <1>2, <2>3, ClaimsGoOn DEF DropParsed, CommitFailed, Steps
    <2>4. CASE \/ ExtendLease(w) \/ StopBeforeLeaseEnds(w) \/ Requeue(w)
               \/ \E unread \in BOOLEAN : CommitParsed(w, unread)
      BY <1>1, <2>4, ClaimsGoOn DEF ExtendLease, StopBeforeLeaseEnds, Requeue, CommitParsed
    <2> QED
      BY <2>1, <2>2, <2>3, <2>4 DEF ParseStep
  <1>4. CASE UNCHANGED <<document, revision>>
    BY <1>3, <1>4, NoRowsForIndex
  <1>5. ASSUME Locked(w)  PROVE revision[r].processing \in {"queued", "processing"}
                                /\ revision[r].index = NoIndex
    BY <1>1, <1>2, <1>5 DEF Locked, RevisionOf, IndexedRight
  <1>6. CASE MarkProcessing(w) /\ Locked(w)
    <2>1. revision' = [revision EXCEPT ![r] = [revision[r] EXCEPT !.processing = "processing"]]
      BY <1>6 DEF MarkProcessing
    <2>2. /\ IndexedRight([revision[r] EXCEPT !.processing = "processing"])
          /\ [revision[r] EXCEPT !.processing = "processing"].content = revision[r].content
      BY <1>2, <1>5, <1>6, ProcessingWrites DEF IndexedRight
    <2>3. \A q \in Revisions : /\ revision'[q].content = revision[q].content
                               /\ IndexedRight(revision'[q])
      BY <1>1, <2>1, <2>2 DEF TypeInv, TypeOK
    <2>4. document'.generation >= document.generation
      BY <1>1, <1>6 DEF MarkProcessing, TypeInv, TypeOK, Document
    <2> QED
      BY <1>3, <2>3, <2>4 DEF StepForIndex
  <1>7. ASSUME NEW unread \in BOOLEAN, CommitParsed(w, unread)  PROVE StepForIndex
    <2>1. IndexedRight([revision[r] EXCEPT !.processing = "parsed", !.content = 1,
                                           !.unread = unread])
      BY <1>2, <1>5, <1>7 DEF CommitParsed, IndexedRight, Revision
    <2>2. /\ revision' = [revision EXCEPT ![r] =
                 [revision[r] EXCEPT !.processing = "parsed", !.content = 1, !.unread = unread]]
          /\ document' = Bumped
      BY <1>7 DEF CommitParsed
    <2>3. document'.generation \in Nat /\ document'.generation > document.generation
      BY <1>1, <2>2, BumpedGeneration
    <2> QED
      BY <1>2, <1>3, <2>1, <2>2, <2>3, NewContentForIndex
  <1>8. CASE CommitFailed(w) /\ Locked(w)
    <2>1. IndexedRight([revision[r] EXCEPT !.processing = "failed"])
      BY <1>2, <1>5, <1>8, ProcessingWrites DEF IndexedRight
    <2> QED
      BY <1>1, <1>2, <1>3, <1>8, <2>1, BumpedGeneration, NewContentForIndex DEF CommitFailed
  <1>9. CASE /\ MarkProcessing(w) \/ CommitFailed(w)
             /\ ~Locked(w)
    BY <1>4, <1>9 DEF MarkProcessing, CommitFailed, rows
  <1> QED
    BY <1>4, <1>6, <1>7, <1>8, <1>9 DEF ParseStep, ExtendLease, DropParsed, RejectSource,
       StopBeforeLeaseEnds, BreakParse, Requeue, rows

LEMMA IndexForIndex ==
    ASSUME IndexInv, NEW w \in Workers, IndexStep(w)
    PROVE  StepForIndex
  <1> DEFINE r == claim[w].revision
  <1>1. TypeInv /\ \A q \in Revisions : IndexedRight(revision[q])
    BY DEF IndexInv
  <1>2. r \in Revisions /\ claim[w].step # "idle" /\ revision[r] \in Revision
    BY <1>1 DEF IndexStep, Snapshot, IndexAndPublish, IndexForReview, BreakIndex, Retry, At,
           TypeInv, TypeOK, ClaimsARevision
  <1>3. CASE Snapshot(w)
    <2>1. claim'[w] = [claim[w] EXCEPT !.step = "embedding", !.content = revision[r].content]
      BY <1>1, <1>3 DEF Snapshot, RevisionOf, TypeInv, TypeOK
    <2>2. /\ claim'[w].generation = claim[w].generation
          /\ claim'[w].content = revision[r].content
          /\ claim'[w].revision = r
      BY <1>1, <2>1 DEF TypeInv, TypeOK, Claim
    <2>3. /\ UNCHANGED <<document, revision>>
          /\ claim[w].generation = document.generation
      BY <1>3 DEF Snapshot, SnapshotValid, rows
    <2>4. \A v \in Workers \ {w} : claim'[v] = claim[v]
      BY <1>1, <1>3 DEF Snapshot, TypeInv, TypeOK
    <2>5. \A v \in Workers : ClaimGoesOn(v)
      BY <2>2, <2>3, <2>4 DEF ClaimGoesOn
    <2> QED
      BY <2>3, <2>5, NoRowsForIndex
  <1>4. ASSUME NEW processing \in {"ready", "partial"},
               IndexAndPublish(w) \/ IndexForReview(w)
        PROVE  /\ IndexedRight(IndexedRow(w, processing))
               /\ IndexedRow(w, processing).content = revision[r].content
    <2>1. claim[w].content = revision[r].content
      BY <1>4 DEF IndexAndPublish, IndexForReview, At, IndexValid, SnapshotValid, IndexInv,
             EmbedsWhatItReads, RevisionOf
    <2>2. /\ IndexedRow(w, processing).processing = processing
          /\ IndexedRow(w, processing).content = revision[r].content
          /\ IndexedRow(w, processing).index = claim[w].content
      BY <1>2 DEF IndexedRow, RevisionOf, Revision
    <2> QED
      BY <2>1, <2>2 DEF IndexedRight
  <1>5. CASE IndexAndPublish(w)
    <2> DEFINE table == [revision EXCEPT ![r] = IndexedRow(w, "ready")]
    <2>1. table \in [Revisions -> Revision] /\ revision' = WithPublished(table, r)
      BY <1>1, <1>2, <1>5, IndexedRowType DEF IndexAndPublish, TypeInv, TypeOK, Processings
    <2>2. \A q \in Revisions : /\ table[q].content = revision[q].content
                               /\ IndexedRight(table[q])
      BY <1>1, <1>2, <1>4, <1>5 DEF TypeInv, TypeOK
    <2>3. \A q \in Revisions : /\ revision'[q].content = revision[q].content
                               /\ IndexedRight(revision'[q])
      <3> HIDE DEF table
      <3> QED
        BY <1>2, <2>1, <2>2, PublishingForIndex
    <2>4. document'.generation = document.generation + 2
      BY <1>1, <1>5 DEF IndexAndPublish, TypeInv, TypeOK, Document
    <2>5. document'.generation >= document.generation
      BY <1>1, <2>4, BumpedGeneration
    <2>6. \A v \in Workers : ClaimGoesOn(v)
      BY <1>1, <1>5, ClaimsGoOn DEF IndexAndPublish
    <2> QED
      BY <2>3, <2>5, <2>6 DEF StepForIndex
  <1>6. CASE IndexForReview(w)
    <2>1. \A v \in Workers : ClaimGoesOn(v)
      BY <1>1, <1>6, ClaimsGoOn DEF IndexForReview
    <2>2. IndexedRight(IndexedRow(w, "partial"))
      BY <1>4, <1>6
    <2>3. /\ revision' = [revision EXCEPT ![r] = IndexedRow(w, "partial")]
          /\ document' = Bumped
      BY <1>6 DEF IndexForReview
    <2>4. document'.generation \in Nat /\ document'.generation > document.generation
      BY <1>1, <2>3, BumpedGeneration
    <2> QED
      BY <1>2, <2>1, <2>2, <2>3, <2>4, NewContentForIndex
  <1>7. CASE BreakIndex(w) \/ Retry(w)
    <2>1. \A v \in Workers : ClaimGoesOn(v)
      BY <1>1, <1>2, <1>7, ClaimsGoOn DEF BreakIndex, Retry, Steps
    <2> QED
      BY <1>7, <2>1, NoRowsForIndex DEF BreakIndex, Retry, rows
  <1> QED
    BY <1>3, <1>5, <1>6, <1>7 DEF IndexStep

LEMMA OthersForIndex ==
    ASSUME IndexInv, TimeStep \/ \E w \in Workers : Crash(w)
    PROVE  StepForIndex
  <1>1. /\ UNCHANGED <<document, revision>>
        /\ UNCHANGED claim \/ \E w \in Workers : Release(w)
    BY DEF TimeStep, LeaseRunsOut, Settle, Crash, rows
  <1>2. \A w \in Workers : ClaimGoesOn(w)
    BY <1>1, ClaimsGoOn DEF IndexInv
  <1> QED
    BY <1>1, <1>2, NoRowsForIndex

\* What search finds is what the page shows: the index of a revision was cut
\* from the content it has, for any number of workers and of edits made while
\* blocks are embedded.
THEOREM IndexIsCurrent == Spec => []IndexCoversContent
  <1>1. IngestionInit => IndexInv
    <2>1. IngestionInit => \A r \in Revisions : IndexedRight(revision[r])
      BY DEF IngestionInit, Init, EmptyDraft, NoRow, IndexedRight
    <2>2. IngestionInit => ClaimsSawThePast /\ EmbedsWhatItReads
      BY DEF IngestionInit, InitWorkers, NoClaim, ClaimsSawThePast, EmbedsWhatItReads
    <2> QED
      BY <2>1, <2>2, TypeInit DEF IndexInv
  <1>2. IndexInv /\ [Next]_vars => IndexInv'
    <2> SUFFICES ASSUME IndexInv, [Next]_vars  PROVE IndexInv'
      OBVIOUS
    <2>1. TypeInv'
      BY TypeStep DEF IndexInv
    <2>2. CASE UNCHANGED vars
      BY <2>2 DEF vars, IndexInv, TypeInv, TypeOK, ClaimsARevision, ClaimsSawThePast,
         EmbedsWhatItReads, RevisionOf, Revisions
    <2>3. CASE Next
      <3>1. StepForIndex
        BY <2>3, TeacherForIndex, ClaimsForIndex, ParseForIndex, IndexForIndex, OthersForIndex
           DEF Next, WorkerStep
      <3> QED
        BY <2>1, <3>1, StepForIndexKeeps
    <2> QED
      BY <2>2, <2>3
  <1>3. IndexInv => IndexCoversContent
    BY DEF IndexInv, IndexedRight, IndexCoversContent
  <1> QED
    BY <1>1, <1>2, <1>3, PTL DEF Spec

-----------------------------------------------------------------------------
(* A draft that waits has a job *)

\* The job row j does what a draft with this row waits for.
Served(row, j) ==
    row.publication = "draft" =>
        /\ row.processing \in {"queued", "processing"} =>
               j.kind = "parse" /\ j.status \in {"queued", "processing"}
        /\ row.processing = "parsed" =>
               j.kind = "index" /\ j.status \in {"queued", "processing", "failed"}

\* A worker that still holds its job holds one of the kind it claimed: only
\* _commit_parsed changes the kind, and it takes the lock token away.
HoldsItsKind == \A w \in Workers :
    claim[w].step # "idle" /\ HoldsJob(w) => JobOf(w).kind = claim[w].kind

DraftInv == TypeInv /\ HoldsItsKind /\ NoSilentDraft

\* No step but a claim makes a worker hold a job, and none changes what a
\* worker that goes on works at.
HoldKept(r) ==
    job'[r].status = "processing" =>
        /\ job[r].status = "processing"
        /\ job'[r].owner = job[r].owner
        /\ job'[r].kind = job[r].kind

ClaimSame(w) ==
    claim'[w].step # "idle" =>
        /\ claim[w].step # "idle"
        /\ claim'[w].revision = claim[w].revision
        /\ claim'[w].kind = claim[w].kind

NoNewHold == /\ \A r \in Revisions : HoldKept(r)
             /\ \A w \in Workers : ClaimSame(w)

DraftsServed ==
    document'.lifecycle # "deleted" => \A r \in Revisions : Served(revision'[r], job'[r])

LEMMA NoNewHoldKeeps ==
    ASSUME TypeInv, TypeInv', HoldsItsKind, NoNewHold
    PROVE  HoldsItsKind'
  <1> SUFFICES ASSUME NEW w \in Workers, claim'[w].step # "idle",
                      job'[claim'[w].revision].owner = w,
                      job'[claim'[w].revision].status = "processing"
               PROVE  job'[claim'[w].revision].kind = claim'[w].kind
    BY DEF HoldsItsKind, HoldsJob, JobOf
  <1>1. claim'[w].revision \in Revisions
    BY DEF TypeInv, ClaimsARevision, Revisions
  <1>2. /\ claim[w].step # "idle" /\ claim'[w].revision = claim[w].revision
        /\ claim'[w].kind = claim[w].kind
    BY DEF NoNewHold, ClaimSame
  <1>3. /\ job[claim[w].revision].owner = w
        /\ job[claim[w].revision].status = "processing"
        /\ job'[claim[w].revision].kind = job[claim[w].revision].kind
    BY <1>1, <1>2 DEF NoNewHold, HoldKept
  <1> QED
    BY <1>2, <1>3 DEF HoldsItsKind, HoldsJob, JobOf

LEMMA SilentMeansServed ==
    /\ NoSilentDraft <=> (document.lifecycle # "deleted" =>
                              \A r \in Revisions : Served(revision[r], job[r]))
    /\ NoSilentDraft' <=> DraftsServed
  BY DEF NoSilentDraft, Served, Draft, DraftsServed, Revisions

\* Giving a claim up, moving it on, or changing what it counts or embeds.
LEMMA ClaimsSame ==
    ASSUME TypeInv,
           \/ UNCHANGED claim
           \/ \E w \in Workers : Release(w)
           \/ \E w \in Workers, s \in Steps : claim[w].step # "idle" /\ GoTo(w, s)
           \/ \E w \in Workers : BreakParse(w) \/ Snapshot(w)
    PROVE  \A w \in Workers : ClaimSame(w)
  <1> USE DEF TypeInv, TypeOK
  <1>1. ASSUME NEW w \in Workers, Release(w)
        PROVE  \A v \in Workers : ClaimSame(v)
    BY <1>1 DEF Release, NoClaim, ClaimSame
  <1>2. ASSUME NEW w \in Workers, NEW s \in Steps, claim[w].step # "idle", GoTo(w, s)
        PROVE  \A v \in Workers : ClaimSame(v)
    <2>1. claim'[w].revision = claim[w].revision /\ claim'[w].kind = claim[w].kind
      BY <1>2 DEF GoTo, Claim
    <2> QED
      BY <1>2, <2>1 DEF GoTo, ClaimSame
  <1>3. ASSUME NEW w \in Workers, BreakParse(w)
        PROVE  \A v \in Workers : ClaimSame(v)
    <2>1. claim' = [claim EXCEPT ![w] =
                        [claim[w] EXCEPT !.step = "requeueing", !.counted = TRUE]]
      BY <1>3 DEF BreakParse
    <2>2. claim'[w].revision = claim[w].revision /\ claim'[w].kind = claim[w].kind
      BY <2>1 DEF Claim
    <2> QED
      BY <1>3, <2>1, <2>2 DEF BreakParse, ClaimSame
  <1>4. ASSUME NEW w \in Workers, Snapshot(w)
        PROVE  \A v \in Workers : ClaimSame(v)
    <2>1. claim' = [claim EXCEPT ![w] =
              [claim[w] EXCEPT !.step = "embedding", !.content = RevisionOf(w).content]]
      BY <1>4 DEF Snapshot
    <2>2. claim'[w].revision = claim[w].revision /\ claim'[w].kind = claim[w].kind
      BY <2>1 DEF Claim
    <2> QED
      BY <1>4, <2>1, <2>2 DEF Snapshot, At, ClaimSame
  <1> QED
    BY <1>1, <1>2, <1>3, <1>4 DEF ClaimSame

\* One job row is replaced by one that nobody works on.
LEMMA JobOutOfHands ==
    ASSUME TypeInv, NEW r \in Revisions, NEW row, row.status # "processing",
           job' = [job EXCEPT ![r] = row]
    PROVE  \A q \in Revisions : HoldKept(q)
  BY DEF TypeInv, TypeOK, HoldKept

\* One revision row and its job row are written, and they fit.
LEMMA PairServed ==
    ASSUME TypeInv, document.lifecycle # "deleted", NoSilentDraft, NEW r \in Revisions,
           \A q \in Revisions \ {r} : revision'[q] = revision[q] /\ job'[q] = job[q],
           Served(revision'[r], job'[r])
    PROVE  DraftsServed
  BY SilentMeansServed DEF DraftsServed

LEMMA PublishingServed ==
    ASSUME NEW table \in [Revisions -> Revision], NEW r \in Revisions, NEW q \in Revisions,
           NEW j, Served(table[q], j) \/ q = r
    PROVE  Served(WithPublished(table, r)[q], j)
  <1>1. ASSUME NEW p \in Publications
        PROVE  [table[q] EXCEPT !.publication = p].publication = p
    BY DEF Revision
  <1> QED
    BY <1>1 DEF WithPublished, Served, Publications

LEMMA FreshRowsServed ==
    /\ \A reason \in Reasons : Served(EmptyDraft(reason), QueuedJob("parse", TRUE))
    /\ \A row, settled : row.processing = "parsed" => Served(row, QueuedJob("index", settled))
    /\ \A kind, settled : QueuedJob(kind, settled).status = "queued"
    /\ NoJob.status = "none"
  BY DEF Served, EmptyDraft, NoRow, QueuedJob, NoJob

LEMMA TeacherForDrafts ==
    ASSUME DraftInv, TeacherStep
    PROVE  NoNewHold /\ DraftsServed
  <1>1. TypeInv /\ NoSilentDraft
    BY DEF DraftInv
  <1>2. \A w \in Workers : ClaimSame(w)
    BY <1>1, ClaimsSame DEF TeacherStep
  <1>3. ASSUME TeacherMay("active")  PROVE document.lifecycle # "deleted"
    BY <1>3 DEF TeacherMay
  <1>4. ASSUME NEW r \in Revisions, NEW row, NEW kind, NEW settled, TeacherMay("active"),
               revision' = [revision EXCEPT ![r] = row],
               job' = [job EXCEPT ![r] = QueuedJob(kind, settled)],
               Served(row, QueuedJob(kind, settled))
        PROVE  NoNewHold /\ DraftsServed
    <2>1. \A q \in Revisions : HoldKept(q)
      BY <1>1, <1>4, FreshRowsServed, JobOutOfHands
    <2>2. DraftsServed
      BY <1>1, <1>3, <1>4, PairServed DEF TypeInv, TypeOK
    <2> QED
      BY <1>2, <2>1, <2>2 DEF NoNewHold
  <1>5. ASSUME NEW r \in Revisions, UploadReplacement(r)  PROVE NoNewHold /\ DraftsServed
    BY <1>4, <1>5, FreshRowsServed DEF UploadReplacement, Reasons
  <1>6. ASSUME NEW r \in Revisions, PublishRevision(r)  PROVE NoNewHold /\ DraftsServed
    <2>1. UNCHANGED job /\ revision' = WithPublished(revision, r)
      BY <1>6 DEF PublishRevision
    <2>2. \A q \in Revisions : HoldKept(q)
      BY <2>1 DEF HoldKept
    <2>3. \A q \in Revisions : Served(revision[q], job[q])
      BY <1>1, <1>3, <1>6, SilentMeansServed DEF PublishRevision
    <2>4. revision \in [Revisions -> Revision]
      BY <1>1 DEF TypeInv, TypeOK
    <2>5. DraftsServed
      BY <2>1, <2>3, <2>4, PublishingServed DEF DraftsServed
    <2> QED
      BY <1>2, <2>2, <2>5 DEF NoNewHold
  <1>7. ASSUME NEW r \in Revisions, EditInPlace(r)  PROVE NoNewHold /\ DraftsServed
    <2>1. /\ revision' = [revision EXCEPT ![r] =
                              [revision[r] EXCEPT !.content = revision[r].content + 1]]
          /\ job' = [job EXCEPT ![r] = [job[r] EXCEPT !.settled = FALSE]]
          /\ TeacherMay("active")
      BY <1>7 DEF EditInPlace
    <2>2. /\ [job[r] EXCEPT !.settled = FALSE].status = job[r].status
          /\ [job[r] EXCEPT !.settled = FALSE].kind = job[r].kind
          /\ [job[r] EXCEPT !.settled = FALSE].owner = job[r].owner
      BY <1>1 DEF TypeInv, TypeOK, Job
    <2>3. \A q \in Revisions : HoldKept(q)
      BY <1>1, <2>1, <2>2 DEF HoldKept, TypeInv, TypeOK
    <2>4. LET row == [revision[r] EXCEPT !.content = revision[r].content + 1]
          IN  /\ row.publication = revision[r].publication
              /\ row.processing = revision[r].processing
      BY <1>1 DEF TypeInv, TypeOK, Revision
    <2>5. Served(revision[r], job[r])
      BY <1>1, <1>3, <2>1, SilentMeansServed
    <2>6. Served([revision[r] EXCEPT !.content = revision[r].content + 1],
                 [job[r] EXCEPT !.settled = FALSE])
      BY <2>2, <2>4, <2>5 DEF Served
    <2>7. DraftsServed
      BY <1>1, <1>3, <2>1, <2>6, PairServed DEF TypeInv, TypeOK
    <2> QED
      BY <1>2, <2>3, <2>7 DEF NoNewHold
  <1>8. ASSUME NEW parent \in Revisions, NEW r \in Revisions, EditCopy(parent, r)
        PROVE  NoNewHold /\ DraftsServed
    <2>1. [EmptyDraft("teacher_edit") EXCEPT
               !.processing = "parsed", !.content = 1,
               !.unread = revision[parent].unread].processing = "parsed"
      BY DEF EmptyDraft, NoRow
    <2>2. Served([EmptyDraft("teacher_edit") EXCEPT
                      !.processing = "parsed", !.content = 1,
                      !.unread = revision[parent].unread], QueuedJob("index", FALSE))
      BY <2>1, FreshRowsServed
    <2> QED
      BY <1>4, <1>8, <2>2 DEF EditCopy
  <1>9. ASSUME NEW parent \in Revisions, NEW r \in Revisions, RequestReparse(parent, r)
        PROVE  NoNewHold /\ DraftsServed
    BY <1>4, <1>9, FreshRowsServed DEF RequestReparse, Reasons
  <1>10. ASSUME Archive \/ Restore  PROVE NoNewHold /\ DraftsServed
    <2>1. UNCHANGED <<revision, job>> /\ document.lifecycle # "deleted"
      BY <1>10 DEF Archive, Restore, SetArchived, TeacherMay
    <2>2. \A q \in Revisions : HoldKept(q)
      BY <2>1 DEF HoldKept
    <2>3. DraftsServed
      BY <1>1, <2>1, SilentMeansServed DEF DraftsServed, Served
    <2> QED
      BY <1>2, <2>2, <2>3 DEF NoNewHold
  <1>11. ASSUME MarkDeleted  PROVE NoNewHold /\ DraftsServed
    <2>1. \A q \in Revisions : job'[q].status = "none"
      BY <1>11, FreshRowsServed DEF MarkDeleted
    <2>2. document'.lifecycle = "deleted"
      BY <1>1, <1>11 DEF MarkDeleted, Bumped, TypeInv, TypeOK, Document
    <2> QED
      BY <1>2, <2>1, <2>2 DEF NoNewHold, HoldKept, DraftsServed
  <1> QED
    BY <1>5, <1>6, <1>7, <1>8, <1>9, <1>10, <1>11 DEF TeacherStep

LEMMA ClaimsForDrafts ==
    ASSUME DraftInv, NEW w \in Workers, Claims(w)
    PROVE  HoldsItsKind' /\ DraftsServed
  <1> USE DEF TypeInv, TypeOK
  <1>1. TypeInv /\ NoSilentDraft /\ HoldsItsKind
    BY DEF DraftInv
  <1>2. PICK kind \in Kinds, r \in Revisions : ClaimJob(w, kind, r)
    BY DEF Claims
  <1>3. /\ ClaimedJob(job[r], w).status = "processing"
        /\ ClaimedJob(job[r], w).owner = w
        /\ ClaimedJob(job[r], w).kind = job[r].kind
        /\ NewClaim(r, kind).revision = r
        /\ NewClaim(r, kind).kind = kind
    BY <1>1 DEF ClaimedJob, Job, NewClaim
  <1>4. /\ job[r].kind = kind /\ job[r].status \in {"queued", "processing"}
        /\ document.lifecycle = "active"
        /\ UNCHANGED <<document, revision>>
    BY <1>2 DEF ClaimJob, FirstClaimable, Claimable
  <1>5. /\ job'[r] = ClaimedJob(job[r], w) /\ claim'[w] = NewClaim(r, kind)
        /\ \A q \in Revisions \ {r} : job'[q] = job[q]
        /\ \A v \in Workers \ {w} : claim'[v] = claim[v]
    BY <1>1, <1>2 DEF ClaimJob
  <1>6. HoldsItsKind'
    <2> SUFFICES ASSUME NEW v \in Workers, claim'[v].step # "idle",
                        job'[claim'[v].revision].owner = v,
                        job'[claim'[v].revision].status = "processing"
                 PROVE  job'[claim'[v].revision].kind = claim'[v].kind
      BY DEF HoldsItsKind, HoldsJob, JobOf
    <2>1. CASE v = w
      BY <1>3, <1>4, <1>5, <2>1
    <2>2. CASE v # w
      <3>1. claim'[v] = claim[v] /\ claim[v].revision \in Revisions
        BY <1>1, <1>5, <2>2 DEF ClaimsARevision
      <3>2. claim[v].revision # r
        BY <1>3, <1>5, <2>2, <3>1
      <3>3. job'[claim[v].revision] = job[claim[v].revision]
        BY <1>5, <3>1, <3>2
      <3> QED
        BY <1>1, <3>1, <3>3 DEF HoldsItsKind, HoldsJob, JobOf
    <2> QED
      BY <2>1, <2>2
  <1>7. Served(revision'[r], job'[r])
    BY <1>1, <1>3, <1>4, <1>5, SilentMeansServed DEF Served
  <1> QED
    BY <1>1, <1>4, <1>5, <1>6, <1>7, PairServed

LEMMA ParseForDrafts ==
    ASSUME DraftInv, NEW w \in Workers, ParseStep(w)
    PROVE  NoNewHold /\ DraftsServed
  <1> DEFINE r == claim[w].revision
  <1>1. TypeInv /\ NoSilentDraft
    BY DEF DraftInv
  <1>2. r \in Revisions /\ claim[w].step # "idle" /\ revision[r] \in Revision /\ job[r] \in Job
    BY <1>1 DEF ParseStep, MarkProcessing, ExtendLease, CommitParsed, DropParsed, RejectSource,
           StopBeforeLeaseEnds, BreakParse, CommitFailed, Requeue, At, TypeInv, TypeOK,
           ClaimsARevision
  <1>3. \A v \in Workers : ClaimSame(v)
    <2>1. CASE MarkProcessing(w) \/ RejectSource(w)
      BY <1>1, <1>2, <2>1, ClaimsSame DEF MarkProcessing, RejectSource, Steps
    <2>2. CASE DropParsed(w) \/ CommitFailed(w)
      BY <1>1, <1>2, <2>2, ClaimsSame DEF DropParsed, CommitFailed, Steps
    <2>3. CASE \/ ExtendLease(w) \/ StopBeforeLeaseEnds(w) \/ Requeue(w) \/ BreakParse(w)
               \/ \E unread \in BOOLEAN : CommitParsed(w, unread)
      BY <1>1, <2>3, ClaimsSame DEF ExtendLease, StopBeforeLeaseEnds, Requeue, CommitParsed
    <2> QED
      BY <2>1, <2>2, <2>3 DEF ParseStep
  <1>4. CASE UNCHANGED rows
    <2>1. \A q \in Revisions : HoldKept(q)
      BY <1>4 DEF rows, HoldKept
    <2>2. DraftsServed
      BY <1>1, <1>4, SilentMeansServed DEF rows, DraftsServed, Served
    <2> QED
      BY <1>3, <2>1, <2>2 DEF NoNewHold
  <1>5. ASSUME Locked(w)
        PROVE  /\ document.lifecycle = "active"
               /\ Served(revision[r], job[r])
               /\ revision[r].publication = "draft"
               /\ revision[r].processing \in {"queued", "processing"}
    BY <1>1, <1>2, <1>5, SilentMeansServed DEF Locked, RevisionOf
  <1>6. CASE MarkProcessing(w) /\ Locked(w)
    <2>1. /\ revision' = [revision EXCEPT ![r] = [revision[r] EXCEPT !.processing = "processing"]]
          /\ UNCHANGED job
      BY <1>6 DEF MarkProcessing
    <2>2. Served([revision[r] EXCEPT !.processing = "processing"], job[r])
      BY <1>2, <1>5, <1>6, ProcessingWrites DEF Served
    <2>3. DraftsServed
      BY <1>1, <1>2, <1>5, <1>6, <2>1, <2>2, PairServed DEF TypeInv, TypeOK
    <2>4. \A q \in Revisions : HoldKept(q)
      BY <2>1 DEF HoldKept
    <2> QED
      BY <1>3, <2>3, <2>4 DEF NoNewHold
  \* A job row that keeps its kind, on the row of a draft that waits for it.
  <1>7. ASSUME NEW row \in Job, row.kind = job[r].kind,
               row.status \in {"queued", "processing"},
               job[r].status = "processing",
               row.status = "processing" => row.owner = job[r].owner,
               job' = [job EXCEPT ![r] = row], UNCHANGED <<document, revision>>
        PROVE  NoNewHold /\ DraftsServed
    <2>1. \A q \in Revisions : HoldKept(q)
      BY <1>1, <1>2, <1>7 DEF HoldKept, TypeInv, TypeOK
    <2>2. document.lifecycle # "deleted" => Served(revision[r], job[r])
      BY <1>1, <1>2, SilentMeansServed
    <2>3. document.lifecycle # "deleted" => Served(revision[r], row)
      BY <1>7, <2>2 DEF Served
    <2>4. job'[r] = row /\ \A q \in Revisions \ {r} : job'[q] = job[q]
      BY <1>1, <1>2, <1>7 DEF TypeInv, TypeOK
    <2>5. DraftsServed
      BY <1>1, <1>2, <1>7, <2>3, <2>4, PairServed DEF DraftsServed
    <2> QED
      BY <1>3, <2>1, <2>5 DEF NoNewHold
  <1>8. CASE ExtendLease(w)
    <2>1. /\ job' = [job EXCEPT ![r] = [job[r] EXCEPT !.leased = TRUE]]
          /\ job[r].status = "processing" /\ UNCHANGED <<document, revision>>
      BY <1>8 DEF ExtendLease, HoldsJob, JobOf
    <2>2. LET row == [job[r] EXCEPT !.leased = TRUE]
          IN  row \in Job /\ row.kind = job[r].kind /\ row.status = job[r].status
              /\ row.owner = job[r].owner
      BY <1>2 DEF Job
    <2> QED
      BY <1>7, <2>1, <2>2
  <1>9. ASSUME NEW unread \in BOOLEAN, CommitParsed(w, unread)
        PROVE  NoNewHold /\ DraftsServed
    <2>1. /\ revision' = [revision EXCEPT ![r] =
                 [revision[r] EXCEPT !.processing = "parsed", !.content = 1, !.unread = unread]]
          /\ job' = [job EXCEPT ![r] = QueuedJob("index", TRUE)]
      BY <1>9 DEF CommitParsed
    <2>2. [revision[r] EXCEPT !.processing = "parsed", !.content = 1,
                              !.unread = unread].processing = "parsed"
      BY <1>2 DEF Revision
    <2>3. \A q \in Revisions : HoldKept(q)
      BY <1>1, <1>2, <2>1, FreshRowsServed, JobOutOfHands
    <2>4. Served(revision'[r], job'[r])
      BY <1>1, <1>2, <2>1, <2>2, FreshRowsServed DEF TypeInv, TypeOK
    <2>5. document.lifecycle # "deleted"
      BY <1>5, <1>9 DEF CommitParsed
    <2>6. DraftsServed
      BY <1>1, <1>2, <2>1, <2>4, <2>5, PairServed DEF TypeInv, TypeOK
    <2> QED
      BY <1>3, <2>3, <2>6 DEF NoNewHold
  <1>10. CASE CommitFailed(w) /\ Locked(w)
    <2>1. /\ revision' = [revision EXCEPT ![r] = [revision[r] EXCEPT !.processing = "failed"]]
          /\ job' = [job EXCEPT ![r] = [job[r] EXCEPT !.status = "failed"]]
      BY <1>10 DEF CommitFailed
    <2>2. [job[r] EXCEPT !.status = "failed"].status = "failed"
      BY <1>2 DEF Job
    <2>3. \A q \in Revisions : HoldKept(q)
      BY <1>1, <1>2, <2>1, <2>2, JobOutOfHands
    <2>4. [revision[r] EXCEPT !.processing = "failed"].processing = "failed"
      BY <1>2, ProcessingWrites
    <2>5. Served(revision'[r], job'[r])
      BY <1>1, <1>2, <2>1, <2>4 DEF Served, TypeInv, TypeOK
    <2>6. DraftsServed
      BY <1>1, <1>2, <1>5, <1>10, <2>1, <2>5, PairServed DEF TypeInv, TypeOK
    <2> QED
      BY <1>3, <2>3, <2>6 DEF NoNewHold
  <1>11. CASE Requeue(w) /\ HoldsJob(w)
    <2>1. /\ job' = [job EXCEPT ![r] = RequeuedJob(job[r], claim[w].counted)]
          /\ job[r].status = "processing" /\ UNCHANGED <<document, revision>>
      BY <1>11 DEF Requeue, HoldsJob, JobOf
    <2>2. /\ RequeuedJob(job[r], claim[w].counted).kind = job[r].kind
          /\ RequeuedJob(job[r], claim[w].counted).status = "queued"
      BY <1>2 DEF RequeuedJob, Job
    <2>3. RequeuedJob(job[r], claim[w].counted) \in Job
      BY <1>1, <1>2, JobRowTypes DEF TypeInv, TypeOK, Claim
    <2> QED
      BY <1>7, <2>1, <2>2, <2>3
  <1>12. CASE Requeue(w) /\ ~HoldsJob(w)
    BY <1>4, <1>12 DEF Requeue, rows
  <1>13. CASE /\ MarkProcessing(w) \/ CommitFailed(w)
              /\ ~Locked(w)
    BY <1>4, <1>13 DEF MarkProcessing, CommitFailed, rows
  <1>14. CASE DropParsed(w) \/ RejectSource(w) \/ StopBeforeLeaseEnds(w) \/ BreakParse(w)
    BY <1>4, <1>14 DEF DropParsed, RejectSource, StopBeforeLeaseEnds, BreakParse
  <1> QED
    BY <1>6, <1>8, <1>9, <1>10, <1>11, <1>12, <1>13, <1>14 DEF ParseStep

LEMMA IndexForDrafts ==
    ASSUME DraftInv, NEW w \in Workers, IndexStep(w)
    PROVE  NoNewHold /\ DraftsServed
  <1> DEFINE r == claim[w].revision
  <1>1. TypeInv /\ NoSilentDraft /\ HoldsItsKind
    BY DEF DraftInv
  <1>2. r \in Revisions /\ claim[w].step # "idle" /\ revision[r] \in Revision /\ job[r] \in Job
    BY <1>1 DEF IndexStep, Snapshot, IndexAndPublish, IndexForReview, BreakIndex, Retry, At,
           TypeInv, TypeOK, ClaimsARevision
  <1>3. \A v \in Workers : ClaimSame(v)
    BY <1>1, <1>2, ClaimsSame
       DEF IndexStep, IndexAndPublish, IndexForReview, BreakIndex, Retry, Steps
  <1>4. CASE UNCHANGED rows
    <2>1. \A q \in Revisions : HoldKept(q)
      BY <1>4 DEF rows, HoldKept
    <2>2. DraftsServed
      BY <1>1, <1>4, SilentMeansServed DEF rows, DraftsServed, Served
    <2> QED
      BY <1>3, <2>1, <2>2 DEF NoNewHold
  <1>5. ASSUME job' = FinishedJob(w)
        PROVE  /\ \A q \in Revisions : HoldKept(q)
               /\ \A q \in Revisions \ {r} : job'[q] = job[q]
    <2>1. [job[r] EXCEPT !.status = "done"].status = "done"
      BY <1>2 DEF Job
    <2>2. job' = [job EXCEPT ![r] = [job[r] EXCEPT !.status = "done"]]
      BY <1>5 DEF FinishedJob
    <2> QED
      BY <1>1, <1>2, <2>1, <2>2, JobOutOfHands DEF TypeInv, TypeOK
  <1>6. ASSUME NEW processing \in {"ready", "partial"}, NEW j
        PROVE  /\ IndexedRow(w, processing) \in Revision
               /\ Served(IndexedRow(w, processing), j)
    <2>1. IndexedRow(w, processing).processing = processing
      BY <1>2 DEF IndexedRow, RevisionOf, Revision
    <2> QED
      BY <1>1, <1>2, <2>1, IndexedRowType DEF Served, Processings
  <1>7. CASE IndexAndPublish(w)
    <2> DEFINE table == [revision EXCEPT ![r] = IndexedRow(w, "ready")]
    <2>1. /\ revision' = WithPublished(table, r) /\ job' = FinishedJob(w)
          /\ document.lifecycle # "deleted"
      BY <1>7 DEF IndexAndPublish, IndexValid, SnapshotValid
    <2>2. table \in [Revisions -> Revision]
      BY <1>1, <1>2, <1>6 DEF TypeInv, TypeOK
    <2>3. ASSUME NEW q \in Revisions  PROVE Served(table[q], job'[q]) \/ q = r
      BY <1>1, <1>5, <2>1, SilentMeansServed DEF TypeInv, TypeOK
    <2>4. DraftsServed
      <3> HIDE DEF table
      <3> QED
        BY <1>2, <2>1, <2>2, <2>3, PublishingServed DEF DraftsServed
    <2> QED
      BY <1>3, <1>5, <2>1, <2>4 DEF NoNewHold
  <1>8. CASE IndexForReview(w)
    <2>1. /\ revision' = [revision EXCEPT ![r] = IndexedRow(w, "partial")]
          /\ job' = FinishedJob(w) /\ document.lifecycle # "deleted"
      BY <1>8 DEF IndexForReview, IndexValid, SnapshotValid
    <2>2. Served(revision'[r], job'[r])
      BY <1>1, <1>2, <1>6, <2>1 DEF TypeInv, TypeOK
    <2>3. DraftsServed
      BY <1>1, <1>2, <1>5, <2>1, <2>2, PairServed DEF TypeInv, TypeOK
    <2> QED
      BY <1>3, <1>5, <2>1, <2>3 DEF NoNewHold
  <1>9. CASE Retry(w) /\ HoldsJob(w)
    <2> DEFINE row == RetriedJob(job[r], claim[w].attempts)
    <2>1. job' = [job EXCEPT ![r] = row] /\ UNCHANGED <<document, revision>>
      BY <1>9 DEF Retry, JobOf
    <2>2. row.kind = job[r].kind /\ row.status \in {"queued", "failed"}
      BY <1>2 DEF RetriedJob, Job
    <2>3. job[r].kind = "index"
      BY <1>1, <1>2, <1>9 DEF Retry, At, HoldsItsKind, JobOf
    <2> HIDE DEF row
    <2>4. \A q \in Revisions : HoldKept(q)
      BY <1>1, <1>2, <2>1, <2>2, JobOutOfHands
    <2>5. document.lifecycle # "deleted" => Served(revision[r], row)
      BY <1>1, <1>2, <2>2, <2>3, SilentMeansServed DEF Served
    <2>6. job'[r] = row /\ \A q \in Revisions \ {r} : job'[q] = job[q]
      BY <1>1, <1>2, <2>1 DEF TypeInv, TypeOK
    <2>7. DraftsServed
      BY <1>1, <1>2, <2>1, <2>5, <2>6, PairServed DEF DraftsServed
    <2> QED
      BY <1>3, <2>4, <2>7 DEF NoNewHold
  <1>10. CASE Snapshot(w) \/ BreakIndex(w) \/ (Retry(w) /\ ~HoldsJob(w))
    BY <1>4, <1>10 DEF Snapshot, BreakIndex, Retry, rows
  <1> QED
    BY <1>7, <1>8, <1>9, <1>10 DEF IndexStep

LEMMA OthersForDrafts ==
    ASSUME DraftInv, TimeStep \/ \E w \in Workers : Crash(w)
    PROVE  NoNewHold /\ DraftsServed
  <1>1. TypeInv /\ NoSilentDraft
    BY DEF DraftInv
  <1>2. /\ UNCHANGED <<document, revision>>
        /\ UNCHANGED claim \/ \E w \in Workers : Release(w)
    BY DEF TimeStep, LeaseRunsOut, Settle, Crash, rows
  <1>3. \A w \in Workers : ClaimSame(w)
    BY <1>1, <1>2, ClaimsSame
  <1>4. \A r \in Revisions : /\ job'[r].status = job[r].status
                             /\ job'[r].kind = job[r].kind
                             /\ job'[r].owner = job[r].owner
    <2>1. ASSUME NEW r \in Revisions
          PROVE  /\ LET row == [job[r] EXCEPT !.leased = FALSE]
                    IN  row.status = job[r].status /\ row.kind = job[r].kind
                        /\ row.owner = job[r].owner
                 /\ LET row == [job[r] EXCEPT !.settled = TRUE]
                    IN  row.status = job[r].status /\ row.kind = job[r].kind
                        /\ row.owner = job[r].owner
      BY <1>1 DEF TypeInv, TypeOK, Job
    <2>2. CASE UNCHANGED job
      BY <2>2
    <2>3. ASSUME NEW q \in Revisions, LeaseRunsOut(q)  PROVE <1>4!:
      BY <1>1, <2>1, <2>3 DEF LeaseRunsOut, TypeInv, TypeOK
    <2>4. ASSUME NEW q \in Revisions, Settle(q)  PROVE <1>4!:
      BY <1>1, <2>1, <2>4 DEF Settle, TypeInv, TypeOK
    <2> QED
      BY <2>2, <2>3, <2>4 DEF TimeStep, Crash, rows
  <1>5. DraftsServed
    BY <1>1, <1>2, <1>4, SilentMeansServed DEF DraftsServed, Served
  <1> QED
    BY <1>3, <1>4, <1>5 DEF NoNewHold, HoldKept

\* No draft is forgotten: a draft that waits to be read has a live parse job,
\* and one with content but no index has an index job that is live or failed,
\* whatever leases end and whichever workers die.
THEOREM DraftsAreServed == Spec => []NoSilentDraft
  <1>1. IngestionInit => DraftInv
    <2>1. IngestionInit => \A r \in Revisions : Served(revision[r], job[r])
      <3>1. \A j : Served(NoRow, j)
        BY DEF Served, NoRow
      <3> QED
        BY <3>1, FreshRowsServed DEF IngestionInit, Init, Reasons
    <2>2. IngestionInit => HoldsItsKind
      BY DEF IngestionInit, InitWorkers, NoClaim, HoldsItsKind
    <2> QED
      BY <2>1, <2>2, TypeInit, SilentMeansServed DEF DraftInv
  <1>2. DraftInv /\ [Next]_vars => DraftInv'
    <2> SUFFICES ASSUME DraftInv, [Next]_vars  PROVE DraftInv'
      OBVIOUS
    <2>1. TypeInv /\ TypeInv' /\ HoldsItsKind
      BY TypeStep DEF DraftInv
    <2>2. ASSUME NoNewHold /\ DraftsServed  PROVE DraftInv'
      BY <2>1, <2>2, NoNewHoldKeeps, SilentMeansServed DEF DraftInv
    <2>3. CASE UNCHANGED vars
      BY <2>3 DEF vars, DraftInv, TypeInv, TypeOK, ClaimsARevision, HoldsItsKind, HoldsJob,
         JobOf, NoSilentDraft, Draft, Revisions
    <2>4. ASSUME NEW w \in Workers, Claims(w)  PROVE DraftInv'
      BY <2>1, <2>4, ClaimsForDrafts, SilentMeansServed DEF DraftInv
    <2>5. ASSUME NEW w \in Workers, ParseStep(w) \/ IndexStep(w)  PROVE DraftInv'
      BY <2>2, <2>5, ParseForDrafts, IndexForDrafts
    <2>6. CASE TeacherStep \/ TimeStep \/ \E w \in Workers : Crash(w)
      BY <2>2, <2>6, TeacherForDrafts, OthersForDrafts
    <2> QED
      BY <2>3, <2>4, <2>5, <2>6 DEF Next, WorkerStep
  <1>3. DraftInv => NoSilentDraft
    BY DEF DraftInv
  <1> QED
    BY <1>1, <1>2, <1>3, PTL DEF Spec

=============================================================================
