-------------------------- MODULE DocumentVersions --------------------------
(***************************************************************************)
(* The rows of one structured document and the transactions the teacher    *)
(* endpoints run on them: backend/app/services/document_versions.py,       *)
(* structured_upload.py and document_cleanup.py (mark_deleted).            *)
(*                                                                         *)
(* Documents share nothing but the queue, so one document is modelled.     *)
(* Every transaction starts with a compare-and-swap on the document's      *)
(* generation (_cas), which also locks the row: a transaction is one step. *)
(* A request that names a stale generation is refused and rolled back; it  *)
(* changes nothing, so only the accepted requests are steps.               *)
(***************************************************************************)
EXTENDS Integers

CONSTANTS
    Workers,        \* the worker processes
    NoWorker,       \* no lock token on a job row
    MaxRevisions,   \* bound: revisions of the document
    MaxGeneration,  \* bound: from this generation on teachers only delete
    MaxEdits        \* bound: content versions of one draft

ASSUME WorkersAssumption == NoWorker \notin Workers
ASSUME BoundsAssumption ==
    /\ MaxRevisions \in Nat \ {0}
    /\ MaxGeneration \in Nat
    /\ MaxEdits \in Nat \ {0}

VARIABLES
    document,   \* the documents row: lifecycle, generation, current revision
    revision,   \* the document_revisions rows, numbered in creation order
    job         \* the ingestion_jobs row of each revision (uq_job_revision)

rows == <<document, revision, job>>

Revisions  == 1 .. MaxRevisions
NoRevision == 0
NoIndex    == 0

Lifecycles   == {"active", "archived", "deleted"}
Publications == {"none", "draft", "published", "superseded"}
Processings  == {"queued", "processing", "parsed", "ready", "partial", "failed"}
Reasons      == {"upload", "reparse", "teacher_edit"}
Statuses     == {"none", "queued", "processing", "done", "failed"}
Kinds        == {"parse", "index"}

Document == [lifecycle: Lifecycles, generation: Nat,
             current: Revisions \cup {NoRevision}]

\* content numbers the states of the revision's blocks (0: none stored yet);
\* index is the content the chunks were cut from (NoIndex: index_ready is
\* false); unread says that some page could not be read.
Revision == [publication: Publications, processing: Processings, reason: Reasons,
             unread: BOOLEAN, content: Nat, index: Nat]

\* owner stands for lock_token: a worker process has one claim at a time, so
\* "the token of my claim" is "the job's last claim is mine". leased says that
\* lease_expires_at is in the future, settled that not_before has passed.
Job == [status: Statuses, kind: Kinds, attempts: Nat,
        owner: Workers \cup {NoWorker}, leased: BOOLEAN, settled: BOOLEAN]

NoRow == [publication |-> "none", processing |-> "queued", reason |-> "upload",
          unread |-> FALSE, content |-> 0, index |-> NoIndex]

EmptyDraft(reason) == [NoRow EXCEPT !.publication = "draft", !.reason = reason]

NoJob == [status |-> "none", kind |-> "parse", attempts |-> 0,
          owner |-> NoWorker, leased |-> FALSE, settled |-> TRUE]

QueuedJob(kind, settled) ==
    [NoJob EXCEPT !.status = "queued", !.kind = kind, !.settled = settled]

-----------------------------------------------------------------------------
Exists(r) == revision[r].publication # "none"
Draft(r)  == revision[r].publication = "draft"

\* The number the next inserted revision gets.
Fresh(r) == /\ ~Exists(r)
            /\ \A q \in Revisions : q < r => Exists(q)

\* _cas for a teacher's request, which names the generation it saw.
TeacherMay(lifecycle) == /\ document.lifecycle = lifecycle
                         /\ document.generation < MaxGeneration

Bumped == [document EXCEPT !.generation = @ + 1]

\* validate_publishable of a row; its chunk checks say that the chunks are
\* exact slices covering the stored content.
Publishable(row) == /\ row.publication = "draft"
                    /\ row.processing \in {"ready", "partial"}
                    /\ row.index # NoIndex
                    /\ row.index = row.content
                    /\ row.processing = "ready" => ~row.unread

\* Mutant: the revision that was current stays published.
WithPublishedKeepingOld(table, r) ==
    [table EXCEPT ![r].publication = "published"]

\* publish_revision on the revision rows table.
WithPublished(table, r) ==
    [q \in Revisions |->
        IF q = r THEN [table[q] EXCEPT !.publication = "published"]
        ELSE IF q = document.current
             THEN [table[q] EXCEPT !.publication = "superseded"]
             ELSE table[q]]

-----------------------------------------------------------------------------
\* new_document and register_source of the first upload, committed together.
Init ==
    /\ document = [lifecycle |-> "active", generation |-> 1, current |-> NoRevision]
    /\ revision = [r \in Revisions |-> IF r = 1 THEN EmptyDraft("upload") ELSE NoRow]
    /\ job = [r \in Revisions |-> IF r = 1 THEN QueuedJob("parse", TRUE) ELSE NoJob]

\* An upload in mode=replace: register_source and its pdf_parse job. The same
\* file again finds its source and changes nothing.
UploadReplacement(r) ==
    /\ TeacherMay("active")
    /\ Fresh(r)
    /\ document' = Bumped
    /\ revision' = [revision EXCEPT ![r] = EmptyDraft("upload")]
    /\ job' = [job EXCEPT ![r] = QueuedJob("parse", TRUE)]

\* The teacher publishes a draft; for a partial one acknowledge_issues is set.
PublishRevision(r) ==
    /\ TeacherMay("active")
    /\ Publishable(revision[r])
    /\ document' = [Bumped EXCEPT !.current = r]
    /\ revision' = WithPublished(revision, r)
    /\ UNCHANGED job

\* set_archived in both directions: jobs and drafts stay as they are.
SetArchived(from, to) ==
    /\ TeacherMay(from)
    /\ document' = [Bumped EXCEPT !.lifecycle = to]
    /\ UNCHANGED <<revision, job>>

Archive == SetArchived("active", "archived")
Restore == SetArchived("archived", "active")

\* mark_deleted: the document's jobs go in the same transaction.
MarkDeleted ==
    /\ document.lifecycle # "deleted"
    /\ document' = [Bumped EXCEPT !.lifecycle = "deleted", !.current = NoRevision]
    /\ job' = [r \in Revisions |-> NoJob]
    /\ UNCHANGED revision

=============================================================================
