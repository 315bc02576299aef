------------------------------ MODULE Ingestion ------------------------------
(***************************************************************************)
(* The document pipeline: the teacher's transactions and the workers on    *)
(* the rows of one document, and what must hold of them.                   *)
(***************************************************************************)
EXTENDS DocumentEdits, IngestionWorker

vars == <<document, revision, job, claim, faults>>

IngestionInit == Init /\ InitWorkers

TeacherStep ==
    /\ \/ \E r \in Revisions :
            \/ UploadReplacement(r)
            \/ PublishRevision(r)
            \/ EditInPlace(r)
       \/ \E parent, r \in Revisions :
            \/ EditCopy(parent, r)
            \/ RequestReparse(parent, r)
       \/ Archive
       \/ Restore
       \/ MarkDeleted
    /\ UNCHANGED <<claim, faults>>

Claims(w) == \E kind \in Kinds, r \in Revisions : ClaimJob(w, kind, r)

ParseStep(w) ==
    \/ MarkProcessing(w)
    \/ ExtendLease(w)
    \/ \E unread \in BOOLEAN : CommitParsed(w, unread)
    \/ DropParsed(w)
    \/ RejectSource(w)
    \/ StopBeforeLeaseEnds(w)
    \/ BreakParse(w)
    \/ CommitFailed(w)
    \/ Requeue(w)

IndexStep(w) ==
    \/ Snapshot(w)
    \/ IndexAndPublish(w)
    \/ IndexForReview(w)
    \/ BreakIndex(w)
    \/ Retry(w)

WorkerStep(w) == Claims(w) \/ ParseStep(w) \/ IndexStep(w)

TimeStep == \E r \in Revisions : LeaseRunsOut(r) \/ Settle(r)

Next ==
    \/ TeacherStep
    \/ \E w \in Workers : WorkerStep(w) \/ Crash(w)
    \/ TimeStep

Spec == IngestionInit /\ [][Next]_vars

\* The worker loop never stops by itself (run_forever), a claimed step ends
\* (page timeout, read budget, client timeouts) and time passes: the lease of a
\* worker that is gone runs out, and not_before comes. Nothing obliges a
\* teacher to act, a worker to crash or a live worker to overrun its lease.
Fairness ==
    /\ \A w \in Workers : WF_vars(ParseStep(w)) /\ WF_vars(IndexStep(w))
    /\ WF_vars(\E w \in Workers : Claims(w))
    /\ \A r \in Revisions : WF_vars(~Attended(r) /\ LeaseRunsOut(r)) /\ WF_vars(Settle(r))

FairSpec == Spec /\ Fairness

-----------------------------------------------------------------------------
(* Invariants *)

\* Every variable has its type.
TypeOK ==
    /\ document \in Document
    /\ revision \in [Revisions -> Revision]
    /\ job \in [Revisions -> Job]
    /\ claim \in [Workers -> Claim]
    /\ faults \in Nat

\* Students read one revision: while a document is not deleted, the published
\* revision is the current one and there is no other (publish_revision).
OnePublished ==
    document.lifecycle # "deleted" =>
        \A r \in Revisions :
            revision[r].publication = "published" <=> document.current = r

\* No draft is forgotten: a draft that waits to be read has a live parse job, a
\* draft with content but no index has an index job that is live or has failed.
\* The comment in _commit_parsed: "a queued task, not a silent parsed draft".
NoSilentDraft ==
    document.lifecycle # "deleted" =>
        \A r \in Revisions : Draft(r) =>
            /\ revision[r].processing \in {"queued", "processing"} =>
                   job[r].kind = "parse" /\ job[r].status \in {"queued", "processing"}
            /\ revision[r].processing = "parsed" =>
                   job[r].kind = "index" /\ job[r].status \in {"queued", "processing", "failed"}

\* What search finds is what the page shows: an index was always cut from the
\* content its revision has now, although blocks are read and embedded outside
\* the transaction that stores the chunks.
IndexCoversContent ==
    \A r \in Revisions :
        revision[r].index # NoIndex => revision[r].index = revision[r].content

-----------------------------------------------------------------------------
(* Action properties *)

SnapshotKept(r) ==
    revision[r].publication \in {"published", "superseded"} =>
        revision'[r] \in {revision[r], [revision[r] EXCEPT !.publication = "superseded"]}

\* A snapshot students could see never changes again: a published revision can
\* only become superseded, and a superseded one nothing (protect_snapshots).
SnapshotsFrozen == [][\A r \in Revisions : SnapshotKept(r)]_vars

Outdated(w) == claim[w].generation # document.generation \/ document.lifecycle # "active"

WritesOnlyItsClaim(w) ==
    claim[w].step # "idle" /\ claim'[w] # claim[w] =>
        /\ ~HoldsJob(w) => UNCHANGED rows
        /\ Outdated(w) => UNCHANGED <<document, revision>>

\* ARCHITECTURE.md, Queue: "A result from a lost claim, from an old generation
\* or for a deleted document writes nothing." A worker that no longer holds its
\* job leaves every row alone; one that holds it but saw another generation
\* leaves the document and its revisions alone.
StaleResultsWriteNothing == [][\A w \in Workers : WritesOnlyItsClaim(w)]_vars

Stage(r) == IF ~Exists(r) THEN 0
            ELSE CASE revision[r].processing = "queued" -> 1
                   [] revision[r].processing = "processing" -> 2
                   [] revision[r].processing = "parsed" -> 3
                   [] OTHER -> 4

GoesOn(r) == /\ Stage(r)' >= Stage(r)
             /\ Stage(r) = 4 => revision'[r].processing = revision[r].processing

\* A worker's result is what makes a revision go on, and it counts once: a
\* revision never goes back to an earlier stage of its processing, so two
\* workers on one job cannot both store a result.
ResultsAreStoredOnce == [][\A r \in Revisions : GoesOn(r)]_vars

-----------------------------------------------------------------------------
(* What readers are promised *)

Published == INSTANCE PublishedDocument WITH
    lifecycle <- document.lifecycle,
    current   <- document.current,
    retired   <- {r \in Revisions : revision[r].publication = "superseded"}

\* The pipeline implements the abstract document.
ReadersPromise == Published!PublicationSpec

-----------------------------------------------------------------------------
(* Liveness *)

Waiting(r) == job[r].status \in {"queued", "processing"}

\* While the document stays active, every job is settled: its draft is
\* published, waits for the teacher, or has failed. It needs no teacher.
JobsSettle ==
    \A r \in Revisions : Waiting(r) ~> (~Waiting(r) \/ document.lifecycle # "active")

-----------------------------------------------------------------------------
(* What the documentation says and the code does not do *)

\* ARCHITECTURE.md, Queue: "A job whose lease ran out is claimed again, up to 3
\* attempts." No worker works on a claim over the limit.
WorkedWithinAttempts ==
    \A w \in Workers :
        claim[w].step \in {"claimed", "reading", "embedding"} => claim[w].attempts <= MaxAttempts

\* API.md: a revision is superseded when it is "replaced by a newer one". What
\* a worker publishes by itself (its job was being processed) is newer than
\* what students read so far.
AutoPublish(r) == /\ document'.current = r /\ document.current # r
                  /\ job[r].status = "processing"

ReplacedByNewer ==
    [][\A r \in Revisions : AutoPublish(r) => r > document.current]_vars

=============================================================================
