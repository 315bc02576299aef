--------------------------- MODULE IngestionWorker ---------------------------
(***************************************************************************)
(* The document workers: backend/worker/queue.py (claims),                 *)
(* structured_ingest.py (pdf_parse jobs) and structured_index.py           *)
(* (pdf_index jobs). Each worker runs one job at a time; every step below  *)
(* is one database transaction, and the worker may be overtaken, lose its  *)
(* lease or die between two of them.                                       *)
(***************************************************************************)
EXTENDS DocumentVersions

CONSTANTS
    MaxAttempts,    \* STRUCTURED_MAX_ATTEMPTS
    MaxFaults       \* bound: crashes, and leases that end under a live worker

ASSUME FaultsAssumption == MaxAttempts \in Nat /\ MaxFaults \in Nat

VARIABLES
    claim,      \* what each worker process holds in memory (StructuredClaim)
    faults      \* crashes and overrun leases so far

Steps == {"idle", "claimed", "reading", "failing", "requeueing",
          "embedding", "retrying"}

Claim == [step: Steps, revision: Revisions \cup {NoRevision}, kind: Kinds,
          generation: Nat, attempts: Nat, content: Nat, counted: BOOLEAN]

NoClaim == [step |-> "idle", revision |-> NoRevision, kind |-> "parse",
            generation |-> 0, attempts |-> 0, content |-> 0, counted |-> FALSE]

InitWorkers == claim = [w \in Workers |-> NoClaim] /\ faults = 0

At(w, kind, step) == claim[w].step = step /\ claim[w].kind = kind
GoTo(w, step) == claim' = [claim EXCEPT ![w].step = step]
Release(w)    == claim' = [claim EXCEPT ![w] = NoClaim]

JobOf(w) == job[claim[w].revision]
RevisionOf(w) == revision[claim[w].revision]

-----------------------------------------------------------------------------
(* Claims *)

\* Mutant: a job whose lease ran out is not claimed again.
ClaimableQueuedOnly(r, kind) ==
    job[r].kind = kind /\ job[r].status = "queued" /\ job[r].settled

Claimable(r, kind) ==
    /\ job[r].kind = kind
    /\ \/ job[r].status = "queued" /\ job[r].settled
       \/ job[r].status = "processing" /\ ~job[r].leased

\* ORDER BY priority, created_at: a job row is as old as its revision.
FirstClaimable(r, kind) ==
    /\ Claimable(r, kind)
    /\ \A q \in Revisions : q < r => ~Claimable(q, kind)

\* What a claim writes into the job row, and what the worker keeps of it.
ClaimedJob(row, w) ==
    [row EXCEPT !.status = "processing", !.attempts = row.attempts + 1,
                !.owner = w, !.leased = TRUE]

NewClaim(r, kind) ==
    [step       |-> IF kind = "parse" /\ job[r].attempts + 1 > MaxAttempts
                    THEN "failing" ELSE "claimed",
     revision   |-> r, kind |-> kind, generation |-> document.generation,
     attempts   |-> job[r].attempts + 1, content |-> 0, counted |-> FALSE]

\* claim_structured_job. A tick asks for a parse job first and for an index job
\* after that, in two transactions: a parse job may have come in between, so
\* either kind may be claimed at any time. A parse claim over the attempt limit
\* goes straight to JobFailed('attempts_exhausted').
ClaimJob(w, kind, r) ==
    /\ claim[w].step = "idle"
    /\ document.lifecycle = "active"
    /\ FirstClaimable(r, kind)
    /\ job' = [job EXCEPT ![r] = ClaimedJob(job[r], w)]
    /\ claim' = [claim EXCEPT ![w] = NewClaim(r, kind)]
    /\ UNCHANGED <<document, revision, faults>>

\* The token and status part of every re-check. A deleted document has no job.
HoldsJob(w) == JobOf(w).owner = w /\ JobOf(w).status = "processing"

\* _locked raises StaleClaim(requeue=True): the claim is still this worker's,
\* but the document was archived or changed since.
StaleButOwned(w) ==
    /\ HoldsJob(w) /\ JobOf(w).leased
    /\ \/ document.lifecycle # "active"
       \/ document.generation # claim[w].generation

\* Mutant: the lock token and the status of the job are not compared.
LockedWithoutToken(w) ==
    /\ JobOf(w).leased
    /\ document.lifecycle = "active"
    /\ document.generation = claim[w].generation
    /\ RevisionOf(w).publication = "draft"
    /\ RevisionOf(w).processing \in {"queued", "processing"}

\* _locked returns.
Locked(w) ==
    /\ HoldsJob(w) /\ JobOf(w).leased
    /\ document.lifecycle = "active"
    /\ document.generation = claim[w].generation
    /\ RevisionOf(w).publication = "draft"
    /\ RevisionOf(w).processing \in {"queued", "processing"}

-----------------------------------------------------------------------------
(* pdf_parse jobs *)

\* Mutant: the state is written without _locked.
MarkProcessingUnchecked(w) ==
    /\ At(w, "parse", "claimed")
    /\ revision' = [revision EXCEPT ![claim[w].revision].processing = "processing"]
    /\ GoTo(w, "reading")
    /\ UNCHANGED <<document, job, faults>>

\* _mark_processing; on a stale claim it only goes on to read.
MarkProcessing(w) ==
    /\ At(w, "parse", "claimed")
    /\ revision' = IF Locked(w)
                   THEN [revision EXCEPT ![claim[w].revision].processing = "processing"]
                   ELSE revision
    /\ GoTo(w, "reading")
    /\ UNCHANGED <<document, job, faults>>

\* _write_progress and _keep_lease push the lease while the worker reads.
ExtendLease(w) ==
    /\ At(w, "parse", "reading")
    /\ HoldsJob(w)
    /\ ~JobOf(w).leased
    /\ job' = [job EXCEPT ![claim[w].revision].leased = TRUE]
    /\ UNCHANGED <<document, revision, claim, faults>>

\* Mutant: the parse job is finished and nobody is asked to index the draft.
CommitParsedSilently(w, unread) ==
    /\ At(w, "parse", "reading")
    /\ Locked(w)
    /\ document' = Bumped
    /\ revision' = [revision EXCEPT ![claim[w].revision] =
           [@ EXCEPT !.processing = "parsed", !.content = 1, !.unread = unread]]
    /\ job' = [job EXCEPT ![claim[w].revision].status = "done"]
    /\ Release(w)
    /\ UNCHANGED faults

\* _commit_parsed: the draft gets its content and the job row becomes the
\* pdf_index job of the same revision. unread: MinerU could not read a page.
CommitParsed(w, unread) ==
    /\ At(w, "parse", "reading")
    /\ Locked(w)
    /\ document' = Bumped
    /\ revision' = [revision EXCEPT ![claim[w].revision] =
           [@ EXCEPT !.processing = "parsed", !.content = 1, !.unread = unread]]
    /\ job' = [job EXCEPT ![claim[w].revision] = QueuedJob("index", TRUE)]
    /\ Release(w)
    /\ UNCHANGED faults

\* StaleClaim from _stage or _commit_parsed: nothing is stored. Only a claim
\* that is still owned is given back; the other ways leave the job row alone.
DropParsed(w) ==
    /\ At(w, "parse", "reading")
    /\ ~Locked(w)
    /\ IF StaleButOwned(w) THEN GoTo(w, "requeueing") ELSE Release(w)
    /\ UNCHANGED <<rows, faults>>

\* JobFailed: the file cannot be processed.
RejectSource(w) ==
    /\ At(w, "parse", "reading")
    /\ GoTo(w, "failing")
    /\ UNCHANGED <<rows, faults>>

\* _stage stops before the lease ends (write_margin_seconds): the claim is
\* dropped and the job row keeps its lease.
StopBeforeLeaseEnds(w) ==
    /\ At(w, "parse", "reading")
    /\ Release(w)
    /\ UNCHANGED <<rows, faults>>

\* Any other exception: retried, and the attempt counts.
BreakParse(w) ==
    /\ claim[w].kind = "parse"
    /\ claim[w].step \in {"claimed", "reading"}
    /\ claim' = [claim EXCEPT ![w].step = "requeueing", ![w].counted = TRUE]
    /\ UNCHANGED <<rows, faults>>

\* Mutant: the job's status and its error message are swapped.
CommitFailedSwapped(w) ==
    /\ At(w, "parse", "failing")
    /\ Locked(w)
    /\ document' = Bumped
    /\ revision' = [revision EXCEPT ![claim[w].revision].processing = "failed"]
    /\ job' = [job EXCEPT ![claim[w].revision].status = "internal_error"]
    /\ Release(w)
    /\ UNCHANGED faults

\* _commit_failed.
CommitFailed(w) ==
    /\ At(w, "parse", "failing")
    /\ \/ /\ Locked(w)
          /\ document' = Bumped
          /\ revision' = [revision EXCEPT ![claim[w].revision].processing = "failed"]
          /\ job' = [job EXCEPT ![claim[w].revision].status = "failed"]
          /\ Release(w)
       \/ /\ ~Locked(w)
          /\ IF StaleButOwned(w) THEN GoTo(w, "requeueing") ELSE Release(w)
          /\ UNCHANGED rows
    /\ UNCHANGED faults

\* _requeue: a stale result gives its attempt back.
RequeuedJob(row, counted) ==
    [row EXCEPT !.status = "queued", !.leased = FALSE,
                !.attempts = IF counted \/ row.attempts = 0
                             THEN row.attempts ELSE row.attempts - 1]

Requeue(w) ==
    /\ At(w, "parse", "requeueing")
    /\ job' = IF ~HoldsJob(w) THEN job
              ELSE [job EXCEPT ![claim[w].revision] =
                       RequeuedJob(JobOf(w), claim[w].counted)]
    /\ Release(w)
    /\ UNCHANGED <<document, revision, faults>>

-----------------------------------------------------------------------------
(* pdf_index jobs *)

\* The re-check of _snapshot, which looks at everything but the lease.
SnapshotValid(w) ==
    /\ HoldsJob(w)
    /\ document.lifecycle = "active"
    /\ document.generation = claim[w].generation
    /\ RevisionOf(w).publication = "draft"
    /\ RevisionOf(w).processing = "parsed"

\* _snapshot: the blocks are read, then embedded outside any transaction.
Snapshot(w) ==
    /\ At(w, "index", "claimed")
    /\ SnapshotValid(w)
    /\ claim' = [claim EXCEPT ![w].step = "embedding", ![w].content = RevisionOf(w).content]
    /\ UNCHANGED <<rows, faults>>

\* lock_draft and the claim check at the head of _commit.
IndexValid(w) == SnapshotValid(w) /\ JobOf(w).kind = "index" /\ JobOf(w).leased

IndexedRow(w, processing) ==
    [RevisionOf(w) EXCEPT !.processing = processing, !.index = claim[w].content]

FinishedJob(w) == [job EXCEPT ![claim[w].revision].status = "done"]

\* _commit when every page was read and the savepoint with publish_revision
\* holds: the generation is bumped by both.
IndexAndPublish(w) ==
    /\ At(w, "index", "embedding")
    /\ IndexValid(w)
    /\ ~RevisionOf(w).unread
    /\ Publishable(IndexedRow(w, "ready"))
    /\ document' = [document EXCEPT !.generation = @ + 2, !.current = claim[w].revision]
    /\ revision' = WithPublished(
           [revision EXCEPT ![claim[w].revision] = IndexedRow(w, "ready")],
           claim[w].revision)
    /\ job' = FinishedJob(w)
    /\ Release(w)
    /\ UNCHANGED faults

\* _commit when a page was not read, or when the savepoint was rolled back
\* (publish_error): the index is kept and the teacher decides.
IndexForReview(w) ==
    /\ At(w, "index", "embedding")
    /\ IndexValid(w)
    /\ document' = Bumped
    /\ revision' = [revision EXCEPT ![claim[w].revision] = IndexedRow(w, "partial")]
    /\ job' = FinishedJob(w)
    /\ Release(w)
    /\ UNCHANGED faults

\* IndexConflict from _snapshot or _commit, no searchable block, or an error of
\* the embedding server.
BreakIndex(w) ==
    /\ claim[w].kind = "index"
    /\ claim[w].step \in {"claimed", "embedding"}
    /\ GoTo(w, "retrying")
    /\ UNCHANGED <<rows, faults>>

\* _retry: a job out of attempts fails, and the draft stays parsed.
RetriedJob(row, attempts) ==
    [row EXCEPT !.status = IF attempts >= MaxAttempts THEN "failed" ELSE "queued",
                !.leased = FALSE]

Retry(w) ==
    /\ At(w, "index", "retrying")
    /\ job' = IF ~HoldsJob(w) THEN job
              ELSE [job EXCEPT ![claim[w].revision] =
                       RetriedJob(JobOf(w), claim[w].attempts)]
    /\ Release(w)
    /\ UNCHANGED <<document, revision, faults>>

-----------------------------------------------------------------------------
(* Time and failures *)

\* The process that claimed the job still works on it.
Attended(r) == /\ job[r].owner \in Workers
               /\ claim[job[r].owner].step # "idle"
               /\ claim[job[r].owner].revision = r

\* lease_expires_at passes. Under a live worker that is a fault: the lease is
\* meant to be longer than one attempt.
LeaseRunsOut(r) ==
    /\ job[r].status = "processing"
    /\ job[r].leased
    /\ Attended(r) => faults < MaxFaults
    /\ faults' = IF Attended(r) THEN faults + 1 ELSE faults
    /\ job' = [job EXCEPT ![r].leased = FALSE]
    /\ UNCHANGED <<document, revision, claim>>

\* not_before passes.
Settle(r) ==
    /\ job[r].status = "queued"
    /\ ~job[r].settled
    /\ job' = [job EXCEPT ![r].settled = TRUE]
    /\ UNCHANGED <<document, revision, claim, faults>>

\* The process dies and is started again: its claim is gone, its job row is not.
Crash(w) ==
    /\ claim[w].step # "idle"
    /\ faults < MaxFaults
    /\ faults' = faults + 1
    /\ Release(w)
    /\ UNCHANGED rows

=============================================================================
