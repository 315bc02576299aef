----------------------------- MODULE StagedFiles -----------------------------
(***************************************************************************)
(* The files of one structured document and the rows that own them:        *)
(* document_storage.py, document_cleanup.py, the file side of              *)
(* structured_upload.py and of structured_ingest.py.  No transaction spans *)
(* the database and the disk, so every key is first written to the ledger  *)
(* (document_staged_objects) with a lease; a source or asset row takes     *)
(* over from the ledger, and what nobody takes over is swept.              *)
(*                                                                         *)
(* A key is made for one writing attempt and never used again, so keys and *)
(* attempts are the same set here: Uploads write a source file, Parses     *)
(* (claims of the document's parse job) an asset file.                     *)
(***************************************************************************)
EXTENDS FiniteSets, Integers

CONSTANTS
    Uploads,        \* upload requests
    Parses,         \* claims of the parse job, one worker attempt each
    First,          \* the upload with mode=new that makes the document
    Twins,          \* uploads of one and the same bytes; others differ
    None,
    MaxGeneration,  \* bound on the generation other changes reach
    MaxOverruns     \* bound on leases that pass under their writer's hands

\* Assumed of the constants wherever the module is instantiated.
StagedAssumption ==
    /\ First \in Uploads /\ Twins \subseteq Uploads
    /\ Uploads \cap Parses = {} /\ None \notin Uploads \cup Parses

Keys == Uploads \cup Parses

VARIABLES
    life,        \* the document: "none", "active" or "deleted"
    generation,
    row,         \* the keys a committed source or asset row owns
    ledger,      \* the keys in document_staged_objects
    passed,      \* the attempts whose lease has passed
    file,        \* what is on disk for a key: nothing, ".part" or the file
    at,          \* where each attempt is
    seen,        \* the generation each attempt was started for
    reads,       \* the source a parse attempt reads
    holder,      \* the claim that holds the parse job
    cleanup,     \* the document's cleanup job
    overruns

disk == <<file>>
document == <<life, generation>>
attempts == <<at, seen, reads, holder>>
vars == <<life, generation, row, ledger, passed, file, at, seen, reads,
          holder, cleanup, overruns>>

Steps == {"idle", "begun", "staged", "writing", "written", "checked",
          "discarding", "done"}

Sources == row \cap Uploads

\* DocumentCleanupJob: its state and the keys it still has to remove.
NoCleanup == [state |-> "none", remaining |-> {}]

SameBytes(u, v) == u = v \/ {u, v} \subseteq Twins

Init ==
    /\ life = "none" /\ generation = 0
    /\ row = {} /\ ledger = {} /\ passed = {}
    /\ file = [k \in Keys |-> "none"]
    /\ at = [k \in Keys |-> "idle"]
    /\ seen = [k \in Keys |-> 0]
    /\ reads = [p \in Parses |-> None]
    /\ holder = None
    /\ cleanup = NoCleanup
    /\ overruns = 0

\* No transaction of a worker holds the lock of the document's row.
Unlocked == \A p \in Parses : at[p] # "checked"

\* Mutant: a file is discarded without a look at the rows that own it.
AlwaysUnowned(k) == k \in Keys

\* No committed source or asset row owns the key.
Unowned(k) == k \notin row

\* Mutant: the cleanup does not wait for the leases of staged files.
AllStaged == ledger

\* The ledger rows whose writer's lease has passed.
Due == ledger \cap passed

\* mark_deleted: the keys of all sources and of all their assets.
OwnedKeys == row

\* The generation a writer starts from and compares at its commit.
StartGeneration == generation

Goes(k, from, to) == at[k] = from /\ at' = [at EXCEPT ![k] = to]

-----------------------------------------------------------------------------
(* An upload request: _upload_structured. *)

\* mode=replace: the document the teacher sees, in its own transaction. Bytes
\* that are registered already end the request here.
BeginReplace(u) ==
    /\ u \in Uploads \ {First} /\ life = "active"
    /\ ~\E v \in Sources : SameBytes(u, v)
    /\ Goes(u, "idle", "begun")
    /\ seen' = [seen EXCEPT ![u] = StartGeneration]
    /\ UNCHANGED <<document, row, ledger, passed, disk, reads, holder, cleanup, overruns>>

\* The ledger row is committed before the file is written; the document may
\* not exist yet (mode=new) or no longer.
StageUpload(u) ==
    /\ u \in Uploads
    /\ Goes(u, IF u = First THEN "idle" ELSE "begun", "staged")
    /\ ledger' = ledger \cup {u}
    /\ UNCHANGED <<document, row, passed, disk, seen, reads, holder, cleanup, overruns>>

UploadMayCommit(u) ==
    IF u = First
        THEN life = "none"
        ELSE /\ life = "active" /\ generation = seen[u]
             /\ ~\E v \in Sources : SameBytes(u, v)

\* register_source: the row, the generation and the ledger in one transaction.
\* If the answer to the COMMIT is lost, the request goes on to discard_staged.
CommitUpload(u) ==
    /\ u \in Uploads
    /\ Unlocked
    /\ UploadMayCommit(u)
    /\ \E next \in {"done", "discarding"} : Goes(u, "written", next)
    /\ life' = "active" /\ generation' = generation + 1
    /\ row' = row \cup {u} /\ ledger' = ledger \ {u}
    /\ UNCHANGED <<passed, disk, seen, reads, holder, cleanup, overruns>>

\* A conflict, or a twin that was registered first.
RefuseUpload(u) ==
    /\ u \in Uploads /\ ~UploadMayCommit(u)
    /\ Goes(u, "written", "discarding")
    /\ UNCHANGED <<document, row, ledger, passed, disk, seen, reads, holder, cleanup, overruns>>

-----------------------------------------------------------------------------
(* write_object, for both kinds of writer. *)

WritePart(k) ==
    /\ k \in Parses => k \notin passed
    /\ Goes(k, "staged", "writing")
    /\ file[k] = "none" /\ file' = [file EXCEPT ![k] = "part"]
    /\ UNCHANGED <<document, row, ledger, passed, seen, reads, holder, cleanup, overruns>>

LinkFile(k) ==
    /\ Goes(k, "writing", "written")
    /\ file[k] = "part" /\ file' = [file EXCEPT ![k] = "whole"]
    /\ UNCHANGED <<document, row, ledger, passed, seen, reads, holder, cleanup, overruns>>

\* The disk fails, or somebody removed the part: the part is unlinked.
FailWrite(k) ==
    /\ Goes(k, "writing", "discarding")
    /\ file' = [file EXCEPT ![k] = "none"]
    /\ UNCHANGED <<document, row, ledger, passed, seen, reads, holder, cleanup, overruns>>

\* discard_staged and _discard: a file that a row owns stays. Best effort: the
\* rollback of a failed discard leaves the ledger row, with or without a file.
Discard(k) ==
    /\ Goes(k, "discarding", "done")
    /\ \E removes, commits \in BOOLEAN :
        /\ commits => removes
        /\ file' = [file EXCEPT ![k] = IF removes /\ Unowned(k) THEN "none" ELSE @]
        /\ ledger' = IF commits THEN ledger \ {k} ELSE ledger
    /\ holder' \in {holder, IF holder = k THEN None ELSE holder}
    /\ UNCHANGED <<document, row, passed, seen, reads, cleanup, overruns>>

-----------------------------------------------------------------------------
(* A parse attempt: process_structured_job. *)

\* claim_structured_job: a job nobody holds, or whose lease has passed.
ClaimParse(p) ==
    /\ p \in Parses /\ life = "active"
    /\ Unlocked /\ holder \in passed \cup {None}
    /\ Goes(p, "idle", "begun")
    /\ \E s \in Sources : reads' = [reads EXCEPT ![p] = s]
    /\ holder' = p
    /\ seen' = [seen EXCEPT ![p] = StartGeneration]
    /\ UNCHANGED <<document, row, ledger, passed, disk, cleanup, overruns>>

\* _locked.
HoldsClaim(p) ==
    /\ life = "active" /\ holder = p /\ p \notin passed
    /\ generation = seen[p]

\* The asset of this source that an earlier attempt stored is used again.
Reused(p) == {q \in row \cap Parses : reads[q] = reads[p]}

\* _stage: the ledger row takes the job's lease.
StageParse(p) ==
    /\ p \in Parses /\ HoldsClaim(p)
    /\ IF Reused(p) = {}
           THEN Goes(p, "begun", "staged") /\ ledger' = ledger \cup {p}
           ELSE Goes(p, "begun", "written") /\ ledger' = ledger
    /\ UNCHANGED <<document, row, passed, disk, seen, reads, holder, cleanup, overruns>>

\* _commit_parsed looks at the claim and the lease when it locks the document...
CheckClaim(p) ==
    /\ p \in Parses /\ HoldsClaim(p)
    /\ Goes(p, "written", "checked")
    /\ UNCHANGED <<document, row, ledger, passed, disk, seen, reads, holder, cleanup, overruns>>

\* ... and commits after it has written every page and block.
CommitParse(p) ==
    /\ p \in Parses
    /\ Goes(p, "checked", "done")
    /\ row' = IF Reused(p) = {} THEN row \cup {p} ELSE row
    /\ ledger' = ledger \ {p}
    /\ generation' = generation + 1 /\ holder' = None
    /\ UNCHANGED <<life, passed, disk, seen, reads, cleanup, overruns>>

\* StaleClaim, JobFailed or an error on the way.
StopParse(p) ==
    /\ p \in Parses /\ at[p] \in {"begun", "staged", "written", "checked"}
    /\ at' = [at EXCEPT ![p] = "discarding"]
    /\ UNCHANGED <<document, row, ledger, passed, disk, seen, reads, holder, cleanup, overruns>>

-----------------------------------------------------------------------------
(* The document, the sweep and the cleanup. *)

\* Any other change of the document: an edit, a publication.
Change ==
    /\ life = "active" /\ Unlocked /\ generation < MaxGeneration
    /\ generation' = generation + 1
    /\ UNCHANGED <<life, row, ledger, passed, disk, attempts, cleanup, overruns>>

\* mark_deleted: the jobs go, and the cleanup gets the keys of every row.
MarkDeleted ==
    /\ life = "active" /\ Unlocked
    /\ life' = "deleted" /\ generation' = generation + 1
    /\ cleanup' = [state |-> "pending", remaining |-> OwnedKeys]
    /\ holder' = None
    /\ UNCHANGED <<row, ledger, passed, disk, at, seen, reads, overruns>>

Removed(keys) == [k \in Keys |-> IF k \in keys THEN "none" ELSE file[k]]

\* run_cleanup, up to the first key whose file cannot be removed.
CleanupFails ==
    /\ life = "deleted" /\ cleanup.state # "complete"
    /\ \E gone \in SUBSET cleanup.remaining :
        /\ gone # cleanup.remaining
        /\ file' = Removed(gone)
        /\ cleanup' = [state |-> "failed", remaining |-> cleanup.remaining \ gone]
    /\ UNCHANGED <<document, row, ledger, passed, attempts, overruns>>

\* The process dies in run_cleanup: files are gone, every row is still there.
CleanupCrashes ==
    /\ life = "deleted" /\ cleanup.state # "complete"
    /\ \E gone \in SUBSET (cleanup.remaining \cup Due) :
           file' = Removed(gone)
    /\ UNCHANGED <<document, row, ledger, passed, attempts, cleanup, overruns>>

\* Every owned file is removed and every staged one whose lease has passed.
\* While another staged key waits for its lease the cleanup is not complete.
RunCleanup ==
    /\ life = "deleted" /\ cleanup.state # "complete"
    /\ file' = Removed(cleanup.remaining \cup Due)
    /\ ledger' = ledger \ Due
    /\ IF ledger' = {}
           THEN /\ cleanup' = [state |-> "complete", remaining |-> {}]
                /\ row' = {}
           ELSE /\ cleanup' = [state |-> "failed", remaining |-> {}]
                /\ row' = row
    /\ UNCHANGED <<document, passed, attempts, overruns>>

\* sweep_staged_objects, one ledger row: the file goes before the row, and a
\* worker that dies in between leaves the row for the next sweep.
Sweep(k) ==
    /\ k \in Due
    /\ file' = IF Unowned(k) THEN Removed({k}) ELSE file
    /\ ledger' \in {ledger, ledger \ {k}}
    /\ UNCHANGED <<document, row, passed, attempts, cleanup, overruns>>

\* Where the lease ends after the writer's own checks: a worker inside one
\* write or inside its last transaction, an upload at any point (no upload
\* looks at its lease).
Working(k) ==
    \/ k \in Parses /\ at[k] \in {"writing", "checked"}
    \/ k \in Uploads /\ at[k] \in {"staged", "writing", "written", "discarding"}

LeasePasses(k) ==
    /\ k \in ledger \/ k = holder
    /\ k \notin passed /\ passed' = passed \cup {k}
    /\ Working(k) => overruns < MaxOverruns
    /\ overruns' = overruns + (IF Working(k) THEN 1 ELSE 0)
    /\ UNCHANGED <<document, row, ledger, disk, attempts, cleanup>>

\* The process of an attempt dies; transactions roll back, files stay.
Crash(k) ==
    /\ at[k] \notin {"idle", "done"}
    /\ at' = [at EXCEPT ![k] = "done"]
    /\ UNCHANGED <<document, row, ledger, passed, disk, seen, reads, holder, cleanup, overruns>>

WriterStep(k) ==
    \/ StageUpload(k) \/ CommitUpload(k) \/ RefuseUpload(k)
    \/ WritePart(k) \/ LinkFile(k) \/ FailWrite(k) \/ Discard(k)
    \/ StageParse(k) \/ CheckClaim(k) \/ CommitParse(k) \/ StopParse(k)

Next ==
    \/ \E k \in Keys :
        \/ WriterStep(k) \/ BeginReplace(k) \/ ClaimParse(k)
        \/ Sweep(k) \/ LeasePasses(k) \/ Crash(k)
    \/ Change \/ MarkDeleted
    \/ CleanupFails \/ CleanupCrashes \/ RunCleanup

\* A writer that has begun goes on or dies; time passes; the worker sweeps
\* between its jobs and the cleanup script is scheduled; neither meets an
\* error of the disk for ever.
Fairness ==
    /\ \A k \in Keys :
        /\ WF_vars(at[k] # "idle" /\ WriterStep(k))
        /\ WF_vars(LeasePasses(k))
        /\ WF_vars(k \in Due /\ Sweep(k) /\ k \notin ledger')
    /\ WF_vars(RunCleanup)

Spec == Init /\ [][Next]_vars /\ Fairness

-----------------------------------------------------------------------------
TypeOK ==
    /\ life \in {"none", "active", "deleted"} /\ generation \in Nat /\ overruns \in Nat
    /\ row \subseteq Keys /\ ledger \subseteq Keys /\ passed \subseteq Keys
    /\ file \in [Keys -> {"none", "part", "whole"}]
    /\ at \in [Keys -> Steps] /\ seen \in [Keys -> Nat]
    /\ reads \in [Parses -> Uploads \cup {None}]
    /\ holder \in Parses \cup {None}
    /\ cleanup.state \in {"none", "pending", "failed", "complete"}
    /\ cleanup.remaining \subseteq Keys

\* A source or asset row of a document that is not deleted has its whole file,
\* whatever uploads, workers, sweeps and lost answers did in between.
OwnedFilesExist == life = "active" => \A k \in row : file[k] = "whole"

\* No file is lost: what is on disk is in the ledger, or belongs to a row, or
\* waits in the cleanup of the deleted document.
NoLostFiles ==
    \A k \in Keys : file[k] # "none" =>
        k \in ledger \cup (IF life = "deleted" THEN cleanup.remaining ELSE row)

\* A deleted document ends without rows, ledger entries and files, those of
\* uploads and workers that were under way when it was deleted included.
Purged == row = {} /\ ledger = {} /\ \A k \in Keys : file[k] = "none"
DeletedIsPurged == life = "deleted" ~> [](life = "deleted" /\ Purged)

\* A completed cleanup leaves no file of the document behind.
CompleteMeansGone ==
    cleanup.state = "complete" => \A k \in Keys : file[k] = "none"
=============================================================================
