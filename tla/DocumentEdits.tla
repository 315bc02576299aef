---------------------------- MODULE DocumentEdits ----------------------------
(***************************************************************************)
(* The teacher's changes to the blocks of a structured document:           *)
(* backend/app/services/document_edits.py with clone_revision and          *)
(* check_edit_view of document_versions.py. edit_block, set_excluded and a *)
(* confirmed review all go through _new_edit_revision, so they are one     *)
(* operation here. A change that is refused later in the transaction       *)
(* ("no_change", a missing block) rolls everything back and is no step.    *)
(***************************************************************************)
EXTENDS DocumentVersions

\* Mutant: an edit draft takes edits whatever became of its index job.
TakesEditAnyDraft(r) == Draft(r) /\ revision[r].reason = "teacher_edit"

\* _postpone_index: the teacher's own edit draft whose index job still waits.
TakesEdit(r) ==
    /\ Draft(r)
    /\ r # document.current
    /\ revision[r].reason = "teacher_edit"
    /\ revision[r].processing = "parsed"
    /\ job[r].status = "queued"

\* clone_revision: what a copy with this reason may start from.
Clonable(r, reason) ==
    \/ r = document.current
    \/ /\ Draft(r)
       /\ reason = "teacher_edit" =>
              revision[r].processing \in {"parsed", "ready", "partial"}

\* The waiting draft takes the edit itself and waits EDIT_SETTLE_SECONDS more.
EditInPlace(r) ==
    /\ TeacherMay("active")
    /\ TakesEdit(r)
    /\ revision[r].content < MaxEdits
    /\ document' = Bumped
    /\ revision' = [revision EXCEPT ![r].content = @ + 1]
    /\ job' = [job EXCEPT ![r].settled = FALSE]

\* Any other revision is copied, the edit changes the copy, and the copy gets
\* an index job of its own that waits EDIT_SETTLE_SECONDS.
EditCopy(parent, r) ==
    /\ TeacherMay("active")
    /\ Clonable(parent, "teacher_edit")
    /\ ~TakesEdit(parent)
    /\ Fresh(r)
    /\ document' = Bumped
    /\ revision' = [revision EXCEPT ![r] =
           [EmptyDraft("teacher_edit") EXCEPT
               !.processing = "parsed", !.content = 1,
               !.unread = revision[parent].unread]]
    /\ job' = [job EXCEPT ![r] = QueuedJob("index", FALSE)]

\* request_reparse: an empty draft of the same source and a job to read it.
RequestReparse(parent, r) ==
    /\ TeacherMay("active")
    /\ Clonable(parent, "reparse")
    /\ Fresh(r)
    /\ document' = Bumped
    /\ revision' = [revision EXCEPT ![r] = EmptyDraft("reparse")]
    /\ job' = [job EXCEPT ![r] = QueuedJob("parse", TRUE)]

=============================================================================
