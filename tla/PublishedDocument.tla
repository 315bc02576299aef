-------------------------- MODULE PublishedDocument --------------------------
(***************************************************************************)
(* What a document promises to its readers, whatever the workers and the   *)
(* teachers do: students read one current revision at a time, a revision   *)
(* is published at most once, one that was replaced never comes back, an   *)
(* archived document does not change, and deletion is final. The source    *)
(* of the promise: document_versions.py and the states of                  *)
(* document_revisions.publication_state.                                   *)
(***************************************************************************)
EXTENDS Integers

CONSTANT Revisions

VARIABLES lifecycle, current, retired

NoRevision == 0

PublicationInit == lifecycle = "active" /\ current = NoRevision /\ retired = {}

Publish(r) ==
    /\ lifecycle = "active"
    /\ r \notin retired \cup {current}
    /\ current' = r
    /\ retired' = retired \cup ({current} \ {NoRevision})
    /\ UNCHANGED lifecycle

Shelve ==
    /\ lifecycle = "active" /\ lifecycle' = "archived"
    /\ UNCHANGED <<current, retired>>

Unshelve ==
    /\ lifecycle = "archived" /\ lifecycle' = "active"
    /\ UNCHANGED <<current, retired>>

Withdraw ==
    /\ lifecycle # "deleted" /\ lifecycle' = "deleted"
    /\ current' = NoRevision
    /\ UNCHANGED retired

PublicationNext ==
    \/ \E r \in Revisions : Publish(r)
    \/ Shelve \/ Unshelve \/ Withdraw

PublicationSpec ==
    PublicationInit /\ [][PublicationNext]_<<lifecycle, current, retired>>

=============================================================================
