------------------------------- MODULE RowLocks -------------------------------
(***************************************************************************)
(* The order in which the transactions of the other modules lock rows.     *)
(* There a transaction is one step; here it is the sequence of the locks   *)
(* it takes, as PostgreSQL grants them, until it commits or is rolled      *)
(* back, and transactions wait for each other. A row stands for the rows   *)
(* of one document, or of one student with a conversation. A foreign key   *)
(* takes a key share of the row it names.                                  *)
(***************************************************************************)
EXTENDS Naturals, Sequences, FiniteSets

CONSTANTS
    Transactions,   \* bound: transactions at one time
    Traffic         \* names of the transactions that occur

VARIABLE tx         \* of each transaction its name, its locks and how many it holds

-----------------------------------------------------------------------------
(* Locks of PostgreSQL                                                     *)

Key(row) == [row |-> row, mode |-> "key share", waits |-> TRUE]
Update(row) == [row |-> row, mode |-> "no key update", waits |-> TRUE]
Own(row) == [row |-> row, mode |-> "update", waits |-> TRUE]    \* FOR UPDATE, DELETE
SkipLocked(row) == [Own(row) EXCEPT !.waits = FALSE]

Conflict(a, b) ==
    /\ a.row = b.row
    /\ {a.mode, b.mode} \in {{"update"}, {"update", "key share"}, {"update", "no key update"}, {"no key update"}}

-----------------------------------------------------------------------------
(* Conversations and quota: the locks of each way through a method         *)

\* Mutant: the run first.
RunFirst == {<<Own("run"), Own("user"), Key("user"), Key("run")>>}

\* reserve: user, run, and the reservation it inserts.
Reserve == {<<Own("user"), Own("run"), Key("user"), Key("run")>>}

\* settle: user, reservation, the row of the call, the usage of the day, run.
Settle == {<<Own("user"), Own("reservation"), Key("run"), day, Own("run")>> : day \in {Key("user"), Own("usage")}}

\* begin_run, with the lost run of the session that it closes or without one.
BeginRun(lost) == {<<Own("session"), Own("user")>> \o lost \o <<Key("session"), Key("user"), day>>
                      : day \in {Key("user"), Own("usage")}}

\* request_cancel and mark_terminal.
Close == {<<Own("run")>>}

\* finish_run: run, and the answer of the session. With a call that is not settled
\* it stops at the run, like the methods above.
Finish == {<<Own("run"), Key("session")>>}

\* refill: the grant names the student.
Refill == {<<Key("user")>>}

\* rate_message, update_session_title and what else changes one row.
Rate == {<<Update("message")>>}
Rename == {<<Update("session")>>}

\* hard_delete_session and prune_old_data: the messages with the runs that name
\* them, then the session with its runs, reservations and calls.
Purge == {<<Own("message"), Update("run"), Own("session"), Own("run"), Own("reservation")>>}

Conversations ==
    [reserve |-> Reserve, settle |-> Settle, begin |-> BeginRun(<<>>), begin_over |-> BeginRun(<<Own("run")>>),
     close |-> Close, finish |-> Finish, refill |-> Refill, rate |-> Rate, rename |-> Rename, purge |-> Purge]

-----------------------------------------------------------------------------
(* Documents                                                               *)

\* Mutant: the claim waits for its row.
ClaimWaits == {<<Own("job")>>}

\* claim_structured_job.
Claim == {<<SkipLocked("job")>>}

\* _postpone_index finds the queued job of the own draft before check_edit_view.
EditInPlace == <<Update("job"), Update("document")>>

\* clone_revision, and the job of the copy; so does a new reading.
EditCopy == <<Update("document"), Key("document")>>

\* resolve_review: a confirmed review is an edit.
Review == {<<Own("review")>>, <<Own("review")>> \o EditInPlace, <<Own("review")>> \o EditCopy}

\* publish_revision; archiving, restoring and a new source take the document only.
Publish == {<<Own("document"), Update("document")>>}
Change == {<<Update("document"), Key("document")>>}

\* Mutant: the jobs first.
JobsFirst == {<<Own("job"), Update("document"), Key("document")>>}

\* mark_deleted: document, cleanup job, jobs.
MarkDeleted == {<<Update("document"), Key("document"), Own("job")>>}

\* run_cleanup: document, cleanup job, ledger, reviews, jobs.
RunCleanup == {<<Own("document"), Own("cleanup"), Own("staged"), Own("review"), Own("job")>>}

\* sweep_staged_objects.
Sweep == {<<SkipLocked("staged")>>}

\* _commit_parsed and _commit_failed after _locked; _discard.
CommitParse == {<<Own("document"), Own("job"), Update("document"), Key("document")>>}
Discard == {<<Own("staged")>>}

\* _commit after lock_draft, and its publication.
CommitIndex == {<<Own("document"), Update("document"), Own("job"), Own("document")>>}

\* _requeue and _retry.
GiveBack == {<<Own("job")>>}

Documents ==
    [claim |-> Claim, edit_in_place |-> {EditInPlace}, edit_copy |-> {EditCopy}, review |-> Review,
     publish |-> Publish, change |-> Change, delete |-> MarkDeleted, cleanup |-> RunCleanup, sweep |-> Sweep,
     parse |-> CommitParse, discard |-> Discard, index |-> CommitIndex, give_back |-> GiveBack]

-----------------------------------------------------------------------------
(* Transactions                                                            *)

Paths(name) == IF name \in DOMAIN Documents THEN Documents[name] ELSE Conversations[name]

NoTransaction == [name |-> "none", locks |-> <<>>, held |-> 0]

Init == tx = [p \in Transactions |-> NoTransaction]

Held(p) == {tx[p].locks[i] : i \in 1 .. tx[p].held}
Asks(p) == tx[p].held < Len(tx[p].locks)
Wanted(p) == tx[p].locks[tx[p].held + 1]

Blocks(q, p) == p # q /\ Asks(p) /\ \E l \in Held(q) : Conflict(l, Wanted(p))
Blocked(p) == \E q \in Transactions : Blocks(q, p)
Waits(p) == Blocked(p) /\ Wanted(p).waits

\* A run is finished by the task that made its calls, after all of them settled.
Together(a, b) == {a, b} \notin {{"finish", "reserve"}, {"finish", "settle"}}

Start(p) == /\ tx[p] = NoTransaction
            /\ \E name \in Traffic : \E locks \in Paths(name) :
                  /\ \A q \in Transactions : Together(name, tx[q].name)
                  /\ tx' = [tx EXCEPT ![p] = [name |-> name, locks |-> locks, held |-> 0]]

Lock(p) == Asks(p) /\ ~Blocked(p) /\ tx' = [tx EXCEPT ![p].held = @ + 1]

\* Commit, an early return or an error: possible whenever it does not wait.
End(p) == tx[p] # NoTransaction /\ ~Waits(p) /\ tx' = [tx EXCEPT ![p] = NoTransaction]

\* Transactions that wait for each other only, whoever else ends.
Cycle(ps) == ps # {} /\ \A p \in ps : Waits(p) /\ \E q \in ps : Blocks(q, p)

\* PostgreSQL rolls one of them back.
Victim(p) == /\ \E ps \in SUBSET Transactions : p \in ps /\ Cycle(ps)
             /\ tx' = [tx EXCEPT ![p] = NoTransaction]

Next == \E p \in Transactions : Start(p) \/ Lock(p) \/ End(p) \/ Victim(p)

Spec == Init /\ [][Next]_tx

-----------------------------------------------------------------------------
(* Properties                                                              *)

\* In every cycle of waits one of them is such a transaction.
CyclesNeed(names) == \A ps \in SUBSET Transactions : Cycle(ps) => \E p \in ps : tx[p].name \in names

\* Every circle of waiting chat transactions has an admin's purge in it, or a
\* question over a run that was lost and yet finishes: calls that are reserved and
\* settled, runs that end and grants meet on the user first.
ChatsFlow == CyclesNeed({"purge", "begin_over"})

\* Workers, deletion and cleanup lock the document before its jobs and reviews.
\* Only the edit of a waiting draft and a review, which begin at the other end,
\* can wait in a circle with them.
DocumentsFlow == CyclesNeed({"edit_in_place", "review"})

\* A claim never waits for a teacher (claim_structured_job), nor does the sweep for
\* an upload.
ClaimsNeverWait == \A p \in Transactions : Waits(p) => tx[p].name \notin {"claim", "sweep"}

=============================================================================
