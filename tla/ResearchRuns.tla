---------------------------- MODULE ResearchRuns ----------------------------
(***************************************************************************)
(* The stored research runs of one student and the conversations they      *)
(* write: backend/app/services/research_runs.py on the tables agent_runs,  *)
(* messages and message_citations. Every method is one short transaction   *)
(* that locks its rows first, so each operator below is one step of the    *)
(* task that calls it (module Research).                                   *)
(***************************************************************************)
EXTENDS Integers, Sequences, FiniteSets, FiniteSetsExt, SequencesExt

CONSTANTS
    Sessions,       \* the student's chat sessions
    MaxRequests,    \* bound: client_request_ids of one session
    MaxCalls,       \* bound: model calls of the student
    MaxDay          \* bound: days

ASSUME RunBounds == MaxRequests \in Nat /\ MaxCalls \in Nat /\ MaxDay \in Nat \ {0}

VARIABLES
    run,        \* the agent_runs row of each client_request_id
                \* (uq_agent_run_user_request: there is at most one)
    messages,   \* the messages of each session, oldest first
    cited,      \* the citations of each session: <<label, run that read it>>
    call        \* usage_reservations with their model_call_usage, numbered in
                \* the order of the calls

runs == <<run, messages, cited>>

\* A client makes a new id for each message, so an id belongs to a session. The
\* same id with another session or question is refused and changes nothing.
Requests == [session: Sessions, number: 1 .. MaxRequests]
NoRequest == [session |-> "none", number |-> 0]
Calls    == 1 .. MaxCalls
Days     == 1 .. MaxDay

RunStatuses   == {"none", "running", "cancelling", "finished", "failed", "cancelled"}
ActiveStates  == {"running", "cancelling"}
Settlements   == {"open", "settled"}

\* aged says that started_at lies more than stale_after seconds back.
Run == [status: RunStatuses, settlement: Settlements, aged: BOOLEAN]

\* kind: what the student asked, an answer, or a question back (ask_student).
Message == [kind: {"question", "answer", "back"}, request: Requests, billed: Nat]

NoRun  == [status |-> "none", settlement |-> "open", aged |-> FALSE]
NewRun == [NoRun EXCEPT !.status = "running"]

-----------------------------------------------------------------------------
Active(q) == run[q].status \in ActiveStates
Ended(q)  == run[q].status \in {"finished", "failed", "cancelled"}

\* Reservations of the run that are active (or unknown, which needs the manual
\* reconciliation nothing calls).
HeldCalls(q) == {c \in Calls : call[c].state = "active" /\ call[c].request = q}

\* Mutant: the calls of the run are not looked at.
ClosedAsSettled(row, q, status) ==
    [row EXCEPT !.status = status, !.settlement = "settled"]

\* _close.
Closed(row, q, status) ==
    [row EXCEPT !.status = status,
                !.settlement = IF HeldCalls(q) = {} THEN "settled" ELSE "open"]

\* The run that begin_run finds stale in a session.
Stale(s) == {q \in Requests : q.session = s /\ Active(q) /\ run[q].aged}

StaleClosed(s) ==
    [q \in Requests |-> IF q \in Stale(s) THEN Closed(run[q], q, "failed") ELSE run[q]]

\* uq_agent_run_active_session, after the stale run was closed.
Busy(s) == \E q \in Requests : q.session = s /\ Active(q) /\ q \notin Stale(s)

-----------------------------------------------------------------------------
InitRuns == /\ run = [q \in Requests |-> NoRun]
            /\ messages = [s \in Sessions |-> <<>>]
            /\ cited = [s \in Sessions |-> {}]

\* begin_run of a new id in a session that is free or whose run is stale.
Begin(q) ==
    /\ run[q].status = "none"
    /\ ~Busy(q.session)
    /\ run' = [StaleClosed(q.session) EXCEPT ![q] = NewRun]
    /\ messages' = [messages EXCEPT ![q.session] =
           Append(@, [kind |-> "question", request |-> q, billed |-> 0])]
    /\ UNCHANGED cited

\* begin_run of an id that has its run already (StartOutcome created=False).
\* The stale run it closed on the way stays closed.
BeginAgain(q) ==
    /\ run[q].status # "none"
    /\ run' = StaleClosed(q.session)
    /\ UNCHANGED <<messages, cited>>

\* Mutant: a status that the other steps do not know.
RequestCancelRenamed(q) ==
    /\ run' = IF run[q].status = "running"
              THEN [run EXCEPT ![q].status = "cancel_requested"] ELSE run
    /\ UNCHANGED <<messages, cited>>

\* request_cancel.
RequestCancel(q) ==
    /\ run' = IF run[q].status = "running"
              THEN [run EXCEPT ![q].status = "cancelling"] ELSE run
    /\ UNCHANGED <<messages, cited>>

\* Mutant: only a run that is still running is closed.
MarkTerminalRunning(q, status) ==
    /\ run' = IF run[q].status = "running"
              THEN [run EXCEPT ![q] = Closed(@, q, status)] ELSE run
    /\ UNCHANGED <<messages, cited>>

\* mark_terminal: a run that has ended keeps its end.
MarkTerminal(q, status) ==
    /\ run' = IF Active(q) THEN [run EXCEPT ![q] = Closed(@, q, status)] ELSE run
    /\ UNCHANGED <<messages, cited>>

\* Mutant: finish_run does not look at the status of the run.
FinishableAnyStatus(q) == HeldCalls(q) = {}

\* finish_run goes on past its checks: a closed run, or one with a call that is
\* not settled, raises RunConflict.
Finishable(q) == run[q].status = "running" /\ HeldCalls(q) = {}

\* What the answer of a run costs: the sum over the run's model_call_usage rows.
Cost(q) == SumFunctionOnSet([c \in Calls |-> call[c].billed],
                            {c \in Calls : call[c].state = "settled" /\ call[c].request = q})

\* finish_run: the answer, its citations and the end of the run in one step.
\* labels are the numbers of this run's evidence that the answer cites.
Finish(q, kind, labels) ==
    /\ Finishable(q)
    /\ run' = [run EXCEPT ![q].status = "finished", ![q].settlement = "settled"]
    /\ messages' = [messages EXCEPT ![q.session] =
           Append(@, [kind |-> kind, request |-> q, billed |-> Cost(q)])]
    /\ cited' = [cited EXCEPT ![q.session] = @ \cup (labels \X {q})]

\* started_at falls behind stale_after.
Age(q) ==
    /\ Active(q) /\ ~run[q].aged
    /\ run' = [run EXCEPT ![q].aged = TRUE]
    /\ UNCHANGED <<messages, cited>>

-----------------------------------------------------------------------------
(* What a new request reads *)

Answers(s) == SelectSeq(messages[s], LAMBDA m : m.kind # "question")

\* last_answer_asked.
LastAnswerAsked(s) ==
    /\ Answers(s) # <<>>
    /\ Last(Answers(s)).kind = "back"

\* Mutant: the citations are counted, although an answer need not cite every
\* number before its last one.
NextEvidenceByCount(s) == Cardinality(cited[s]) + 1

\* next_evidence_number.
NextEvidence(s) == Max({0} \cup {c[1] : c \in cited[s]}) + 1

=============================================================================
