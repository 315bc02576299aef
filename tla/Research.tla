------------------------------ MODULE Research ------------------------------
(***************************************************************************)
(* The chat requests of one student at work: chat_stream (routers/chat.py) *)
(* and run_persisted_research (services/research_service.py) as tasks that *)
(* call the transactions of ResearchRuns and ResearchUsage one by one. A   *)
(* task can be cancelled by a closed stream or end with its process        *)
(* between any two of them. What the model says and which tools it calls   *)
(* is left open; the runners call the model one call at a time.            *)
(***************************************************************************)
EXTENDS ResearchUsage

CONSTANTS
    Tasks,          \* bound: chat requests handled at the same time
    NewEvidence,    \* bound: evidence a run reads
    MaxFaults       \* bound: lost processes and runs that outlive stale_after

ASSUME TaskBounds == NewEvidence \in Nat /\ MaxFaults \in Nat

VARIABLES
    task,       \* the local state of each chat request
    detached,   \* shielded settlements whose task was cancelled: <<call, tokens>>
    lost,       \* requests whose task ended without a word (its process died, or it
                \* was cancelled while it began or closed its run)
    faults

tasks == <<task, detached, lost, faults>>
vars  == <<run, messages, cited, call, day, used, granted, refill,
           task, detached, lost, faults>>

\* prepared:   scope, history and last_answer_asked are read
\* waiting:    the id has a run already, its end is awaited
\* started:    begin_run has returned
\* working:    the runner has the turn; no model call is open
\* calling:    a model call is reserved and sent
\* settling:   the model has answered, settle runs (cancelled with its task)
\* recording:  the call has failed or was cut, settle runs shielded
\* closing:    an exception handler runs mark_terminal
\* cancelling, cancelled: the two transactions of close_cancelled, shielded
TaskSteps == {"idle", "prepared", "waiting", "started", "working", "calling",
              "settling", "recording", "closing", "cancelling", "cancelled"}

\* then: what follows the step recording or closing.
Task == [step: TaskSteps, request: Requests \cup {NoRequest}, mayAsk: BOOLEAN, first: Nat,
         call: Calls \cup {0}, then: {"work", "failed", "cancelled"}]

NoTask == [step |-> "idle", request |-> NoRequest, mayAsk |-> FALSE,
           first |-> 0, call |-> 0, then |-> "work"]

InitTasks == /\ task = [t \in Tasks |-> NoTask]
             /\ detached = {}
             /\ lost = {}
             /\ faults = 0

Request(t) == task[t].request
OpenCall(t) == task[t].call

GoTo(t, step) == task' = [task EXCEPT ![t].step = step]
Leave(t)      == task' = [task EXCEPT ![t] = NoTask]
GoTry(t, step, then) == task' = [task EXCEPT ![t].step = step, ![t].then = then]

\* The task has created the run of its request and works on it.
Works(t) == task[t].step \in TaskSteps \ {"idle", "prepared", "waiting"}

-----------------------------------------------------------------------------
(* The request comes in *)

\* The ids of a session are numbered in the order of their first use.
InOrder(q) == \A p \in Requests :
    p.session = q.session /\ p.number < q.number =>
        run[p].status # "none" \/ \E t \in Tasks : task[t].step # "idle" /\ Request(t) = p

\* chat_stream up to the stream: the quota gate, and the reads that happen
\* before the run exists.
Prepare(t, q) ==
    /\ task[t].step = "idle"
    /\ InOrder(q)
    /\ used[day] < DailyLimit(day)
    /\ task' = [task EXCEPT ![t] = [NoTask EXCEPT
           !.step = "prepared", !.request = q, !.mayAsk = ~LastAnswerAsked(q.session)]]
    /\ UNCHANGED <<runs, call, quota, detached, lost, faults>>

StartRun(t) ==
    /\ task[t].step = "prepared"
    /\ Begin(Request(t))
    /\ GoTo(t, "started")
    /\ UNCHANGED <<call, quota, detached, lost, faults>>

JoinRun(t) ==
    /\ task[t].step = "prepared"
    /\ BeginAgain(Request(t))
    /\ GoTo(t, "waiting")
    /\ UNCHANGED <<call, quota, detached, lost, faults>>

\* RunConflict('active_session_run').
RefuseRun(t) ==
    /\ task[t].step = "prepared"
    /\ run[Request(t)].status = "none"
    /\ Busy(Request(t).session)
    /\ Leave(t)
    /\ UNCHANGED <<runs, call, quota, detached, lost, faults>>

\* A duplicate returns what its run has, when the run ends or after the
\* deadline of total_seconds + 60.
ReturnSaved(t) ==
    /\ task[t].step = "waiting"
    /\ Leave(t)
    /\ UNCHANGED <<runs, call, quota, detached, lost, faults>>

-----------------------------------------------------------------------------
(* The run *)

\* first_evidence of the run's CourseTools.
NumberEvidence(t) ==
    /\ task[t].step = "started"
    /\ task' = [task EXCEPT ![t].step = "working",
                            ![t].first = NextEvidence(Request(t).session)]
    /\ UNCHANGED <<runs, call, quota, detached, lost, faults>>

\* wrap_model and counted_vision: reserve first.
OpenModelCall(t, c) ==
    /\ task[t].step = "working"
    /\ Reserve(Request(t), c)
    /\ task' = [task EXCEPT ![t].step = "calling", ![t].call = c]
    /\ UNCHANGED <<runs, quota, detached, lost, faults>>

\* ResearchQuotaExceeded.
RefuseCall(t) ==
    /\ task[t].step = "working"
    /\ run[Request(t)].status = "running"
    /\ ~WithinLimit(day)
    /\ GoTry(t, "closing", "failed")
    /\ UNCHANGED <<runs, call, quota, detached, lost, faults>>

\* reserve or _RunningTools.execute finds the run closed: ResearchRunStopped.
StopRun(t) ==
    /\ task[t].step = "working"
    /\ run[Request(t)].status # "running"
    /\ GoTry(t, "closing", "cancelled")
    /\ UNCHANGED <<runs, call, quota, detached, lost, faults>>

ModelAnswers(t) ==
    /\ task[t].step = "calling"
    /\ GoTo(t, "settling")
    /\ UNCHANGED <<runs, call, quota, detached, lost, faults>>

\* The provider's error, or the runner's wait_for cuts the call.
ModelFails(t) ==
    /\ task[t].step = "calling"
    /\ GoTry(t, "recording", "work")
    /\ UNCHANGED <<runs, call, quota, detached, lost, faults>>

SettleCall(t, billed) ==
    /\ task[t].step = "settling"
    /\ Settle(OpenCall(t), billed)
    /\ task' = [task EXCEPT ![t].step = "working", ![t].call = 0]
    /\ UNCHANGED <<detached, lost, faults>>

\* The shielded settle of a failed call, with the prompt's estimate.
RecordCall(t) ==
    /\ task[t].step = "recording"
    /\ Settle(OpenCall(t), Prompt)
    /\ task' = [task EXCEPT ![t].call = 0,
           ![t].step = IF task[t].then = "work" THEN "working" ELSE "cancelling"]
    /\ UNCHANGED <<detached, lost, faults>>

\* The runner's wait_for ends while the call is being settled. An open settle
\* is rolled back, a shielded one goes on without its task. A reserve that is cut
\* while it commits leaves the same: a call that nobody settles.
CutSettlement(t) ==
    /\ \/ task[t].step = "settling" /\ UNCHANGED detached
       \/ /\ task[t].step = "recording" /\ task[t].then = "work"
          /\ detached' = detached \cup {OpenCall(t)}
    /\ task' = [task EXCEPT ![t].step = "working", ![t].call = 0]
    /\ UNCHANGED <<runs, call, quota, lost, faults>>

\* finish_run, and the answer goes out. The runner offers ask_student only when
\* the request said so; a question back cites nothing.
FinishRun(t, kind, labels) ==
    /\ task[t].step = "working"
    /\ kind = "back" => task[t].mayAsk /\ labels = {}
    /\ Finish(Request(t), kind, labels)
    /\ Leave(t)
    /\ UNCHANGED <<call, quota, detached, lost, faults>>

\* Any exception from the tools, the runner or finish_run (RunConflict, an
\* invalid citation).
BreakRun(t) ==
    /\ task[t].step \in {"started", "working"}
    /\ GoTry(t, "closing", "failed")
    /\ UNCHANGED <<runs, call, quota, detached, lost, faults>>

CloseRun(t) ==
    /\ task[t].step = "closing"
    /\ MarkTerminal(Request(t), task[t].then)
    /\ Leave(t)
    /\ UNCHANGED <<call, quota, detached, lost, faults>>

\* close_cancelled.
CancelRun(t) ==
    /\ task[t].step = "cancelling"
    /\ RequestCancel(Request(t))
    /\ GoTo(t, "cancelled")
    /\ UNCHANGED <<call, quota, detached, lost, faults>>

CloseCancelled(t) ==
    /\ task[t].step = "cancelled"
    /\ MarkTerminal(Request(t), "cancelled")
    /\ Leave(t)
    /\ UNCHANGED <<call, quota, detached, lost, faults>>

-----------------------------------------------------------------------------
(* What happens to a task *)

\* The student closes the stream while begin_run commits: the run stays, outside
\* of the try that would close it.
CutBegin(t) ==
    /\ task[t].step = "prepared"
    /\ \/ Begin(Request(t)) /\ lost' = lost \cup {Request(t)}
       \/ BeginAgain(Request(t)) /\ UNCHANGED lost
    /\ Leave(t)
    /\ UNCHANGED <<call, quota, detached, faults>>

\* The student closes the stream: the task is cancelled at its open await, and
\* what it had not committed is undone. The close of a run that failed is not
\* shielded.
Disconnect(t) ==
    /\ \/ /\ task[t].step \in {"prepared", "waiting"}
          /\ Leave(t)
          /\ UNCHANGED <<detached, lost>>
       \/ /\ task[t].step \in {"started", "working", "settling"}
          /\ task' = [task EXCEPT ![t].step = "cancelling", ![t].call = 0]
          /\ UNCHANGED <<detached, lost>>
       \/ /\ task[t].step = "calling"
          /\ GoTry(t, "recording", "cancelled")
          /\ UNCHANGED <<detached, lost>>
       \/ /\ task[t].step = "recording"
          /\ detached' = detached \cup {OpenCall(t)}
          /\ task' = [task EXCEPT ![t].step = "cancelling", ![t].call = 0]
          /\ UNCHANGED lost
       \/ /\ task[t].step = "closing"
          /\ lost' = lost \cup {Request(t)}
          /\ Leave(t)
          /\ UNCHANGED detached
    /\ UNCHANGED <<runs, call, quota, faults>>

\* A shielded settlement ends after its task went on.
DetachedSettle(c) ==
    /\ c \in detached
    /\ Settle(c, Prompt)
    /\ detached' = detached \ {c}
    /\ UNCHANGED <<task, lost, faults>>

\* The process of a task is gone.
Crash(t) ==
    /\ task[t].step # "idle"
    /\ faults < MaxFaults
    /\ faults' = faults + 1
    /\ lost' = IF Works(t) THEN lost \cup {Request(t)} ELSE lost
    /\ Leave(t)
    /\ UNCHANGED <<runs, call, quota, detached>>

\* A run passes stale_after, which is at least twice total_seconds: its task is
\* gone, or so late that this counts as a fault.
GrowStale(q) ==
    /\ Age(q)
    /\ IF \E t \in Tasks : Works(t) /\ Request(t) = q
       THEN faults < MaxFaults /\ faults' = faults + 1
       ELSE UNCHANGED faults
    /\ UNCHANGED <<call, quota, task, detached, lost>>

-----------------------------------------------------------------------------
Init == InitRuns /\ InitUsage /\ InitTasks

Arrive(t) == \E q \in Requests : Prepare(t, q)

TaskStep(t) ==
    \/ StartRun(t) \/ JoinRun(t) \/ RefuseRun(t) \/ ReturnSaved(t)
    \/ NumberEvidence(t)
    \/ \E c \in Calls : OpenModelCall(t, c)
    \/ RefuseCall(t) \/ StopRun(t)
    \/ ModelAnswers(t) \/ ModelFails(t)
    \/ \E billed \in Bills : SettleCall(t, billed)
    \/ RecordCall(t) \/ CutSettlement(t)
    \/ \E kind \in {"answer", "back"},
          labels \in SUBSET (task[t].first .. task[t].first + NewEvidence - 1) :
           FinishRun(t, kind, labels)
    \/ BreakRun(t) \/ CloseRun(t)
    \/ CancelRun(t) \/ CloseCancelled(t)

TeacherStep == /\ \E p \in Teachers : ReadUsage(p) \/ Grant(p)
               /\ UNCHANGED <<runs, call, tasks>>

Next ==
    \/ \E t \in Tasks : Arrive(t) \/ TaskStep(t) \/ CutBegin(t) \/ Disconnect(t) \/ Crash(t)
    \/ \E c \in Calls : DetachedSettle(c)
    \/ \E q \in Requests : GrowStale(q)
    \/ TeacherStep
    \/ Midnight /\ UNCHANGED <<runs, call, tasks>>

Spec == Init /\ [][Next]_vars

\* A task that has the turn goes on: every model call, tool call and wait in it
\* has a timeout, and the runner has a total one. Nothing obliges a student to
\* write, to resend or to stay.
Fairness == \A t \in Tasks : WF_vars(TaskStep(t))

FairSpec == Spec /\ Fairness

-----------------------------------------------------------------------------
(* Invariants *)

\* Every variable has its type.
TypeOK ==
    /\ run \in [Requests -> Run]
    /\ messages \in [Sessions -> Seq(Message)]
    /\ cited \in [Sessions -> SUBSET (Nat \X Requests)]
    /\ call \in [Calls -> Call]
    /\ day \in Days
    /\ used \in [Days -> Nat] /\ granted \in [Days -> Nat]
    /\ refill \in [Teachers -> Nat \X Nat]
    /\ task \in [Tasks -> Task]
    /\ detached \subseteq Calls
    /\ lost \subseteq Requests
    /\ faults \in Nat

\* DATABASE.md, agent_runs.settlement_status: "Whether the quota was settled."
\* A run counts as settled exactly when it has ended and none of its
\* reservations still holds quota, whichever of close and settle came last.
SettledMeansSettled ==
    \A q \in Requests :
        run[q].settlement = "settled" <=> Ended(q) /\ HeldCalls(q) = {}

SettledOn(d) == {c \in Calls : call[c].state = "settled" /\ call[c].date = d}

\* Tokens that settled calls cost beyond what was reserved for them.
Overrun(d) ==
    SumFunctionOnSet([c \in Calls |-> Max({0, call[c].billed - call[c].reserved})], SettledOn(d))

\* Runs of several sessions at once never spend more than the day's limit: what
\* was used and what open calls hold exceed it only by what single calls cost
\* beyond their own reservation.
QuotaHeld ==
    \A d \in Days : used[d] + Held(d) <= DailyLimit(d) + Overrun(d)

\* Analytics reconcile with the quota: each day's usage is the sum of the calls
\* reserved that day, and an answer carries the cost of all calls of its run.
BooksBalance ==
    /\ \A d \in Days :
           used[d] = SumFunctionOnSet([c \in Calls |-> call[c].billed], SettledOn(d))
    /\ \A s \in Sessions : \A m \in ToSet(messages[s]) :
           m.kind # "question" => m.billed = Cost(m.request)

\* An evidence label in a session names one source for good: two runs never
\* give the same number to what they read (next_evidence_number).
LabelsNameOneSource ==
    \A s \in Sessions : \A a, b \in cited[s] : a[1] = b[1] => a = b

-----------------------------------------------------------------------------
(* What the student is promised *)

Chat == INSTANCE Conversation WITH
    talk <- [s \in Sessions |-> [i \in DOMAIN messages[s] |->
               [speaker |-> IF messages[s][i].kind = "question" THEN "student" ELSE "model",
                request |-> messages[s][i].request]]],
    open <- {q \in Requests : Active(q)}

\* The runs implement the abstract conversation.
ChatPromise == Chat!ConversationSpec

-----------------------------------------------------------------------------
(* Liveness *)

\* A run ends unless its task was lost, however its calls go and whenever the
\* student closes the stream.
RunsEnd == \A q \in Requests : Active(q) ~> (~Active(q) \/ q \in lost)

-----------------------------------------------------------------------------
(* What the documentation says and the code does not do *)

Attended(q) == \E t \in Tasks : Works(t) /\ Request(t) = q

\* research_service.py, run_persisted_research: "The run exists from here on:
\* every failure, also before the model is called, must close it, or the session
\* stays blocked."
EveryRunIsClosed == \A q \in Requests : Active(q) => Attended(q)

\* ARCHITECTURE.md: "After the call, the reserved amount is replaced by the usage
\* the server reported."
EveryCallIsSettled ==
    \A c \in Calls : call[c].state = "active" =>
        c \in detached \/ \E t \in Tasks : OpenCall(t) = c

\* research_runs.py, last_answer_asked: "the next run must answer, so the chat
\* does not offer ask_student twice in a row."
NeverAsksTwice ==
    \A s \in Sessions : \A i \in 1 .. Len(Answers(s)) - 1 :
        Answers(s)[i].kind = "back" => Answers(s)[i + 1].kind # "back"

\* API.md, quota-refill: "the teacher grants what the student used today beyond
\* earlier grants [...] and nothing when a full quota is still left."
GrantsWithinUse == \A d \in Days : granted[d] <= used[d]

=============================================================================
