---------------------------- MODULE ResearchProofs ----------------------------
(***************************************************************************)
(* Theorems about Research, for any number of sessions, requests, tasks,   *)
(* model calls and days and for any bills: a run counts as settled when    *)
(* its reservations are, a label names one source, the runs implement the  *)
(* conversation a student is promised, the daily quota holds whatever runs *)
(* at once, and the books of messages, calls and days agree. The sums over *)
(* calls are taken with the laws of SumProofs.                             *)
(***************************************************************************)
EXTENDS Research, SumProofs, SequenceTheorems

-----------------------------------------------------------------------------
(* The inductive invariants *)

\* A task that is not idle serves a request, one that has a model call open
\* knows which, and one that closes its run knows how.
TaskRowOK(row) ==
    /\ row.step # "idle" => row.request \in Requests
    /\ row.step \in {"calling", "settling", "recording"} => row.call \in Calls
    /\ row.step = "closing" => row.then \in {"failed", "cancelled"}

TasksOK == \A t \in Tasks : TaskRowOK(task[t])

\* A reservation belongs to a run.
CallsOK == \A c \in Calls : call[c].state # "none" => call[c].request \in Requests

CitedFinite == \A s \in Sessions : IsFiniteSet(cited[s])

TypeInv == TypeOK /\ TasksOK /\ CallsOK /\ CitedFinite

\* finish_run closes a run whose reservations are settled.
FinishedIsSettled == \A q \in Requests :
    run[q].status = "finished" => run[q].settlement = "settled"

\* uq_agent_run_active_session: a session has one run that is not closed.
OneActive == \A p, q \in Requests :
    Active(p) /\ Active(q) /\ p.session = q.session => p = q

RunsInv == TypeInv /\ SettledMeansSettled /\ FinishedIsSettled /\ OneActive

\* While a run works, nobody else adds labels to its session: what it reads is
\* numbered after all that its session has.
Numbered(t) == task[t].step \in {"working", "calling", "settling", "recording"}

LabelsBelow == \A t \in Tasks : Numbered(t) /\ Active(Request(t)) =>
    \A a \in cited[Request(t).session] : a[1] < task[t].first

\* Nobody else can create the run that a task works on.
WorkersHaveRuns == \A t \in Tasks : Works(t) => run[Request(t)].status # "none"

LabelsInv == RunsInv /\ WorkersHaveRuns /\ LabelsNameOneSource /\ LabelsBelow

\* A request has a message only when it has a run, in its own session; the last
\* message of a session at work is the question it works on.
MessagesHaveRuns == \A s \in Sessions : \A i \in DOMAIN messages[s] :
    /\ messages[s][i].request.session = s
    /\ run[messages[s][i].request].status # "none"

WorksOnLastQuestion == \A q \in Requests : Active(q) =>
    LET talk == messages[q.session]
    IN  talk # <<>> /\ talk[Len(talk)].kind = "question" /\ talk[Len(talk)].request = q

TalkInv == RunsInv /\ MessagesHaveRuns /\ WorksOnLastQuestion

-----------------------------------------------------------------------------
(* Types *)

LEMMA CallsFinite == \A T \in SUBSET Calls : IsFiniteSet(T)
  <1>1. 1 \in Int /\ MaxCalls \in Int
    BY RunBounds
  <1>2. IsFiniteSet(Calls)
    BY <1>1, FS_Interval DEF Calls
  <1> QED
    BY <1>2, FS_Subset

LEMMA CostType ==
    ASSUME TypeInv, NEW q
    PROVE  Cost(q) \in Nat
  <1> DEFINE paid == {c \in Calls : call[c].state = "settled" /\ call[c].request = q}
  <1>1. IsFiniteSet(paid)
    BY CallsFinite
  <1>2. \A c \in paid : [b \in Calls |-> call[b].billed][c] \in Nat
    BY DEF TypeInv, TypeOK, Call
  <1> HIDE DEF paid
  <1>3. SumFunctionOnSet([c \in Calls |-> call[c].billed], paid) \in Nat
    BY <1>1, <1>2, SumType DEF NumbersOn
  <1> QED
    BY <1>3 DEF Cost, paid

\* next_evidence_number lies above every label of its session.
LEMMA NextEvidenceAbove ==
    ASSUME TypeInv, NEW s \in Sessions
    PROVE  /\ NextEvidence(s) \in Nat
           /\ \A a \in cited[s] : a[1] < NextEvidence(s)
  <1> DEFINE labels == {0} \cup {a[1] : a \in cited[s]}
  <1>1. cited[s] \subseteq Nat \X Requests /\ IsFiniteSet(cited[s])
    BY DEF TypeInv, TypeOK, CitedFinite
  <1>2. IsFiniteSet({a[1] : a \in cited[s]})
    <2> DEFINE first == [a \in cited[s] |-> a[1]]
    <2>1. first \in Surjection(cited[s], {a[1] : a \in cited[s]})
      BY DEF Surjection
    <2> HIDE DEF first
    <2> QED
      BY <1>1, <2>1, FS_Surjection
  <1>3. IsFiniteSet(labels)
    BY <1>2, FS_Singleton, FS_Union
  <1>4. labels \subseteq Nat /\ labels # {}
    BY <1>1
  <1>5. \A a \in cited[s] : a[1] \in labels
    OBVIOUS
  <1> HIDE DEF labels
  <1>6. Max(labels) \in Nat /\ \A y \in labels : y <= Max(labels)
    BY <1>3, <1>4, MaxOfNumbers
  <1>7. \A a \in cited[s] : a[1] \in Nat /\ a[1] <= Max(labels)
    BY <1>1, <1>5, <1>6
  <1>8. NextEvidence(s) = Max(labels) + 1
    BY DEF NextEvidence, labels
  <1> QED
    BY <1>6, <1>7, <1>8

LEMMA RunRows ==
    ASSUME TypeInv
    PROVE  /\ NoRun \in Run /\ NewRun \in Run
           /\ \A row \in Run, status \in RunStatuses : \A q : Closed(row, q, status) \in Run
           /\ \A s \in Sessions : StaleClosed(s) \in [Requests -> Run]
           /\ \A c \in Calls : Settlement(c) \in [Requests -> Run]
  <1> USE DEF TypeInv, TypeOK
  <1>1. NoRun \in Run /\ NewRun \in Run
    BY DEF NoRun, NewRun, Run, RunStatuses, Settlements
  <1>2. ASSUME NEW row \in Run, NEW q, NEW status \in RunStatuses
        PROVE  Closed(row, q, status) \in Run
    BY DEF Closed, Run, Settlements
  <1>3. ASSUME NEW s \in Sessions  PROVE StaleClosed(s) \in [Requests -> Run]
    BY <1>2 DEF StaleClosed, RunStatuses
  <1>4. ASSUME NEW c \in Calls  PROVE Settlement(c) \in [Requests -> Run]
    <2>1. \A q \in Requests : [run[q] EXCEPT !.settlement = "settled"] \in Run
      BY DEF Run, Settlements
    <2> QED
      BY <2>1 DEF Settlement
  <1> QED
    BY <1>1, <1>2, <1>3, <1>4

LEMMA TypeInit == Init => TypeInv
  <1> SUFFICES ASSUME Init  PROVE TypeInv
    OBVIOUS
  <1>1. run \in [Requests -> Run]
    BY DEF Init, InitRuns, NoRun, Run, RunStatuses, Settlements
  <1>2. /\ messages \in [Sessions -> Seq(Message)]
        /\ cited \in [Sessions -> SUBSET (Nat \X Requests)]
        /\ CitedFinite
    BY FS_EmptySet DEF Init, InitRuns, CitedFinite
  <1>3. call \in [Calls -> Call] /\ CallsOK
    BY RunBounds DEF Init, InitUsage, NoCall, Call, CallsOK, Days
  <1>4. /\ day \in Days
        /\ used \in [Days -> Nat] /\ granted \in [Days -> Nat]
        /\ refill \in [Teachers -> Nat \X Nat]
    BY RunBounds DEF Init, InitUsage, Days, NoRefill
  <1>5. task \in [Tasks -> Task] /\ TasksOK
    BY DEF Init, InitTasks, NoTask, Task, TaskSteps, TasksOK, TaskRowOK
  <1>6. detached \subseteq Calls /\ lost \subseteq Requests /\ faults \in Nat
    BY DEF Init, InitTasks
  <1> QED
    BY <1>1, <1>2, <1>3, <1>4, <1>5, <1>6 DEF TypeInv, TypeOK

\* What a transaction of ResearchRuns leaves of the types.
RunsTyped == /\ run \in [Requests -> Run]
             /\ messages \in [Sessions -> Seq(Message)]
             /\ cited \in [Sessions -> SUBSET (Nat \X Requests)]
             /\ CitedFinite

FinishesWith(q, first) ==
    \E kind \in {"answer", "back"}, labels \in SUBSET (first .. first + NewEvidence - 1) :
        Finish(q, kind, labels)

LEMMA RunsTypes ==
    ASSUME TypeInv, NEW q \in Requests,
           \/ Begin(q) \/ BeginAgain(q) \/ RequestCancel(q) \/ Age(q)
           \/ \E status \in {"failed", "cancelled"} : MarkTerminal(q, status)
           \/ \E first \in Nat : FinishesWith(q, first)
           \/ UNCHANGED runs
    PROVE  RunsTyped'
  <1> USE DEF TypeInv, TypeOK
  <1>1. q.session \in Sessions
    BY DEF Requests
  <1>2. UNCHANGED cited => CitedFinite'
    BY DEF CitedFinite
  <1>3. ASSUME NEW kind \in {"question", "answer", "back"}, NEW billed \in Nat
        PROVE  [messages EXCEPT ![q.session] =
                   Append(@, [kind |-> kind, request |-> q, billed |-> billed])]
                   \in [Sessions -> Seq(Message)]
    <2>1. [kind |-> kind, request |-> q, billed |-> billed] \in Message
      BY DEF Message
    <2>2. Append(messages[q.session], [kind |-> kind, request |-> q, billed |-> billed])
              \in Seq(Message)
      BY <1>1, <2>1
    <2> QED
      BY <2>2
  <1>4. ASSUME NEW status \in RunStatuses
        PROVE  [run[q] EXCEPT !.status = status] \in Run
    BY DEF Run
  <1>5. CASE Begin(q)
    BY <1>1, <1>2, <1>3, <1>5, RunRows DEF Begin, RunsTyped
  <1>6. CASE BeginAgain(q)
    BY <1>1, <1>2, <1>6, RunRows DEF BeginAgain, RunsTyped
  <1>7. CASE RequestCancel(q)
    BY <1>2, <1>4, <1>7 DEF RequestCancel, RunsTyped, RunStatuses
  <1>8. ASSUME NEW status \in {"failed", "cancelled"}, MarkTerminal(q, status)
        PROVE  RunsTyped'
    <2>1. status \in RunStatuses /\ run[q] \in Run
      BY DEF RunStatuses
    <2>2. Closed(run[q], q, status) \in Run
      BY <2>1, RunRows
    <2> QED
      BY <1>2, <1>8, <2>2 DEF MarkTerminal, RunsTyped
  <1>9. CASE Age(q)
    <2>1. [run[q] EXCEPT !.aged = TRUE] \in Run
      BY DEF Run
    <2> QED
      BY <1>2, <1>9, <2>1 DEF Age, RunsTyped
  <1>10. ASSUME NEW first \in Nat, NEW kind \in {"answer", "back"},
                NEW labels \in SUBSET (first .. first + NewEvidence - 1),
                Finish(q, kind, labels)
         PROVE  RunsTyped'
    <2>1. [run[q] EXCEPT !.status = "finished", !.settlement = "settled"] \in Run
      <3>1. run[q] \in Run
        OBVIOUS
      <3> QED
        BY <3>1 DEF Run, RunStatuses, Settlements
    <2>2. run' \in [Requests -> Run]
      BY <1>10, <2>1 DEF Finish
    <2>3. messages' \in [Sessions -> Seq(Message)]
      BY <1>3, <1>10, CostType DEF Finish
    <2>4. labels \X {q} \subseteq Nat \X Requests /\ IsFiniteSet(labels \X {q})
      <3>1. first + NewEvidence - 1 \in Int /\ labels \subseteq Nat
        BY TaskBounds
      <3>2. IsFiniteSet(first .. first + NewEvidence - 1)
        BY <3>1, FS_Interval
      <3>3. IsFiniteSet(labels)
        BY <3>2, FS_Subset
      <3> QED
        BY <3>1, <3>3, FS_Singleton, FS_Product
    <2>5. /\ cited' = [cited EXCEPT ![q.session] = cited[q.session] \cup (labels \X {q})]
          /\ cited[q.session] \in SUBSET (Nat \X Requests)
      BY <1>1, <1>10 DEF Finish
    <2>6. cited' \in [Sessions -> SUBSET (Nat \X Requests)]
      BY <1>1, <2>4, <2>5
    <2>7. CitedFinite'
      <3>1. IsFiniteSet(cited[q.session] \cup (labels \X {q}))
        BY <1>1, <2>4, FS_Union DEF CitedFinite
      <3> QED
        BY <1>1, <2>5, <3>1 DEF CitedFinite
    <2> QED
      BY <2>2, <2>3, <2>6, <2>7 DEF RunsTyped
  <1>11. CASE UNCHANGED runs
    BY <1>11 DEF runs, RunsTyped, CitedFinite
  <1> QED
    BY <1>5, <1>6, <1>7, <1>8, <1>9, <1>10, <1>11 DEF FinishesWith

UsageTyped == /\ call \in [Calls -> Call] /\ CallsOK
              /\ day \in Days
              /\ used \in [Days -> Nat] /\ granted \in [Days -> Nat]
              /\ refill \in [Teachers -> Nat \X Nat]

LEMMA SettleTypes ==
    ASSUME TypeInv, NEW c \in Calls, NEW billed \in Nat, Settle(c, billed)
    PROVE  UsageTyped' /\ RunsTyped'
  <1>1. LET row == [call[c] EXCEPT !.state = "settled", !.billed = billed]
        IN  row \in Call /\ row.request = call[c].request
    <2>1. call[c] \in Call
      BY DEF TypeInv, TypeOK
    <2> QED
      BY <2>1 DEF Call
  <1> USE DEF TypeInv, TypeOK
  <1>2. call' = [call EXCEPT ![c] = [call[c] EXCEPT !.state = "settled", !.billed = billed]]
    BY DEF Settle
  <1>3. call' \in [Calls -> Call] /\ CallsOK'
    <2>1. call[c].request \in Requests
      BY DEF Settle, CallsOK
    <2> QED
      BY <1>1, <1>2, <2>1 DEF CallsOK, Calls
  <1>4. used' \in [Days -> Nat]
    <2>1. call[c].date \in Days
      BY DEF Call
    <2> QED
      BY <2>1 DEF Settle, Booked
  <1>5. run' \in [Requests -> Run]
    BY RunRows DEF Settle
  <1> QED
    BY <1>3, <1>4, <1>5 DEF Settle, UsageTyped, RunsTyped, CitedFinite

LEMMA ReserveTypes ==
    ASSUME TypeInv, NEW q \in Requests, NEW c \in Calls, Reserve(q, c)
    PROVE  call' \in [Calls -> Call] /\ CallsOK'
  <1>1. [state |-> "active", request |-> q, date |-> day,
         reserved |-> Estimate, billed |-> 0] \in Call
    BY TokenAssumption DEF TypeInv, TypeOK, Call
  <1> QED
    BY <1>1 DEF TypeInv, TypeOK, Reserve, CallsOK, Calls

-----------------------------------------------------------------------------
(* The tasks *)

TasksTyped == task \in [Tasks -> Task] /\ TasksOK

LEMMA OneTaskTyped ==
    ASSUME TypeInv, NEW t \in Tasks, NEW row \in Task, TaskRowOK(row),
           task' = [task EXCEPT ![t] = row]
    PROVE  TasksTyped'
  BY DEF TypeInv, TypeOK, TasksOK, TasksTyped

\* A task that leaves, moves on, moves on with what follows, or takes up or lays
\* down a model call.
LEMMA TaskMoves ==
    ASSUME TypeInv, NEW t \in Tasks,
           \/ Leave(t)
           \/ /\ task[t].step # "idle"
              /\ \/ \E step \in {"started", "waiting", "cancelled"} : GoTo(t, step)
                 \/ task[t].step = "calling" /\ GoTo(t, "settling")
                 \/ \E then \in {"failed", "cancelled"} : GoTry(t, "closing", then)
                 \/ /\ task[t].step = "calling"
                    /\ \E then \in {"work", "cancelled"} : GoTry(t, "recording", then)
                 \/ \E step \in {"working", "cancelling"} :
                        task' = [task EXCEPT ![t].step = step, ![t].call = 0]
                 \/ \E c \in Calls : task' = [task EXCEPT ![t].step = "calling", ![t].call = c]
                 \/ \E n \in Nat : task' = [task EXCEPT ![t].step = "working", ![t].first = n]
    PROVE  TasksTyped'
  <1>1. task \in [Tasks -> Task] /\ task[t] \in Task /\ TaskRowOK(task[t])
    BY DEF TypeInv, TypeOK, TasksOK
  <1>2. CASE Leave(t)
    <2>1. NoTask \in Task /\ TaskRowOK(NoTask)
      BY DEF NoTask, Task, TaskSteps, TaskRowOK
    <2> QED
      BY <1>2, <2>1, OneTaskTyped DEF Leave
  <1> USE DEF Task, TaskSteps, TaskRowOK
  <1>3. ASSUME NEW step, task[t].step # "idle", GoTo(t, step),
               \/ step \in {"started", "waiting", "cancelled"}
               \/ step = "settling" /\ task[t].step = "calling"
        PROVE  TasksTyped'
    <2> DEFINE row == [task[t] EXCEPT !.step = step]
    <2>1. row \in Task /\ TaskRowOK(row)
      BY <1>1, <1>3
    <2>2. task' = [task EXCEPT ![t] = row]
      BY <1>1, <1>3 DEF GoTo
    <2> HIDE DEF row, TaskRowOK
    <2> QED
      BY <2>1, <2>2, OneTaskTyped
  <1>4. ASSUME NEW step, NEW then, task[t].step # "idle", GoTry(t, step, then),
               \/ step = "closing" /\ then \in {"failed", "cancelled"}
               \/ step = "recording" /\ task[t].step = "calling" /\ then \in {"work", "cancelled"}
        PROVE  TasksTyped'
    <2> DEFINE row == [task[t] EXCEPT !.step = step, !.then = then]
    <2>1. row \in Task /\ TaskRowOK(row)
      BY <1>1, <1>4
    <2>2. task' = [task EXCEPT ![t] = row]
      BY <1>1, <1>4 DEF GoTry
    <2> HIDE DEF row, TaskRowOK
    <2> QED
      BY <2>1, <2>2, OneTaskTyped
  <1>5. ASSUME NEW step, NEW c, task[t].step # "idle",
               task' = [task EXCEPT ![t].step = step, ![t].call = c],
               \/ step \in {"working", "cancelling"} /\ c = 0
               \/ step = "calling" /\ c \in Calls
        PROVE  TasksTyped'
    <2> DEFINE row == [task[t] EXCEPT !.step = step, !.call = c]
    <2>1. row \in Task /\ TaskRowOK(row)
      BY <1>1, <1>5
    <2>2. task' = [task EXCEPT ![t] = row]
      BY <1>1, <1>5
    <2> HIDE DEF row, TaskRowOK
    <2> QED
      BY <2>1, <2>2, OneTaskTyped
  <1>6. ASSUME NEW n \in Nat, task[t].step # "idle",
               task' = [task EXCEPT ![t].step = "working", ![t].first = n]
        PROVE  TasksTyped'
    <2> DEFINE row == [task[t] EXCEPT !.step = "working", !.first = n]
    <2>1. row \in Task /\ TaskRowOK(row)
      BY <1>1, <1>6
    <2>2. task' = [task EXCEPT ![t] = row]
      BY <1>1, <1>6
    <2> HIDE DEF row, TaskRowOK
    <2> QED
      BY <2>1, <2>2, OneTaskTyped
  <1> HIDE DEF Task, TaskSteps, TaskRowOK
  <1> QED
    BY <1>2, <1>3, <1>4, <1>5, <1>6

LEMMA PrepareTyped ==
    ASSUME TypeInv, NEW t \in Tasks, NEW q \in Requests, Prepare(t, q)
    PROVE  TasksTyped'
  <1> DEFINE row == [NoTask EXCEPT !.step = "prepared", !.request = q,
                                   !.mayAsk = ~LastAnswerAsked(q.session)]
  <1>1. LastAnswerAsked(q.session) \in BOOLEAN
    BY DEF LastAnswerAsked
  <1>2. row \in Task /\ TaskRowOK(row)
    BY <1>1 DEF NoTask, Task, TaskSteps, TaskRowOK
  <1>3. task' = [task EXCEPT ![t] = row]
    BY DEF Prepare
  <1> QED
    BY <1>2, <1>3, OneTaskTyped

\* Whatever a task does, the tasks keep their types.
LEMMA TasksStep ==
    ASSUME TypeInv, Next
    PROVE  TasksTyped'
  <1>1. UNCHANGED task => TasksTyped'
    BY DEF TypeInv, TypeOK, TasksOK, TasksTyped
  <1>2. ASSUME NEW t \in Tasks, Arrive(t)  PROVE TasksTyped'
    BY <1>2, PrepareTyped DEF Arrive
  <1>3. ASSUME NEW t \in Tasks, TaskStep(t)  PROVE TasksTyped'
    <2>1. CASE StartRun(t) \/ JoinRun(t) \/ RefuseRun(t) \/ ReturnSaved(t)
      BY <2>1, TaskMoves DEF StartRun, JoinRun, RefuseRun, ReturnSaved
    <2>2. CASE NumberEvidence(t)
      <3>1. task[t].step = "started" /\ TaskRowOK(task[t])
        BY <2>2 DEF NumberEvidence, TypeInv, TasksOK
      <3>2. Request(t).session \in Sessions
        BY <3>1 DEF TaskRowOK, Request, Requests
      <3> QED
        BY <2>2, <3>1, <3>2, NextEvidenceAbove, TaskMoves DEF NumberEvidence
    <2>3. ASSUME NEW c \in Calls, OpenModelCall(t, c)  PROVE TasksTyped'
      BY <2>3, TaskMoves DEF OpenModelCall
    <2>4. CASE RefuseCall(t) \/ StopRun(t) \/ BreakRun(t)
      BY <2>4, TaskMoves DEF RefuseCall, StopRun, BreakRun
    <2>5. CASE ModelAnswers(t) \/ ModelFails(t)
      BY <2>5, TaskMoves DEF ModelAnswers, ModelFails
    <2>6. ASSUME NEW billed, SettleCall(t, billed)  PROVE TasksTyped'
      BY <2>6, TaskMoves DEF SettleCall
    <2>7. CASE RecordCall(t)
      <3>1. \/ task' = [task EXCEPT ![t].step = "working", ![t].call = 0]
            \/ task' = [task EXCEPT ![t].step = "cancelling", ![t].call = 0]
        BY <2>7 DEF RecordCall, TypeInv, TypeOK, Task
      <3> QED
        BY <2>7, <3>1, TaskMoves DEF RecordCall
    <2>8. CASE CutSettlement(t)
      BY <2>8, TaskMoves DEF CutSettlement
    <2>9. ASSUME NEW kind, NEW labels, FinishRun(t, kind, labels)  PROVE TasksTyped'
      BY <2>9, TaskMoves DEF FinishRun
    <2>10. CASE CloseRun(t) \/ CancelRun(t) \/ CloseCancelled(t)
      BY <2>10, TaskMoves DEF CloseRun, CancelRun, CloseCancelled
    <2> QED
      BY <1>3, <2>1, <2>2, <2>3, <2>4, <2>5, <2>6, <2>7, <2>8, <2>9, <2>10 DEF TaskStep
  <1>4. ASSUME NEW t \in Tasks, Disconnect(t) \/ CutBegin(t)  PROVE TasksTyped'
    BY <1>4, TaskMoves DEF Disconnect, CutBegin
  <1>5. ASSUME NEW t \in Tasks, Crash(t)  PROVE TasksTyped'
    BY <1>5, TaskMoves DEF Crash
  <1>6. (\E c \in Calls : DetachedSettle(c)) => UNCHANGED task
    BY DEF DetachedSettle
  <1>7. (\E q \in Requests : GrowStale(q)) => UNCHANGED task
    BY DEF GrowStale
  <1>8. TeacherStep \/ (Midnight /\ UNCHANGED <<runs, call, tasks>>) => UNCHANGED task
    BY DEF TeacherStep, tasks
  <1> QED
    BY <1>1, <1>2, <1>3, <1>4, <1>5, <1>6, <1>7, <1>8 DEF Next

-----------------------------------------------------------------------------
(* What a step does to the database *)

RunTransaction(q) ==
    \/ Begin(q) \/ BeginAgain(q) \/ RequestCancel(q) \/ Age(q)
    \/ \E status \in {"failed", "cancelled"} : MarkTerminal(q, status)
    \/ \E t \in Tasks : /\ task[t].step = "working" /\ Request(t) = q
                       /\ FinishesWith(q, task[t].first)

QuotaStep == Midnight \/ \E p \in Teachers : ReadUsage(p) \/ Grant(p)

Transaction ==
    \/ (\E q \in Requests : RunTransaction(q)) /\ UNCHANGED <<call, quota>>
    \/ (\E q \in Requests, c \in Calls : Reserve(q, c)) /\ UNCHANGED <<runs, quota>>
    \/ \E c \in Calls, billed \in Nat : Settle(c, billed)
    \/ QuotaStep /\ UNCHANGED <<runs, call>>
    \/ UNCHANGED <<runs, call, quota>>

\* Every step is at most one transaction.
LEMMA StepIsTransaction ==
    ASSUME TypeInv, [Next]_vars
    PROVE  Transaction
  <1>1. ASSUME NEW t \in Tasks, task[t].step # "idle"
        PROVE  /\ Request(t) \in Requests
               /\ task[t].step \in {"settling", "recording"} => OpenCall(t) \in Calls
               /\ task[t].step = "closing" => task[t].then \in {"failed", "cancelled"}
               /\ task[t].first \in Nat
    BY <1>1 DEF TypeInv, TypeOK, TasksOK, TaskRowOK, Request, OpenCall, Task
  <1>2. ASSUME NEW t \in Tasks, Arrive(t)  PROVE Transaction
    BY <1>2 DEF Arrive, Prepare, Transaction
  <1>3. ASSUME NEW t \in Tasks, TaskStep(t)  PROVE Transaction
    <2>1. CASE StartRun(t) \/ JoinRun(t)
      BY <1>1, <2>1 DEF StartRun, JoinRun, Transaction, RunTransaction
    <2>2. CASE RefuseRun(t) \/ ReturnSaved(t) \/ NumberEvidence(t)
      BY <2>2 DEF RefuseRun, ReturnSaved, NumberEvidence, Transaction
    <2>3. ASSUME NEW c \in Calls, OpenModelCall(t, c)  PROVE Transaction
      BY <1>1, <2>3 DEF OpenModelCall, Transaction
    <2>4. CASE RefuseCall(t) \/ StopRun(t) \/ ModelAnswers(t) \/ ModelFails(t)
      BY <2>4 DEF RefuseCall, StopRun, ModelAnswers, ModelFails, Transaction
    <2>5. ASSUME NEW billed \in Bills, SettleCall(t, billed)  PROVE Transaction
      BY <1>1, <2>5, TokenAssumption DEF SettleCall, Transaction
    <2>6. CASE RecordCall(t)
      BY <1>1, <2>6, TokenAssumption DEF RecordCall, Transaction
    <2>7. CASE CutSettlement(t) \/ BreakRun(t)
      BY <2>7 DEF CutSettlement, BreakRun, Transaction
    <2>8. ASSUME NEW kind \in {"answer", "back"},
                 NEW labels \in SUBSET (task[t].first .. task[t].first + NewEvidence - 1),
                 FinishRun(t, kind, labels)
          PROVE  Transaction
      <3>1. /\ Request(t) \in Requests /\ task[t].first \in Nat
            /\ Finish(Request(t), kind, labels) /\ UNCHANGED <<call, quota>>
        BY <1>1, <2>8 DEF FinishRun
      <3>2. RunTransaction(Request(t))
        BY <2>8, <3>1 DEF FinishRun, RunTransaction, FinishesWith
      <3> QED
        BY <3>1, <3>2 DEF Transaction
    <2>9. CASE CloseRun(t)
      BY <1>1, <2>9 DEF CloseRun, Transaction, RunTransaction
    <2>10. CASE CancelRun(t) \/ CloseCancelled(t)
      BY <1>1, <2>10 DEF CancelRun, CloseCancelled, Transaction, RunTransaction
    <2> QED
      BY <1>3, <2>1, <2>2, <2>3, <2>4, <2>5, <2>6, <2>7, <2>8, <2>9, <2>10 DEF TaskStep
  <1>4. ASSUME NEW t \in Tasks, Disconnect(t) \/ CutBegin(t) \/ Crash(t)  PROVE Transaction
    <2>1. CASE Disconnect(t) \/ Crash(t)
      BY <2>1 DEF Disconnect, Crash, Transaction
    <2>2. CASE CutBegin(t)
      BY <1>1, <2>2 DEF CutBegin, Transaction, RunTransaction
    <2> QED
      BY <1>4, <2>1, <2>2
  <1>5. ASSUME NEW c \in Calls, DetachedSettle(c)  PROVE Transaction
    BY <1>5, TokenAssumption DEF DetachedSettle, Transaction
  <1>6. ASSUME NEW q \in Requests, GrowStale(q)  PROVE Transaction
    BY <1>6 DEF GrowStale, Transaction, RunTransaction
  <1>7. CASE TeacherStep \/ (Midnight /\ UNCHANGED <<runs, call, tasks>>)
    BY <1>7 DEF TeacherStep, Transaction, QuotaStep
  <1>8. CASE UNCHANGED vars
    BY <1>8 DEF vars, runs, quota, Transaction
  <1> QED
    BY <1>2, <1>3, <1>4, <1>5, <1>6, <1>7, <1>8 DEF Next

LEMMA TransactionTypes ==
    ASSUME TypeInv, Transaction
    PROVE  RunsTyped' /\ UsageTyped'
  <1>1. UNCHANGED runs => RunsTyped'
    BY DEF TypeInv, TypeOK, runs, RunsTyped, CitedFinite
  <1>2. UNCHANGED call => call' \in [Calls -> Call] /\ CallsOK'
    BY DEF TypeInv, TypeOK, CallsOK
  <1>3. UNCHANGED <<call, quota>> => UsageTyped'
    BY <1>2 DEF TypeInv, TypeOK, quota, UsageTyped
  <1>4. ASSUME NEW q \in Requests, RunTransaction(q), UNCHANGED <<call, quota>>
        PROVE  RunsTyped' /\ UsageTyped'
    <2>1. \A t \in Tasks : task[t].first \in Nat
      BY DEF TypeInv, TypeOK, Task
    <2>2. RunsTyped'
      BY <1>4, <2>1, RunsTypes DEF RunTransaction
    <2> QED
      BY <1>3, <1>4, <2>2
  <1>5. ASSUME NEW q \in Requests, NEW c \in Calls, Reserve(q, c), UNCHANGED <<runs, quota>>
        PROVE  RunsTyped' /\ UsageTyped'
    BY <1>1, <1>5, ReserveTypes DEF quota, UsageTyped, TypeInv, TypeOK
  <1>6. ASSUME NEW c \in Calls, NEW billed \in Nat, Settle(c, billed)
        PROVE  RunsTyped' /\ UsageTyped'
    BY <1>6, SettleTypes
  <1>7. ASSUME QuotaStep, UNCHANGED <<runs, call>>
        PROVE  RunsTyped' /\ UsageTyped'
    <2>1. /\ day' \in Days
          /\ used' \in [Days -> Nat] /\ granted' \in [Days -> Nat]
          /\ refill' \in [Teachers -> Nat \X Nat]
      <3>1. day \in Nat /\ day \in Days /\ used \in [Days -> Nat] /\ granted \in [Days -> Nat]
            /\ refill \in [Teachers -> Nat \X Nat]
        BY DEF TypeInv, TypeOK, Days
      <3>2. CASE Midnight
        BY <3>1, <3>2, RunBounds DEF Midnight, Days
      <3>3. ASSUME NEW p \in Teachers, ReadUsage(p)
            PROVE  used[day] - granted[day] \in Nat
        BY <3>1, <3>3 DEF ReadUsage
      <3>4. ASSUME NEW p \in Teachers, ReadUsage(p)
            PROVE  refill' \in [Teachers -> Nat \X Nat]
        BY <3>1, <3>3, <3>4 DEF ReadUsage
      <3>5. ASSUME NEW p \in Teachers, Grant(p)
            PROVE  granted' \in [Days -> Nat] /\ refill' \in [Teachers -> Nat \X Nat]
        <4>1. refill[p] \in Nat \X Nat
          BY <3>1
        <4>2. refill[p][1] \in Nat /\ refill[p][2] \in Nat
          BY <4>1
        <4>3. granted' = [granted EXCEPT ![refill[p][1]] = granted[refill[p][1]] + refill[p][2]]
          BY <3>5 DEF Grant
        <4>4. granted' \in [Days -> Nat]
          <5>1. ASSUME NEW f \in [Days -> Nat], NEW d, NEW n \in Nat
                PROVE  [f EXCEPT ![d] = f[d] + n] \in [Days -> Nat]
            <6>1. CASE d \in Days
              <7>1. f[d] + n \in Nat
                BY <6>1
              <7> QED
                BY <6>1, <7>1
            <6>2. CASE d \notin Days
              <7>1. [f EXCEPT ![d] = f[d] + n] = f
                BY <6>2
              <7> QED
                BY <7>1
            <6> QED
              BY <6>1, <6>2
          <5> QED
            BY <3>1, <4>2, <4>3, <5>1
        <4>5. refill' \in [Teachers -> Nat \X Nat]
          BY <3>1, <3>5 DEF Grant, NoRefill
        <4> QED
          BY <4>4, <4>5
      <3> QED
        BY <1>7, <3>1, <3>2, <3>4, <3>5 DEF QuotaStep, ReadUsage, Grant
    <2> QED
      BY <1>1, <1>2, <1>7, <2>1 DEF UsageTyped
  <1> QED
    BY <1>1, <1>3, <1>4, <1>5, <1>6, <1>7 DEF Transaction

LEMMA TypeStep == TypeInv /\ [Next]_vars => TypeInv'
  <1> SUFFICES ASSUME TypeInv, [Next]_vars  PROVE TypeInv'
    OBVIOUS
  <1>1. RunsTyped' /\ UsageTyped'
    BY StepIsTransaction, TransactionTypes
  <1>2. TasksTyped'
    BY TasksStep DEF vars, TypeInv, TypeOK, TasksOK, TasksTyped
  <1>3. detached' \subseteq Calls /\ lost' \subseteq Requests /\ faults' \in Nat
    <2>1. detached \subseteq Calls /\ lost \subseteq Requests /\ faults \in Nat
      BY DEF TypeInv, TypeOK
    <2>2. ASSUME NEW t \in Tasks, task[t].step # "idle"
          PROVE  /\ Request(t) \in Requests
                 /\ task[t].step = "recording" => OpenCall(t) \in Calls
      BY <2>2 DEF TypeInv, TasksOK, TaskRowOK, Request, OpenCall
    <2>3. ASSUME NEW t \in Tasks, TaskStep(t)
          PROVE  UNCHANGED <<lost, faults>> /\ (UNCHANGED detached \/ CutSettlement(t))
      BY <2>3 DEF TaskStep, StartRun, JoinRun, RefuseRun, ReturnSaved, NumberEvidence,
                  OpenModelCall, RefuseCall, StopRun, ModelAnswers, ModelFails, SettleCall,
                  RecordCall, CutSettlement, FinishRun, BreakRun, CloseRun, CancelRun,
                  CloseCancelled
    <2>4. ASSUME NEW t \in Tasks, CutSettlement(t)  PROVE detached' \subseteq Calls
      BY <2>1, <2>2, <2>4 DEF CutSettlement
    <2>5. ASSUME NEW t \in Tasks, Arrive(t)
          PROVE  UNCHANGED <<detached, lost, faults>>
      BY <2>5 DEF Arrive, Prepare
    <2>6. ASSUME NEW t \in Tasks, Disconnect(t) \/ CutBegin(t)
          PROVE  detached' \subseteq Calls /\ lost' \subseteq Requests /\ faults' \in Nat
      BY <2>1, <2>2, <2>6 DEF Disconnect, CutBegin
    <2>7. ASSUME NEW t \in Tasks, Crash(t)
          PROVE  detached' \subseteq Calls /\ lost' \subseteq Requests /\ faults' \in Nat
      BY <2>1, <2>2, <2>7 DEF Crash
    <2>8. ASSUME NEW c \in Calls, DetachedSettle(c)
          PROVE  detached' \subseteq Calls /\ lost' \subseteq Requests /\ faults' \in Nat
      BY <2>1, <2>8 DEF DetachedSettle
    <2>9. ASSUME NEW q \in Requests, GrowStale(q)
          PROVE  detached' \subseteq Calls /\ lost' \subseteq Requests /\ faults' \in Nat
      BY <2>1, <2>9 DEF GrowStale
    <2>10. ASSUME TeacherStep \/ (Midnight /\ UNCHANGED <<runs, call, tasks>>) \/ UNCHANGED vars
           PROVE  UNCHANGED <<detached, lost, faults>>
      BY <2>10 DEF TeacherStep, tasks, vars
    <2> QED
      BY <2>1, <2>3, <2>4, <2>5, <2>6, <2>7, <2>8, <2>9, <2>10 DEF Next
  <1> QED
    BY <1>1, <1>2, <1>3 DEF TypeInv, TypeOK, RunsTyped, UsageTyped, TasksTyped

\* Every variable keeps its type, for any number of tasks, calls and days.
THEOREM TypeCorrect == Spec => []TypeOK
  <1>1. Init => TypeInv
    BY TypeInit
  <1>2. TypeInv /\ [Next]_vars => TypeInv'
    BY TypeStep
  <1>3. TypeInv => TypeOK
    BY DEF TypeInv
  <1> QED
    BY <1>1, <1>2, <1>3, PTL DEF Spec

-----------------------------------------------------------------------------
(* Runs and their settlement *)

RowChange(p) ==
    \/ run'[p] = run[p]
    \/ Active(p) /\ \E status \in {"failed", "cancelled"} : run'[p] = Closed(run[p], p, status)
    \/ run[p].status = "none" /\ run'[p] = NewRun
    \/ run[p].status = "running" /\ run'[p] = [run[p] EXCEPT !.status = "cancelling"]
    \/ Active(p) /\ run'[p] = [run[p] EXCEPT !.aged = TRUE]
    \/ /\ Finishable(p)
       /\ run'[p] = [run[p] EXCEPT !.status = "finished", !.settlement = "settled"]

\* The ways in which a transaction changes the rows of agent_runs.
LEMMA RowChanges ==
    ASSUME TypeInv, NEW q \in Requests, RunTransaction(q)
    PROVE  \A p \in Requests : RowChange(p)
  <1> SUFFICES ASSUME NEW p \in Requests  PROVE RowChange(p)
    OBVIOUS
  <1>1. run \in [Requests -> Run]
    BY DEF TypeInv, TypeOK
  <1>2. \/ StaleClosed(q.session)[p] = run[p]
        \/ Active(p) /\ StaleClosed(q.session)[p] = Closed(run[p], p, "failed")
    BY DEF StaleClosed, Stale
  <1>3. CASE Begin(q)
    BY <1>1, <1>2, <1>3 DEF Begin, StaleClosed, RowChange
  <1>4. CASE BeginAgain(q)
    BY <1>2, <1>4 DEF BeginAgain, RowChange
  <1>5. CASE RequestCancel(q)
    BY <1>1, <1>5 DEF RequestCancel, RowChange
  <1>6. CASE Age(q)
    BY <1>1, <1>6 DEF Age, RowChange
  <1>7. ASSUME NEW status \in {"failed", "cancelled"}, MarkTerminal(q, status)
        PROVE  RowChange(p)
    BY <1>1, <1>7 DEF MarkTerminal, RowChange
  <1>8. ASSUME NEW kind, NEW labels, Finish(q, kind, labels)
        PROVE  RowChange(p)
    BY <1>1, <1>8 DEF Finish, RowChange
  <1> QED
    BY <1>3, <1>4, <1>5, <1>6, <1>7, <1>8 DEF RunTransaction, FinishesWith

\* A step of one row that is right leaves it right.
SettledRow(q) ==
    /\ run[q].settlement = "settled" <=> Ended(q) /\ HeldCalls(q) = {}
    /\ run[q].status = "finished" => run[q].settlement = "settled"

LEMMA RowStaysSettled ==
    ASSUME TypeInv, NEW p \in Requests, RowChange(p), SettledRow(p), UNCHANGED call
    PROVE  SettledRow(p)'
  <1>1. HeldCalls(p)' = HeldCalls(p)
    BY DEF HeldCalls
  <1>2. run[p] \in Run
    BY DEF TypeInv, TypeOK
  <1>3. CASE run'[p] = run[p]
    BY <1>1, <1>3 DEF SettledRow, Ended
  <1>4. ASSUME NEW status \in {"failed", "cancelled"}, run'[p] = Closed(run[p], p, status)
        PROVE  SettledRow(p)'
    <2>1. run'[p].status = status
          /\ run'[p].settlement = IF HeldCalls(p) = {} THEN "settled" ELSE "open"
      BY <1>2, <1>4 DEF Closed, Run
    <2> QED
      BY <1>1, <2>1 DEF SettledRow, Ended
  <1>5. CASE run[p].status = "none" /\ run'[p] = NewRun
    BY <1>1, <1>5 DEF SettledRow, Ended, NewRun, NoRun
  <1>6. CASE run[p].status = "running" /\ run'[p] = [run[p] EXCEPT !.status = "cancelling"]
    BY <1>1, <1>2, <1>6 DEF SettledRow, Ended, Run
  <1>7. CASE Active(p) /\ run'[p] = [run[p] EXCEPT !.aged = TRUE]
    BY <1>1, <1>2, <1>7 DEF SettledRow, Ended, Run
  <1>8. CASE /\ Finishable(p)
             /\ run'[p] = [run[p] EXCEPT !.status = "finished", !.settlement = "settled"]
    <2>1. run'[p].status = "finished" /\ run'[p].settlement = "settled"
      BY <1>2, <1>8 DEF Run
    <2> QED
      BY <1>1, <1>8, <2>1 DEF SettledRow, Ended, Finishable
  <1> QED
    BY <1>3, <1>4, <1>5, <1>6, <1>7, <1>8 DEF RowChange

LEMMA RowsStaySettled ==
    ASSUME TypeInv, \A q \in Requests : SettledRow(q), Transaction
    PROVE  \A q \in Requests : SettledRow(q)'
  <1> SUFFICES ASSUME NEW p \in Requests  PROVE SettledRow(p)'
    OBVIOUS
  <1>1. UNCHANGED <<run, call>> => SettledRow(p)'
    BY DEF SettledRow, Ended, HeldCalls
  <1>2. ASSUME NEW q \in Requests, RunTransaction(q), UNCHANGED call
        PROVE  SettledRow(p)'
    BY <1>2, RowChanges, RowStaysSettled
  <1>3. ASSUME NEW q \in Requests, NEW c \in Calls, Reserve(q, c), UNCHANGED run
        PROVE  SettledRow(p)'
    <2>1. /\ call'[c].request = q /\ call[c].state = "none"
          /\ \A b \in Calls : b # c => call'[b] = call[b]
      BY <1>3 DEF Reserve, NextCall, TypeInv, TypeOK
    <2>2. p # q => HeldCalls(p)' = HeldCalls(p)
      BY <2>1 DEF HeldCalls
    <2>3. ~Ended(q) /\ (Ended(p)' <=> Ended(p))
      BY <1>3 DEF Reserve, Ended
    <2>4. SettledRow(p)
      OBVIOUS
    <2> QED
      BY <1>3, <2>2, <2>3, <2>4 DEF SettledRow
  <1>4. ASSUME NEW c \in Calls, NEW billed, Settle(c, billed)
        PROVE  SettledRow(p)'
    <2> DEFINE q == call[c].request
    <2>1. /\ call[c].state = "active" /\ call'[c].state = "settled"
          /\ \A b \in Calls : b # c => call'[b] = call[b]
      <3>1. call \in [Calls -> Call] /\ call[c] \in Call
        BY DEF TypeInv, TypeOK
      <3> QED
        BY <1>4, <3>1 DEF Settle, Call
    <2>2. HeldCalls(p)' = HeldCalls(p) \ {c} /\ (c \in HeldCalls(p) <=> p = q)
      BY <2>1 DEF HeldCalls
    <2>3. run' = Settlement(c) /\ run \in [Requests -> Run] /\ run[p] \in Run
      BY <1>4 DEF Settle, TypeInv, TypeOK
    <2>4. SettledRow(p)
      OBVIOUS
    <2>5. CASE p = q
      <3>1. run[p].settlement = "open" /\ run[p].status # "finished"
        BY <2>2, <2>3, <2>4, <2>5 DEF SettledRow, Run, Settlements
      <3>2. CASE run[p].status \in {"failed", "cancelled"} /\ HeldCalls(p) = {c}
        <4>1. run'[p].status = run[p].status /\ run'[p].settlement = "settled"
          BY <2>3, <2>5, <3>2 DEF Settlement, Run
        <4> QED
          BY <2>2, <3>2, <4>1 DEF SettledRow, Ended
      <3>3. CASE ~(run[p].status \in {"failed", "cancelled"} /\ HeldCalls(p) = {c})
        <4>1. run'[p] = run[p]
          BY <2>3, <2>5, <3>3 DEF Settlement
        <4>2. ~(Ended(p) /\ HeldCalls(p)' = {})
          BY <2>2, <2>5, <3>1, <3>3 DEF Ended
        <4> QED
          BY <3>1, <4>1, <4>2 DEF SettledRow, Ended
      <3> QED
        BY <3>2, <3>3
    <2>6. CASE p # q
      <3>1. run'[p] = run[p]
        BY <2>3, <2>6 DEF Settlement
      <3>2. HeldCalls(p)' = HeldCalls(p)
        BY <2>2, <2>6
      <3> QED
        BY <2>4, <3>1, <3>2 DEF SettledRow, Ended
    <2> QED
      BY <2>5, <2>6
  <1> QED
    BY <1>1, <1>2, <1>3, <1>4 DEF Transaction, runs

\* A new run is the only one at work in its session.
LEMMA BeginTakesSession ==
    ASSUME TypeInv, NEW q \in Requests, Begin(q)
    PROVE  /\ Active(q)'
           /\ \A p \in Requests : p.session = q.session /\ Active(p)' => p = q
           /\ \A p \in Requests : p.session # q.session => (Active(p)' <=> Active(p))
  <1>1. run \in [Requests -> Run]
    BY DEF TypeInv, TypeOK
  <1>2. Active(q)'
    BY <1>1 DEF Begin, StaleClosed, Active, ActiveStates, NewRun, NoRun
  <1>3. ASSUME NEW p \in Requests, Active(p)', p.session = q.session
        PROVE  p = q
    <2>1. p # q => run'[p] = StaleClosed(q.session)[p]
      BY DEF Begin, StaleClosed
    <2>2. p \in Stale(q.session) => StaleClosed(q.session)[p].status = "failed"
      BY <1>1 DEF StaleClosed, Closed, Run
    <2>3. p \notin Stale(q.session) => StaleClosed(q.session)[p] = run[p]
      BY DEF StaleClosed
    <2>4. p # q => p \notin Stale(q.session) /\ Active(p)
      BY <1>3, <2>1, <2>2, <2>3 DEF Active, ActiveStates
    <2> QED
      BY <1>3, <2>4 DEF Begin, Busy
  <1>4. ASSUME NEW p \in Requests, p.session # q.session
        PROVE  Active(p)' <=> Active(p)
    BY <1>4 DEF Begin, StaleClosed, Stale, Active
  <1> QED
    BY <1>2, <1>3, <1>4

\* A transaction adds an active run only to a session that then has no other.
LEMMA OneStaysActive ==
    ASSUME TypeInv, OneActive, Transaction
    PROVE  OneActive'
  <1>1. run \in [Requests -> Run]
    BY DEF TypeInv, TypeOK
  <1>2. (\A p \in Requests : Active(p)' => Active(p)) => OneActive'
    BY DEF OneActive
  <1>3. ASSUME NEW p \in Requests, RowChange(p), Active(p)', ~Active(p)
        PROVE  run[p].status = "none" /\ run'[p] = NewRun
    BY <1>1, <1>3 DEF RowChange, Active, ActiveStates, Finishable
  <1>4. ASSUME NEW q \in Requests, RunTransaction(q)
        PROVE  OneActive'
    <2>1. CASE Begin(q)
      BY <2>1, BeginTakesSession DEF OneActive
    <2>2. CASE BeginAgain(q)
      <3>1. ASSUME NEW p \in Requests  PROVE Active(p)' => Active(p)
        BY <1>1, <2>2 DEF BeginAgain, StaleClosed, Stale, Active
      <3> QED
        BY <1>2, <3>1
    <2>3. CASE RequestCancel(q)
      BY <1>1, <1>2, <2>3 DEF RequestCancel, Active, ActiveStates
    <2>4. CASE Age(q)
      <3>1. run[q] \in Run
        BY <1>1
      <3>2. [run[q] EXCEPT !.aged = TRUE].status = run[q].status
        BY <3>1 DEF Run
      <3> QED
        BY <1>1, <1>2, <2>4, <3>2 DEF Age, Active
    <2>5. ASSUME NEW status, MarkTerminal(q, status)  PROVE OneActive'
      BY <1>1, <1>2, <2>5 DEF MarkTerminal, Active
    <2>6. ASSUME NEW kind, NEW labels, Finish(q, kind, labels)  PROVE OneActive'
      <3>1. \A p \in Requests : p # q => run'[p] = run[p]
        BY <1>1, <2>6 DEF Finish
      <3>2. Active(q)
        BY <2>6 DEF Finish, Finishable, Active, ActiveStates
      <3> QED
        BY <1>2, <3>1, <3>2 DEF Active
    <2> QED
      BY <1>4, <2>1, <2>2, <2>3, <2>4, <2>5, <2>6 DEF RunTransaction, FinishesWith
  <1>5. ASSUME NEW c \in Calls, NEW billed, Settle(c, billed)
        PROVE  OneActive'
    <2>1. \A p \in Requests : run'[p].status = run[p].status
      <3> SUFFICES ASSUME NEW p \in Requests  PROVE run'[p].status = run[p].status
        OBVIOUS
      <3>1. run[p] \in Run
        BY <1>1
      <3>2. run'[p] = run[p] \/ run'[p] = [run[p] EXCEPT !.settlement = "settled"]
        BY <1>1, <1>5 DEF Settle, Settlement
      <3> QED
        BY <3>1, <3>2 DEF Run
    <2> QED
      BY <1>2, <2>1 DEF Active
  <1>6. UNCHANGED run => OneActive'
    BY <1>2 DEF Active
  <1> QED
    BY <1>4, <1>5, <1>6 DEF Transaction, runs

LEMMA RunsInit == Init => RunsInv
  BY TypeInit DEF Init, InitRuns, InitUsage, NoRun, NoCall, RunsInv, SettledMeansSettled,
                  FinishedIsSettled, OneActive, Ended, Active, ActiveStates

LEMMA RunsStep == RunsInv /\ [Next]_vars => RunsInv'
  <1> SUFFICES ASSUME RunsInv, [Next]_vars  PROVE RunsInv'
    OBVIOUS
  <1>1. TypeInv /\ OneActive /\ \A q \in Requests : SettledRow(q)
    BY DEF RunsInv, SettledMeansSettled, FinishedIsSettled, SettledRow
  <1>2. TypeInv' /\ Transaction
    BY <1>1, TypeStep, StepIsTransaction
  <1>3. \A q \in Requests : SettledRow(q)'
    BY <1>1, <1>2, RowsStaySettled
  <1>4. OneActive'
    BY <1>1, <1>2, OneStaysActive
  <1> QED
    BY <1>2, <1>3, <1>4 DEF RunsInv, SettledMeansSettled, FinishedIsSettled, SettledRow

\* Whichever of close and settle comes last, a run counts as settled exactly when it
\* has ended and none of its reservations holds quota: _close and settle look at
\* the calls and at the run under the same lock.
THEOREM RunsAreSettled == Spec => []SettledMeansSettled
  <1>1. Init => RunsInv
    BY RunsInit
  <1>2. RunsInv /\ [Next]_vars => RunsInv'
    BY RunsStep
  <1>3. RunsInv => SettledMeansSettled
    BY DEF RunsInv
  <1> QED
    BY <1>1, <1>2, <1>3, PTL DEF Spec

-----------------------------------------------------------------------------
(* Labels *)

StatusChange(p) ==
    \/ run'[p].status = run[p].status
    \/ run[p].status = "none" /\ run'[p].status = "running"
    \/ Active(p) /\ run'[p].status \in {"cancelling", "finished", "failed", "cancelled"}

\* What has ended stays as it ended.
LEMMA StatusChanges ==
    ASSUME TypeInv, Transaction
    PROVE  \A p \in Requests : StatusChange(p)
  <1> SUFFICES ASSUME NEW p \in Requests  PROVE StatusChange(p)
    OBVIOUS
  <1>1. run \in [Requests -> Run] /\ run[p] \in Run
    BY DEF TypeInv, TypeOK
  <1>2. ASSUME RowChange(p)  PROVE StatusChange(p)
    <2>1. CASE run'[p] = run[p]
      BY <2>1 DEF StatusChange
    <2>2. ASSUME NEW status \in {"failed", "cancelled"}, Active(p),
                 run'[p] = Closed(run[p], p, status)
          PROVE  StatusChange(p)
      BY <1>1, <2>2 DEF Closed, Run, StatusChange
    <2>3. CASE run[p].status = "none" /\ run'[p] = NewRun
      BY <2>3 DEF NewRun, NoRun, StatusChange
    <2>4. CASE run[p].status = "running" /\ run'[p] = [run[p] EXCEPT !.status = "cancelling"]
      BY <1>1, <2>4 DEF Run, StatusChange, Active, ActiveStates
    <2>5. CASE Active(p) /\ run'[p] = [run[p] EXCEPT !.aged = TRUE]
      BY <1>1, <2>5 DEF Run, StatusChange
    <2>6. CASE /\ Finishable(p)
               /\ run'[p] = [run[p] EXCEPT !.status = "finished", !.settlement = "settled"]
      BY <1>1, <2>6 DEF Run, StatusChange, Finishable, Active, ActiveStates
    <2> QED
      BY <1>2, <2>1, <2>2, <2>3, <2>4, <2>5, <2>6 DEF RowChange
  <1>3. ASSUME NEW c \in Calls, NEW billed, Settle(c, billed)
        PROVE  StatusChange(p)
    <2>1. run'[p] = run[p] \/ run'[p] = [run[p] EXCEPT !.settlement = "settled"]
      BY <1>1, <1>3 DEF Settle, Settlement
    <2> QED
      BY <1>1, <2>1 DEF Run, StatusChange
  <1>4. UNCHANGED run => StatusChange(p)
    BY DEF StatusChange
  <1> QED
    BY <1>2, <1>3, <1>4, RowChanges DEF Transaction, runs

TaskChange(t) ==
    /\ Works(t)' => \/ StartRun(t)
                    \/ Works(t) /\ task'[t].request = task[t].request
    /\ Numbered(t)' => \/ NumberEvidence(t)
                       \/ /\ Numbered(t) /\ task'[t].request = task[t].request
                          /\ task'[t].first = task[t].first

\* How a task comes to work on a run, and to number what it reads.
LEMMA TaskChanges ==
    ASSUME TypeInv, [Next]_vars
    PROVE  \A t \in Tasks : TaskChange(t)
  <1> SUFFICES ASSUME NEW t \in Tasks  PROVE TaskChange(t)
    OBVIOUS
  <1>1. task \in [Tasks -> Task] /\ task[t] \in Task
    BY DEF TypeInv, TypeOK
  <1>2. ASSUME task'[t] = task[t]  PROVE TaskChange(t)
    BY <1>2 DEF TaskChange, Works, Numbered
  <1>3. ASSUME NEW u \in Tasks, Leave(u)  PROVE TaskChange(t)
    BY <1>1, <1>2, <1>3 DEF Leave, NoTask, TaskChange, Works, Numbered
  <1>4. ASSUME NEW u \in Tasks, NEW step, Works(u),
               \/ GoTo(u, step)
               \/ \E then : GoTry(u, step, then)
               \/ \E c : task' = [task EXCEPT ![u].step = step, ![u].call = c],
               Numbered(u) \/ step \in {"closing", "cancelling", "cancelled"}
        PROVE  TaskChange(t)
    <2>1. CASE u = t
      <3>1. /\ task'[t].step = step /\ task'[t].request = task[t].request
            /\ task'[t].first = task[t].first
        BY <1>1, <1>4, <2>1 DEF GoTo, GoTry, Task
      <3> QED
        BY <1>4, <2>1, <3>1 DEF TaskChange, Numbered
    <2>2. CASE u # t
      BY <1>1, <1>2, <1>4, <2>2 DEF GoTo, GoTry
    <2> QED
      BY <2>1, <2>2
  <1>5. ASSUME NEW u \in Tasks, Arrive(u)  PROVE TaskChange(t)
    BY <1>1, <1>2, <1>5 DEF Arrive, Prepare, NoTask, TaskChange, Works, Numbered
  <1>6. ASSUME NEW u \in Tasks, StartRun(u)  PROVE TaskChange(t)
    <2>1. u # t => task'[t] = task[t]
      BY <1>1, <1>6 DEF StartRun, GoTo
    <2>2. u = t => ~Numbered(t)'
      BY <1>1, <1>6 DEF StartRun, GoTo, Numbered, Task
    <2> QED
      BY <1>2, <1>6, <2>1, <2>2 DEF TaskChange
  <1>7. ASSUME NEW u \in Tasks, JoinRun(u)  PROVE TaskChange(t)
    <2>1. u # t => task'[t] = task[t]
      BY <1>1, <1>7 DEF JoinRun, GoTo
    <2>2. u = t => ~Works(t)' /\ ~Numbered(t)'
      BY <1>1, <1>7 DEF JoinRun, GoTo, Works, Numbered, Task
    <2> QED
      BY <1>2, <2>1, <2>2 DEF TaskChange
  <1>8. ASSUME NEW u \in Tasks, NumberEvidence(u)  PROVE TaskChange(t)
    <2>1. u # t => task'[t] = task[t]
      BY <1>1, <1>8 DEF NumberEvidence
    <2>2. u = t => Works(t) /\ task'[t].request = task[t].request
      BY <1>1, <1>8 DEF NumberEvidence, Works, Task, TaskSteps
    <2> QED
      BY <1>2, <1>8, <2>1, <2>2 DEF TaskChange
  <1>9. ASSUME NEW u \in Tasks,
               RefuseRun(u) \/ ReturnSaved(u) \/ CloseRun(u) \/ CloseCancelled(u) \/ Crash(u)
                   \/ CutBegin(u) \/ \E kind, labels : FinishRun(u, kind, labels)
        PROVE  TaskChange(t)
    BY <1>3, <1>9 DEF RefuseRun, ReturnSaved, CloseRun, CloseCancelled, Crash, CutBegin, FinishRun
  <1>10. ASSUME NEW u \in Tasks,
                RefuseCall(u) \/ StopRun(u) \/ BreakRun(u) \/ CancelRun(u)
                    \/ ModelAnswers(u) \/ ModelFails(u)
         PROVE  TaskChange(t)
    <2>1. Works(u)
      BY <1>10 DEF RefuseCall, StopRun, BreakRun, CancelRun, ModelAnswers, ModelFails,
                   Works, TaskSteps
    <2>2. (ModelAnswers(u) \/ ModelFails(u)) => Numbered(u)
      BY DEF ModelAnswers, ModelFails, Numbered
    <2> QED
      BY <1>4, <1>10, <2>1, <2>2 DEF RefuseCall, StopRun, BreakRun, CancelRun,
                                     ModelAnswers, ModelFails
  <1>11. ASSUME NEW u \in Tasks,
                (\E c : OpenModelCall(u, c)) \/ (\E billed : SettleCall(u, billed))
                    \/ CutSettlement(u)
         PROVE  TaskChange(t)
    <2>1. Works(u) /\ Numbered(u)
      BY <1>11 DEF OpenModelCall, SettleCall, CutSettlement, Works, TaskSteps, Numbered
    <2> QED
      BY <1>4, <1>11, <2>1 DEF OpenModelCall, SettleCall, CutSettlement
  <1>12. ASSUME NEW u \in Tasks, RecordCall(u)  PROVE TaskChange(t)
    <2>1. Works(u) /\ Numbered(u)
      BY <1>12 DEF RecordCall, Works, TaskSteps, Numbered
    <2>2. \/ task' = [task EXCEPT ![u].step = "working", ![u].call = 0]
          \/ task' = [task EXCEPT ![u].step = "cancelling", ![u].call = 0]
      <3>1. task[u] \in Task
        BY <1>1
      <3> QED
        BY <1>1, <1>12, <3>1 DEF RecordCall, Task
    <2> QED
      BY <1>4, <2>1, <2>2
  <1>13. ASSUME NEW u \in Tasks, Disconnect(u)  PROVE TaskChange(t)
    <2>1. CASE Leave(u)
      BY <1>3, <2>1
    <2>2. CASE ~Leave(u)
      <3>1. Works(u)
        BY <1>13, <2>2 DEF Disconnect, Works, TaskSteps
      <3>2. \/ task' = [task EXCEPT ![u].step = "cancelling", ![u].call = 0]
            \/ Numbered(u) /\ GoTry(u, "recording", "cancelled")
        BY <1>13, <2>2 DEF Disconnect, Numbered
      <3> QED
        BY <1>4, <3>1, <3>2
    <2> QED
      BY <2>1, <2>2
  <1>14. ASSUME NEW u \in Tasks, TaskStep(u)  PROVE TaskChange(t)
    BY <1>6, <1>7, <1>8, <1>9, <1>10, <1>11, <1>12, <1>14 DEF TaskStep
  <1>15. ASSUME UNCHANGED task  PROVE TaskChange(t)
    BY <1>2, <1>15
  <1>16. (\E c \in Calls : DetachedSettle(c)) \/ (\E q \in Requests : GrowStale(q))
             \/ TeacherStep \/ (Midnight /\ UNCHANGED <<runs, call, tasks>>) \/ UNCHANGED vars
             => UNCHANGED task
    BY DEF DetachedSettle, GrowStale, TeacherStep, tasks, vars
  <1> QED
    BY <1>5, <1>9, <1>13, <1>14, <1>15, <1>16 DEF Next

\* Citations are added when a task finishes its run.
LEMMA CitedChanges ==
    ASSUME Transaction
    PROVE  \/ UNCHANGED cited
           \/ \E t \in Tasks : /\ task[t].step = "working" /\ Request(t) \in Requests
                               /\ FinishesWith(Request(t), task[t].first)
  BY DEF Transaction, RunTransaction, Begin, BeginAgain, RequestCancel, Age, MarkTerminal,
         runs, Settle

LEMMA LabelsInit == Init => LabelsInv
  <1> SUFFICES ASSUME Init  PROVE LabelsInv
    OBVIOUS
  <1>1. LabelsNameOneSource
    BY DEF Init, InitRuns, LabelsNameOneSource
  <1>2. \A t \in Tasks : ~Works(t) /\ ~Numbered(t)
    BY DEF Init, InitTasks, NoTask, Works, Numbered
  <1> QED
    BY RunsInit, <1>1, <1>2 DEF LabelsInv, WorkersHaveRuns, LabelsBelow

LEMMA WorkersKeepRuns ==
    ASSUME TypeInv, WorkersHaveRuns, [Next]_vars
    PROVE  WorkersHaveRuns'
  <1> SUFFICES ASSUME NEW t \in Tasks, Works(t)'  PROVE run'[task'[t].request].status # "none"
    BY DEF WorkersHaveRuns, Request
  <1>1. TaskChange(t) /\ Transaction
    BY TaskChanges, StepIsTransaction
  <1>2. run \in [Requests -> Run] /\ TaskRowOK(task[t]) /\ task \in [Tasks -> Task]
    BY DEF TypeInv, TypeOK, TasksOK
  <1>3. CASE StartRun(t)
    <2>1. Request(t) \in Requests /\ task'[t].request = Request(t)
      BY <1>2, <1>3 DEF StartRun, GoTo, TaskRowOK, Request
    <2>2. run'[Request(t)] = NewRun
      BY <1>2, <1>3, <2>1 DEF StartRun, Begin, StaleClosed
    <2> QED
      BY <2>1, <2>2 DEF NewRun, NoRun
  <1>4. CASE Works(t) /\ task'[t].request = task[t].request
    <2>1. task[t].request \in Requests /\ run[task[t].request].status # "none"
      BY <1>2, <1>4 DEF Works, TaskRowOK, WorkersHaveRuns, Request
    <2>2. StatusChange(task[t].request)
      BY <1>1, <2>1, StatusChanges
    <2> QED
      BY <1>4, <2>1, <2>2 DEF StatusChange
  <1> QED
    BY <1>1, <1>3, <1>4 DEF TaskChange

\* After the end of its run, a session has no other run at work.
LEMMA FinishFreesSession ==
    ASSUME RunsInv, NEW q \in Requests, NEW first, FinishesWith(q, first), Transaction
    PROVE  /\ \A p \in Requests : p.session = q.session => ~Active(p)'
           /\ \A s \in Sessions : s # q.session => cited'[s] = cited[s]
  <1>1. PICK kind, labels : Finish(q, kind, labels)
    BY DEF FinishesWith
  <1>2. run'[q].status = "finished" /\ Active(q)
    <2>1. run \in [Requests -> Run] /\ run[q] \in Run
      BY DEF RunsInv, TypeInv, TypeOK
    <2> QED
      BY <1>1, <2>1 DEF Finish, Finishable, Active, ActiveStates, Run
  <1>3. ASSUME NEW p \in Requests, p.session = q.session  PROVE ~Active(p)'
    <2>1. CASE p = q
      BY <1>2, <2>1 DEF Active, ActiveStates
    <2>2. CASE p # q
      <3>1. ~Active(p)
        BY <1>2, <1>3, <2>2 DEF RunsInv, OneActive
      <3>2. run'[p] = run[p]
        BY <1>1, <2>2 DEF Finish, RunsInv, TypeInv, TypeOK
      <3> QED
        BY <3>1, <3>2 DEF Active
    <2> QED
      BY <2>1, <2>2
  <1>4. \A s \in Sessions : s # q.session => cited'[s] = cited[s]
    BY <1>1 DEF Finish, RunsInv, TypeInv, TypeOK
  <1> QED
    BY <1>3, <1>4

LEMMA LabelsStayBelow ==
    ASSUME LabelsInv, [Next]_vars
    PROVE  LabelsBelow'
  <1>1. RunsInv /\ TypeInv /\ Transaction
    BY StepIsTransaction DEF LabelsInv, RunsInv
  <1> SUFFICES ASSUME NEW t \in Tasks, Numbered(t)', Active(Request(t))'
               PROVE  \A a \in cited'[task'[t].request.session] : a[1] < task'[t].first
    BY DEF LabelsBelow, Request
  <1>2. TaskChange(t) /\ task \in [Tasks -> Task] /\ TaskRowOK(task[t])
    BY <1>1, TaskChanges DEF TypeInv, TypeOK, TasksOK
  <1>3. CASE NumberEvidence(t)
    <2>1. /\ Request(t).session \in Sessions /\ UNCHANGED cited
          /\ task'[t].request = Request(t)
          /\ task'[t].first = NextEvidence(Request(t).session)
      BY <1>2, <1>3 DEF NumberEvidence, TaskRowOK, Request, Requests, runs, Task
    <2> QED
      BY <1>1, <2>1, NextEvidenceAbove
  <1>4. CASE /\ Numbered(t) /\ task'[t].request = task[t].request
             /\ task'[t].first = task[t].first
    <2>0. PICK q : q = task[t].request
      OBVIOUS
    <2>1. q \in Requests /\ q.session \in Sessions /\ run[q].status # "none"
      BY <1>2, <1>4, <2>0 DEF Numbered, TaskRowOK, LabelsInv, WorkersHaveRuns, Works,
                              TaskSteps, Request, Requests
    <2>2. Active(q)' /\ StatusChange(q)
      <3>1. Active(q)'
        BY <1>4, <2>0 DEF Request, Active
      <3> QED
        BY <1>1, <2>1, <3>1, StatusChanges
    <2>3. Active(q)
      BY <2>1, <2>2 DEF StatusChange, Active, ActiveStates
    <2>4. \A a \in cited[q.session] : a[1] < task[t].first
      BY <1>4, <2>0, <2>3 DEF LabelsInv, LabelsBelow, Request
    <2>5. cited'[q.session] = cited[q.session]
      <3>1. CASE UNCHANGED cited
        BY <3>1
      <3>2. ASSUME NEW p \in Requests, NEW first, FinishesWith(p, first)
            PROVE  cited'[q.session] = cited[q.session]
        BY <1>1, <2>1, <2>2, <3>2, FinishFreesSession
      <3> QED
        BY <1>1, <3>1, <3>2, CitedChanges
    <2> QED
      BY <1>4, <2>0, <2>4, <2>5
  <1> QED
    BY <1>2, <1>3, <1>4 DEF TaskChange

LEMMA LabelsStayUnique ==
    ASSUME LabelsInv, Transaction
    PROVE  LabelsNameOneSource'
  <1>1. CASE UNCHANGED cited
    BY <1>1 DEF LabelsInv, LabelsNameOneSource
  <1>2. ASSUME NEW t \in Tasks, task[t].step = "working", Request(t) \in Requests,
               FinishesWith(Request(t), task[t].first)
        PROVE  LabelsNameOneSource'
    <2>0. PICK q, n : q = Request(t) /\ n = task[t].first
      OBVIOUS
    <2>1. PICK kind \in {"answer", "back"}, labels \in SUBSET (n .. n + NewEvidence - 1) :
              Finish(q, kind, labels)
      BY <1>2, <2>0 DEF FinishesWith
    <2>2. /\ cited \in [Sessions -> SUBSET (Nat \X Requests)] /\ q.session \in Sessions
          /\ n \in Nat
      BY <1>2, <2>0 DEF LabelsInv, RunsInv, TypeInv, TypeOK, Requests, Task
    <2>3. \A a \in cited[q.session] : a[1] < n
      <3>1. Active(q)
        BY <2>1 DEF Finish, Finishable, Active, ActiveStates
      <3> QED
        BY <1>2, <2>0, <3>1 DEF LabelsInv, LabelsBelow, Numbered
    <2>4. cited' = [cited EXCEPT ![q.session] = cited[q.session] \cup (labels \X {q})]
      BY <2>1 DEF Finish
    <2>5. \A l \in labels : l \in Nat /\ l >= n
      BY <2>2, TaskBounds
    <2>6. ASSUME NEW a \in cited[q.session] \cup (labels \X {q}),
                 NEW b \in cited[q.session] \cup (labels \X {q}), a[1] = b[1]
          PROVE  a = b
      <3>1. \A c \in cited[q.session] : c[1] \in Nat /\ c[1] < n
        BY <2>2, <2>3
      <3>2. \A c \in labels \X {q} : c[1] \in Nat /\ c[1] >= n /\ c = <<c[1], q>>
        <4>1. \A c \in labels \X {q} : c[1] \in labels /\ c = <<c[1], q>>
          OBVIOUS
        <4> QED
          BY <2>5, <4>1
      <3>3. CASE a \in cited[q.session] /\ b \in cited[q.session]
        BY <2>2, <2>6, <3>3 DEF LabelsInv, LabelsNameOneSource
      <3>4. CASE a \in labels \X {q} /\ b \in labels \X {q}
        BY <2>6, <3>2, <3>4
      <3>5. CASE (a \in cited[q.session]) # (b \in cited[q.session])
        BY <2>2, <2>6, <3>1, <3>2, <3>5
      <3> QED
        BY <2>6, <3>3, <3>4, <3>5
    <2>7. \A s \in Sessions : s # q.session => cited'[s] = cited[s]
      BY <2>2, <2>4
    <2> QED
      BY <2>2, <2>4, <2>6, <2>7 DEF LabelsInv, LabelsNameOneSource
  <1> QED
    BY <1>1, <1>2, CitedChanges

LEMMA LabelsStep == LabelsInv /\ [Next]_vars => LabelsInv'
  <1> SUFFICES ASSUME LabelsInv, [Next]_vars  PROVE LabelsInv'
    OBVIOUS
  <1>1. RunsInv' /\ Transaction /\ WorkersHaveRuns'
    BY RunsStep, StepIsTransaction, WorkersKeepRuns DEF LabelsInv, RunsInv
  <1> QED
    BY <1>1, LabelsStayBelow, LabelsStayUnique DEF LabelsInv

\* A label of a session names one source for good. next_evidence_number is read once
\* and the citations are written much later, but a session has one run at work,
\* and a task of a run that was closed meanwhile cannot finish it.
THEOREM LabelsAreUnique == Spec => []LabelsNameOneSource
  <1>1. Init => LabelsInv
    BY LabelsInit
  <1>2. LabelsInv /\ [Next]_vars => LabelsInv'
    BY LabelsStep
  <1>3. LabelsInv => LabelsNameOneSource
    BY DEF LabelsInv
  <1> QED
    BY <1>1, <1>2, <1>3, PTL DEF Spec

-----------------------------------------------------------------------------
(* What the student is promised *)

\* A message as the abstract conversation has it, and the talk of all sessions.
Shown(m) == [speaker |-> IF m.kind = "question" THEN "student" ELSE "model",
             request |-> m.request]

ShownTalk(ms) == [i \in DOMAIN ms |-> Shown(ms[i])]

Talk == [s \in Sessions |-> ShownTalk(messages[s])]

Open == {q \in Requests : Active(q)}

LEMMA IntervalEnds ==
    ASSUME NEW a \in Nat, NEW b \in Nat, 1 .. a = 1 .. b
    PROVE  a = b
  <1>1. CASE a < b
    <2>1. b \in 1 .. b /\ b \notin 1 .. a
      BY <1>1
    <2> QED
      BY <2>1
  <1>2. CASE b < a
    <2>1. a \in 1 .. a /\ a \notin 1 .. b
      BY <1>2
    <2> QED
      BY <2>1
  <1> QED
    BY <1>1, <1>2

LEMMA ShownSeq ==
    ASSUME NEW ms \in Seq(Message)
    PROVE  /\ ShownTalk(ms) \in Seq({Shown(m) : m \in Message})
           /\ Len(ShownTalk(ms)) = Len(ms)
           /\ \A i \in 1 .. Len(ms) : ShownTalk(ms)[i] = Shown(ms[i])
  <1> DEFINE S == {Shown(m) : m \in Message}
  <1>1. Len(ms) \in Nat /\ DOMAIN ms = 1 .. Len(ms) /\ \A i \in 1 .. Len(ms) : ms[i] \in Message
    BY LenProperties, ElementOfSeq
  <1>2. ShownTalk(ms) \in [1 .. Len(ms) -> S]
    BY <1>1 DEF ShownTalk
  <1>3. ShownTalk(ms) \in Seq(S)
    BY <1>1, <1>2, SeqDef
  <1>4. DOMAIN ShownTalk(ms) = 1 .. Len(ShownTalk(ms)) /\ Len(ShownTalk(ms)) \in Nat
    BY <1>3, LenProperties
  <1>5. Len(ShownTalk(ms)) = Len(ms)
    <2>1. 1 .. Len(ShownTalk(ms)) = 1 .. Len(ms)
      BY <1>2, <1>4
    <2> QED
      BY <1>1, <1>4, <2>1, IntervalEnds
  <1>6. \A i \in 1 .. Len(ms) : ShownTalk(ms)[i] = Shown(ms[i])
    BY <1>1 DEF ShownTalk
  <1> QED
    BY <1>3, <1>5, <1>6

LEMMA ShownAppend ==
    ASSUME NEW ms \in Seq(Message), NEW m \in Message
    PROVE  ShownTalk(Append(ms, m)) = Append(ShownTalk(ms), Shown(m))
  <1> DEFINE S == {Shown(x) : x \in Message}
             l == ShownTalk(Append(ms, m))
             r == Append(ShownTalk(ms), Shown(m))
  <1>1. /\ Append(ms, m) \in Seq(Message) /\ Len(Append(ms, m)) = Len(ms) + 1
        /\ \A i \in 1 .. Len(ms) : Append(ms, m)[i] = ms[i]
        /\ Append(ms, m)[Len(ms) + 1] = m
        /\ Len(ms) \in Nat
    BY AppendProperties, LenProperties
  <1>2. /\ l \in Seq(S) /\ Len(l) = Len(ms) + 1
        /\ \A i \in 1 .. Len(ms) + 1 : l[i] = Shown(Append(ms, m)[i])
    <2>1. Append(ms, m) \in Seq(Message) /\ Len(Append(ms, m)) = Len(ms) + 1
      BY <1>1
    <2> QED
      BY <2>1, ShownSeq
  <1>3. Shown(m) \in S
    OBVIOUS
  <1>4. /\ r \in Seq(S) /\ Len(r) = Len(ms) + 1 /\ r[Len(ms) + 1] = Shown(m)
        /\ \A i \in 1 .. Len(ms) : r[i] = Shown(ms[i])
    <2>1. /\ ShownTalk(ms) \in Seq(S) /\ Len(ShownTalk(ms)) = Len(ms)
          /\ \A i \in 1 .. Len(ms) : ShownTalk(ms)[i] = Shown(ms[i])
      BY ShownSeq
    <2> HIDE DEF S
    <2>2. /\ r \in Seq(S) /\ Len(r) = Len(ShownTalk(ms)) + 1
          /\ \A i \in 1 .. Len(ShownTalk(ms)) : r[i] = ShownTalk(ms)[i]
          /\ r[Len(ShownTalk(ms)) + 1] = Shown(m)
      BY <1>3, <2>1, AppendProperties
    <2> HIDE DEF r
    <2> QED
      BY <2>1, <2>2
  <1>5. \A i \in 1 .. Len(ms) + 1 : l[i] = r[i]
    <2> HIDE DEF l, r
    <2> SUFFICES ASSUME NEW i \in 1 .. Len(ms) + 1  PROVE l[i] = r[i]
      OBVIOUS
    <2>1. CASE i = Len(ms) + 1
      BY <1>1, <1>2, <1>4, <2>1
    <2>2. CASE i # Len(ms) + 1
      <3>1. i \in 1 .. Len(ms)
        BY <1>1, <2>2
      <3> QED
        BY <1>1, <1>2, <1>4, <3>1
    <2> QED
      BY <2>1, <2>2
  <1> HIDE DEF l, r, S
  <1>6. l = r
    BY <1>2, <1>4, <1>5, SeqEqual
  <1> QED
    BY <1>6 DEF l, r

LEMMA TalkGrows ==
    ASSUME TypeInv, NEW s \in Sessions, NEW m \in Message,
           messages' = [messages EXCEPT ![s] = Append(messages[s], m)]
    PROVE  Talk' = [Talk EXCEPT ![s] = Append(Talk[s], Shown(m))]
  <1>1. messages \in [Sessions -> Seq(Message)]
    BY DEF TypeInv, TypeOK
  <1>2. /\ messages'[s] = Append(messages[s], m)
        /\ \A r \in Sessions : r # s => messages'[r] = messages[r]
    BY <1>1
  <1>3. ShownTalk(messages'[s]) = Append(ShownTalk(messages[s]), Shown(m))
    BY <1>1, <1>2, ShownAppend
  <1>4. Talk' = [r \in Sessions |-> ShownTalk(messages'[r])]
    BY DEF Talk, ShownTalk, Shown
  <1>5. \A r \in Sessions : Talk[r] = ShownTalk(messages[r])
    BY DEF Talk
  <1>6. [Talk EXCEPT ![s] = Append(Talk[s], Shown(m))] =
            [r \in Sessions |-> IF r = s THEN Append(Talk[s], Shown(m)) ELSE Talk[r]]
    BY DEF Talk
  <1>7. \A r \in Sessions :
            ShownTalk(messages'[r]) = IF r = s THEN Append(Talk[s], Shown(m)) ELSE Talk[r]
    BY <1>2, <1>3, <1>5
  <1> QED
    BY <1>4, <1>6, <1>7

LEMMA MessagesKeepRuns ==
    ASSUME TypeInv, MessagesHaveRuns, Transaction,
           \/ UNCHANGED messages
           \/ \E q \in Requests, m \in Message :
                  /\ m.request = q /\ run'[q].status # "none"
                  /\ messages' = [messages EXCEPT ![q.session] = Append(messages[q.session], m)]
    PROVE  MessagesHaveRuns'
  <1>1. messages \in [Sessions -> Seq(Message)]
    BY DEF TypeInv, TypeOK
  <1>2. ASSUME NEW s \in Sessions, NEW i \in DOMAIN messages[s]
        PROVE  /\ messages[s][i].request.session = s
               /\ run'[messages[s][i].request].status # "none"
    <2>1. /\ messages[s][i].request.session = s
          /\ run[messages[s][i].request].status # "none"
      BY DEF MessagesHaveRuns
    <2>2. messages[s][i] \in Message
      BY <1>1, LenProperties, ElementOfSeq
    <2>3. messages[s][i].request \in Requests
      BY <2>1, <2>2 DEF Message
    <2>4. StatusChange(messages[s][i].request)
      BY <2>3, StatusChanges
    <2> QED
      BY <2>1, <2>4 DEF StatusChange
  <1>3. CASE UNCHANGED messages
    BY <1>2, <1>3 DEF MessagesHaveRuns
  <1>4. ASSUME NEW q \in Requests, NEW m \in Message, m.request = q, run'[q].status # "none",
               messages' = [messages EXCEPT ![q.session] = Append(messages[q.session], m)]
        PROVE  MessagesHaveRuns'
    <2> SUFFICES ASSUME NEW s \in Sessions, NEW i \in DOMAIN messages'[s]
                 PROVE  /\ messages'[s][i].request.session = s
                        /\ run'[messages'[s][i].request].status # "none"
      BY DEF MessagesHaveRuns
    <2>1. CASE s # q.session
      <3>1. messages'[s] = messages[s]
        BY <1>1, <1>4, <2>1
      <3> QED
        BY <1>2, <3>1
    <2>2. CASE s = q.session
      <3> DEFINE old == messages[s]
      <3>1. messages'[s] = Append(old, m) /\ old \in Seq(Message)
        BY <1>1, <1>4, <2>2
      <3>2. /\ DOMAIN messages'[s] = 1 .. Len(old) + 1 /\ DOMAIN old = 1 .. Len(old)
            /\ \A j \in 1 .. Len(old) : messages'[s][j] = old[j]
            /\ messages'[s][Len(old) + 1] = m
            /\ Len(old) \in Nat
        BY <3>1, AppendProperties, LenProperties
      <3>3. i \in DOMAIN old \/ i = Len(old) + 1
        BY <3>2
      <3> QED
        BY <1>2, <1>4, <2>2, <3>2, <3>3
    <2> QED
      BY <2>1, <2>2
  <1> QED
    BY <1>3, <1>4

\* A question is put on record with its run.
LEMMA BeginTalks ==
    ASSUME TalkInv, Transaction, NEW q \in Requests, Begin(q)
    PROVE  Chat!Ask(q) /\ MessagesHaveRuns' /\ WorksOnLastQuestion'
  <1> DEFINE m == [kind |-> "question", request |-> q, billed |-> 0]
  <1>1. /\ q.session \in Sessions /\ m \in Message
        /\ messages \in [Sessions -> Seq(Message)]
        /\ messages[q.session] \in Seq(Message)
        /\ run \in [Requests -> Run]
    BY DEF Requests, Message, TalkInv, RunsInv, TypeInv, TypeOK
  <1>2. /\ messages' = [messages EXCEPT ![q.session] = Append(messages[q.session], m)]
        /\ run' = [StaleClosed(q.session) EXCEPT ![q] = NewRun]
        /\ run[q].status = "none" /\ ~Busy(q.session)
    BY DEF Begin
  <1>3. Talk' = [Talk EXCEPT ![q.session] = Append(Talk[q.session], Shown(m))]
    BY <1>1, <1>2, TalkGrows DEF TalkInv, RunsInv
  <1>4. ~Chat!Asked(q)
    <2>1. ASSUME NEW i \in DOMAIN messages[q.session], messages[q.session][i].request = q
          PROVE  FALSE
      BY <1>1, <1>2, <2>1 DEF TalkInv, MessagesHaveRuns
    <2> QED
      BY <1>1, <2>1 DEF Chat!Asked
  <1>5. Chat!Says("student", q)
    BY <1>3 DEF Chat!Says, Talk, ShownTalk, Shown
  <1>6. /\ Active(q)'
        /\ \A p \in Requests : p.session = q.session /\ Active(p)' => p = q
        /\ \A p \in Requests : p.session # q.session => (Active(p)' <=> Active(p))
    BY BeginTakesSession DEF TalkInv, RunsInv
  <1>7. Open' = {p \in Open : p.session # q.session} \cup {q}
    BY <1>6 DEF Open
  <1>8. Chat!Ask(q)
    BY <1>4, <1>5, <1>7 DEF Chat!Ask, Open
  <1>9. MessagesHaveRuns'
    <2>1. run'[q].status # "none"
      BY <1>6 DEF Active, ActiveStates
    <2> QED
      BY <1>1, <1>2, <2>1, MessagesKeepRuns DEF TalkInv, RunsInv
  <1>10. WorksOnLastQuestion'
    <2>1. ASSUME NEW p \in Requests, Active(p)', p.session # q.session
          PROVE  messages'[p.session] = messages[p.session] /\ Active(p)
      BY <1>1, <1>2, <1>6, <2>1 DEF Requests
    <2>2. /\ messages'[q.session] # <<>>
          /\ messages'[q.session][Len(messages'[q.session])] = m
      BY <1>1, <1>2, AppendProperties, LenProperties
    <2> HIDE DEF m
    <2>3. m.kind = "question" /\ m.request = q
      BY DEF m
    <2> QED
      BY <1>6, <2>1, <2>2, <2>3 DEF TalkInv, WorksOnLastQuestion
  <1> QED
    BY <1>8, <1>9, <1>10

\* An answer goes on record with the end of its run.
LEMMA FinishTalks ==
    ASSUME TalkInv, Transaction, NEW q \in Requests, NEW first, FinishesWith(q, first)
    PROVE  Chat!Answer(q) /\ MessagesHaveRuns' /\ WorksOnLastQuestion'
  <1>1. PICK kind \in {"answer", "back"}, labels \in SUBSET (first .. first + NewEvidence - 1) :
            Finish(q, kind, labels)
    BY DEF FinishesWith
  <1> DEFINE m == [kind |-> kind, request |-> q, billed |-> Cost(q)]
             old == messages[q.session]
  <1>2. /\ q.session \in Sessions /\ m \in Message
        /\ messages \in [Sessions -> Seq(Message)]
        /\ old \in Seq(Message)
        /\ run \in [Requests -> Run] /\ run[q] \in Run
    BY CostType DEF Requests, Message, TalkInv, RunsInv, TypeInv, TypeOK
  <1>3. /\ messages' = [messages EXCEPT ![q.session] = Append(old, m)]
        /\ run' = [run EXCEPT ![q].status = "finished", ![q].settlement = "settled"]
        /\ Active(q)
    BY <1>1 DEF Finish, Finishable, Active, ActiveStates
  <1>4. Talk' = [Talk EXCEPT ![q.session] = Append(Talk[q.session], Shown(m))]
    BY <1>2, <1>3, TalkGrows DEF TalkInv, RunsInv
  <1>5. Chat!Says("model", q)
    BY <1>1, <1>4 DEF Chat!Says, Talk, ShownTalk, Shown
  <1>6. /\ run'[q].status = "finished"
        /\ \A p \in Requests : p # q => run'[p] = run[p]
    BY <1>2, <1>3 DEF Run
  <1>7. Open' = Open \ {q}
    BY <1>6 DEF Open, Active, ActiveStates
  <1>8. Chat!Last(Talk[q.session]) = [speaker |-> "student", request |-> q]
    <2>1. old # <<>> /\ old[Len(old)].kind = "question" /\ old[Len(old)].request = q
      BY <1>3 DEF TalkInv, WorksOnLastQuestion
    <2>2. Len(old) \in 1 .. Len(old)
      BY <1>2, <2>1, EmptySeq, LenProperties
    <2>3. /\ Len(ShownTalk(old)) = Len(old)
          /\ ShownTalk(old)[Len(old)] = Shown(old[Len(old)])
      BY <1>2, <2>2, ShownSeq
    <2>4. Talk[q.session] = ShownTalk(old)
      BY <1>2 DEF Talk
    <2> QED
      BY <2>1, <2>3, <2>4 DEF Shown, Chat!Last
  <1>9. Chat!Answer(q)
    BY <1>3, <1>5, <1>7, <1>8 DEF Chat!Answer, Open, Talk, ShownTalk, Shown
  <1>10. MessagesHaveRuns'
    BY <1>2, <1>3, <1>6, MessagesKeepRuns DEF TalkInv, RunsInv
  <1>11. WorksOnLastQuestion'
    <2>1. ASSUME NEW p \in Requests, Active(p)'
          PROVE  p.session # q.session /\ Active(p)
      <3>1. p.session # q.session
        BY <2>1, FinishFreesSession DEF TalkInv
      <3> QED
        BY <1>6, <2>1, <3>1 DEF Active
    <2>2. \A s \in Sessions : s # q.session => messages'[s] = messages[s]
      BY <1>2, <1>3
    <2> QED
      BY <2>1, <2>2 DEF TalkInv, WorksOnLastQuestion, Requests
  <1> QED
    BY <1>9, <1>10, <1>11

\* What a session is told when a run is given up: nothing, it is free again.
LEMMA OthersTalk ==
    ASSUME TalkInv, Transaction, UNCHANGED messages,
           \/ \A p \in Requests : Active(p)' <=> Active(p)
           \/ \E q \in Requests : /\ Active(q) /\ ~Active(q)'
                                  /\ \A p \in Requests : p # q => (Active(p)' <=> Active(p))
    PROVE  /\ \/ \E q \in Requests : Chat!GiveUp(q)
              \/ UNCHANGED <<Talk, Open>>
           /\ MessagesHaveRuns' /\ WorksOnLastQuestion'
  <1>1. MessagesHaveRuns'
    BY MessagesKeepRuns DEF TalkInv, RunsInv
  <1>2. \A p \in Requests : Active(p)' => Active(p)
    OBVIOUS
  <1>3. WorksOnLastQuestion'
    BY <1>2 DEF TalkInv, WorksOnLastQuestion
  <1>4. UNCHANGED Talk
    BY DEF Talk, ShownTalk, Shown
  <1>5. CASE \A p \in Requests : Active(p)' <=> Active(p)
    BY <1>1, <1>3, <1>4, <1>5 DEF Open
  <1>6. ASSUME NEW q \in Requests, Active(q), ~Active(q)',
               \A p \in Requests : p # q => (Active(p)' <=> Active(p))
        PROVE  Chat!GiveUp(q)
    <2>1. Open' = Open \ {q} /\ q \in Open
      BY <1>6 DEF Open
    <2> QED
      BY <1>4, <2>1 DEF Chat!GiveUp, Open, Talk, ShownTalk, Shown
  <1> QED
    BY <1>1, <1>3, <1>5, <1>6

\* A transaction that writes no message ends at most one run.
LEMMA OthersEndOne ==
    ASSUME RunsInv,
           \/ \E q \in Requests :
                  \/ BeginAgain(q) \/ RequestCancel(q) \/ Age(q)
                  \/ \E status \in {"failed", "cancelled"} : MarkTerminal(q, status)
           \/ \E c \in Calls, billed \in Nat : Settle(c, billed)
           \/ UNCHANGED run
    PROVE  \/ \A p \in Requests : Active(p)' <=> Active(p)
           \/ \E q \in Requests : /\ Active(q) /\ ~Active(q)'
                                  /\ \A p \in Requests : p # q => (Active(p)' <=> Active(p))
  <1>1. run \in [Requests -> Run] /\ TypeInv
    BY DEF RunsInv, TypeInv, TypeOK
  <1>2. ASSUME NEW q \in Requests, BeginAgain(q)
        PROVE  \/ \A p \in Requests : Active(p)' <=> Active(p)
               \/ \E r \in Requests : /\ Active(r) /\ ~Active(r)'
                                      /\ \A p \in Requests : p # r => (Active(p)' <=> Active(p))
    <2>1. ASSUME NEW p \in Requests, p \notin Stale(q.session)
          PROVE  Active(p)' <=> Active(p)
      BY <1>2, <2>1 DEF BeginAgain, StaleClosed, Active
    <2>2. ASSUME NEW p \in Stale(q.session)
          PROVE  Active(p) /\ ~Active(p)' /\ p \in Requests /\ p.session = q.session
      <3>1. Active(p) /\ p \in Requests /\ p.session = q.session
        BY DEF Stale
      <3>2. run'[p] = Closed(run[p], p, "failed") /\ run[p] \in Run
        BY <1>1, <1>2, <3>1 DEF BeginAgain, StaleClosed
      <3>3. run'[p].status = "failed"
        BY <3>2 DEF Closed, Run
      <3> QED
        BY <3>1, <3>3 DEF Active, ActiveStates
    <2>3. CASE Stale(q.session) = {}
      BY <2>1, <2>3
    <2>4. ASSUME NEW r \in Stale(q.session)
          PROVE  \A p \in Stale(q.session) : p = r
      BY <2>2 DEF RunsInv, OneActive
    <2> QED
      BY <2>1, <2>2, <2>3, <2>4
  <1>3. ASSUME NEW q \in Requests, RequestCancel(q) \/ Age(q), NEW p \in Requests
        PROVE  Active(p)' <=> Active(p)
    <2>1. run[p] \in Run
      BY <1>1
    <2>2. \/ run'[p] = run[p]
          \/ run'[p] = [run[p] EXCEPT !.aged = TRUE]
          \/ run[p].status = "running" /\ run'[p] = [run[p] EXCEPT !.status = "cancelling"]
      BY <1>1, <1>3 DEF RequestCancel, Age
    <2> QED
      BY <2>1, <2>2 DEF Run, Active, ActiveStates
  <1>4. ASSUME NEW q \in Requests, NEW status \in {"failed", "cancelled"},
               MarkTerminal(q, status)
        PROVE  \/ \A p \in Requests : Active(p)' <=> Active(p)
               \/ \E r \in Requests : /\ Active(r) /\ ~Active(r)'
                                      /\ \A p \in Requests : p # r => (Active(p)' <=> Active(p))
    <2>1. CASE Active(q)
      <3>1. run'[q] = Closed(run[q], q, status) /\ run[q] \in Run
        BY <1>1, <1>4, <2>1 DEF MarkTerminal
      <3>2. ~Active(q)'
        BY <3>1 DEF Closed, Run, Active, ActiveStates
      <3>3. \A p \in Requests : p # q => (Active(p)' <=> Active(p))
        BY <1>1, <1>4, <2>1 DEF MarkTerminal, Active
      <3> QED
        BY <2>1, <3>2, <3>3
    <2>2. CASE ~Active(q)
      BY <1>4, <2>2 DEF MarkTerminal, Active
    <2> QED
      BY <2>1, <2>2
  <1>5. ASSUME NEW c \in Calls, NEW billed, Settle(c, billed), NEW p \in Requests
        PROVE  Active(p)' <=> Active(p)
    <2>1. run[p] \in Run
      BY <1>1
    <2>2. run'[p] = run[p] \/ run'[p] = [run[p] EXCEPT !.settlement = "settled"]
      BY <1>1, <1>5 DEF Settle, Settlement
    <2> QED
      BY <2>1, <2>2 DEF Run, Active
  <1>6. UNCHANGED run => \A p \in Requests : Active(p)' <=> Active(p)
    BY DEF Active
  <1> QED
    BY <1>2, <1>3, <1>4, <1>5, <1>6

\* Every step is one of the conversation's, or the student sees none.
LEMMA TalkStep ==
    ASSUME TalkInv, [Next]_vars
    PROVE  TalkInv' /\ [Chat!ConversationNext]_<<Talk, Open>>
  <1>1. RunsInv /\ RunsInv' /\ Transaction
    BY RunsStep, StepIsTransaction DEF TalkInv, RunsInv
  <1>2. ASSUME NEW q \in Requests, Begin(q)
        PROVE  TalkInv' /\ Chat!ConversationNext
    BY <1>1, <1>2, BeginTalks DEF TalkInv, Chat!ConversationNext
  <1>3. ASSUME NEW q \in Requests, NEW first, FinishesWith(q, first)
        PROVE  TalkInv' /\ Chat!ConversationNext
    BY <1>1, <1>3, FinishTalks DEF TalkInv, Chat!ConversationNext
  <1>4. ASSUME UNCHANGED messages,
               \/ \E q \in Requests :
                      \/ BeginAgain(q) \/ RequestCancel(q) \/ Age(q)
                      \/ \E status \in {"failed", "cancelled"} : MarkTerminal(q, status)
               \/ \E c \in Calls, billed \in Nat : Settle(c, billed)
               \/ UNCHANGED run
        PROVE  TalkInv' /\ [Chat!ConversationNext]_<<Talk, Open>>
    <2>1. \/ \A p \in Requests : Active(p)' <=> Active(p)
          \/ \E q \in Requests : /\ Active(q) /\ ~Active(q)'
                                 /\ \A p \in Requests : p # q => (Active(p)' <=> Active(p))
      BY <1>1, <1>4, OthersEndOne
    <2>2. /\ \/ \E q \in Requests : Chat!GiveUp(q)
             \/ UNCHANGED <<Talk, Open>>
          /\ MessagesHaveRuns' /\ WorksOnLastQuestion'
      BY <1>1, <1>4, <2>1, OthersTalk
    <2> QED
      BY <1>1, <2>2 DEF TalkInv, Chat!ConversationNext
  <1>5. \/ \E q \in Requests : Begin(q)
        \/ \E q \in Requests, first \in Nat : FinishesWith(q, first)
        \/ /\ UNCHANGED messages
           /\ \/ \E q \in Requests :
                     \/ BeginAgain(q) \/ RequestCancel(q) \/ Age(q)
                     \/ \E status \in {"failed", "cancelled"} : MarkTerminal(q, status)
              \/ \E c \in Calls, billed \in Nat : Settle(c, billed)
              \/ UNCHANGED run
    <2>1. \A t \in Tasks : task[t].first \in Nat
      BY <1>1 DEF RunsInv, TypeInv, TypeOK, Task
    <2> QED
      BY <1>1, <2>1 DEF Transaction, RunTransaction, BeginAgain, RequestCancel, Age,
                        MarkTerminal, Settle, runs
  <1> QED
    BY <1>2, <1>3, <1>4, <1>5

LEMMA TalkInit == Init => TalkInv /\ Chat!ConversationInit
  <1> SUFFICES ASSUME Init  PROVE TalkInv /\ Chat!ConversationInit
    OBVIOUS
  <1>1. \A q \in Requests : ~Active(q)
    BY DEF Init, InitRuns, NoRun, Active, ActiveStates
  <1>2. MessagesHaveRuns /\ WorksOnLastQuestion
    BY <1>1 DEF Init, InitRuns, MessagesHaveRuns, WorksOnLastQuestion
  <1>3. \A s \in Sessions : ShownTalk(messages[s]) = <<>>
    <2>1. \A s \in Sessions : messages[s] = <<>>
      BY DEF Init, InitRuns
    <2> QED
      BY <2>1 DEF ShownTalk
  <1>4. Chat!ConversationInit
    BY <1>1, <1>3 DEF Chat!ConversationInit, ShownTalk, Shown
  <1> QED
    BY RunsInit, <1>2, <1>4 DEF TalkInv

\* Whatever requests, resends, closed streams and crashes do, the chat keeps what
\* it promises: a message is stored once, a session works on one question at a
\* time, and an answer comes at most once and directly after its question. The
\* runs of research_runs.py implement the conversation of client_request_id.
THEOREM ChatIsAsPromised == Spec => ChatPromise
  <1>1. Init => TalkInv /\ Chat!ConversationInit
    BY TalkInit
  <1>2. TalkInv /\ [Next]_vars => TalkInv' /\ [Chat!ConversationNext]_<<Talk, Open>>
    BY TalkStep
  <1> QED
    BY <1>1, <1>2, PTL DEF Spec, ChatPromise, Chat!ConversationSpec, Talk, Open, ShownTalk, Shown

-----------------------------------------------------------------------------
(* Sums over model calls *)

BilledIn(calls)   == [c \in Calls |-> calls[c].billed]
ReservedIn(calls) == [c \in Calls |-> calls[c].reserved]
ExcessIn(calls)   == [c \in Calls |-> Max({0, calls[c].billed - calls[c].reserved})]

HeldOn(d)   == {c \in Calls : call[c].state = "active" /\ call[c].date = d}
Paid(q)     == {c \in Calls : call[c].state = "settled" /\ call[c].request = q}
BilledOn(d) == SumFunctionOnSet(BilledIn(call), SettledOn(d))

LEMMA SumsOfCalls ==
    /\ \A d : Held(d) = SumFunctionOnSet(ReservedIn(call), HeldOn(d))
    /\ \A d : Overrun(d) = SumFunctionOnSet(ExcessIn(call), SettledOn(d))
    /\ \A q : Cost(q) = SumFunctionOnSet(BilledIn(call), Paid(q))
  BY DEF Held, Overrun, Cost, ReservedIn, ExcessIn, BilledIn, HeldOn, Paid

\* What a call may cost beyond its reservation.
LEMMA ExcessOf ==
    ASSUME NEW x \in Int
    PROVE  /\ Max({0, x}) \in Nat /\ x <= Max({0, x})
  <1> DEFINE greatest == IF x > 0 THEN x ELSE 0
  <1>1. greatest \in {0, x} /\ \A y \in {0, x} : greatest >= y
    OBVIOUS
  <1>2. \E m \in {0, x} : \A y \in {0, x} : m >= y
    BY <1>1
  <1>3. Max({0, x}) \in {0, x} /\ \A y \in {0, x} : Max({0, x}) >= y
    BY <1>2 DEF Max
  <1> QED
    BY <1>3

LEMMA CallNumbers ==
    ASSUME NEW calls \in [Calls -> Call], NEW S \in SUBSET Calls
    PROVE  /\ NumbersOn(BilledIn(calls), S)
           /\ NumbersOn(ReservedIn(calls), S)
           /\ NumbersOn(ExcessIn(calls), S)
  <1>1. IsFiniteSet(S)
    BY CallsFinite
  <1>2. \A c \in S : calls[c].billed \in Nat /\ calls[c].reserved \in Nat
    BY DEF Call
  <1>3. \A c \in S : Max({0, calls[c].billed - calls[c].reserved}) \in Nat
    BY <1>2, ExcessOf
  <1> QED
    BY <1>1, <1>2, <1>3 DEF NumbersOn, BilledIn, ReservedIn, ExcessIn

SameRowsOn(S) == \A c \in S : call'[c] = call[c]

\* Calls that a step leaves alone add up to what they did.
LEMMA SameSums ==
    ASSUME TypeInv, NEW S \in SUBSET Calls, SameRowsOn(S)
    PROVE  /\ SumFunctionOnSet(BilledIn(call'), S) = SumFunctionOnSet(BilledIn(call), S)
           /\ SumFunctionOnSet(ReservedIn(call'), S) = SumFunctionOnSet(ReservedIn(call), S)
           /\ SumFunctionOnSet(ExcessIn(call'), S) = SumFunctionOnSet(ExcessIn(call), S)
  <1>1. /\ NumbersOn(BilledIn(call), S) /\ NumbersOn(ReservedIn(call), S)
        /\ NumbersOn(ExcessIn(call), S)
    BY CallNumbers DEF TypeInv, TypeOK
  <1>2. \A c \in S : BilledIn(call)[c] = BilledIn(call')[c]
    BY DEF SameRowsOn, BilledIn
  <1>3. \A c \in S : ReservedIn(call)[c] = ReservedIn(call')[c]
    BY DEF SameRowsOn, ReservedIn
  <1>4. \A c \in S : ExcessIn(call)[c] = ExcessIn(call')[c]
    BY DEF SameRowsOn, ExcessIn
  <1>5. SumFunctionOnSet(BilledIn(call), S) = SumFunctionOnSet(BilledIn(call'), S)
    BY <1>1, <1>2, SumSame
  <1>6. SumFunctionOnSet(ReservedIn(call), S) = SumFunctionOnSet(ReservedIn(call'), S)
    BY <1>1, <1>3, SumSame
  <1>7. SumFunctionOnSet(ExcessIn(call), S) = SumFunctionOnSet(ExcessIn(call'), S)
    BY <1>1, <1>4, SumSame
  <1> QED
    BY <1>5, <1>6, <1>7

\* The same sums after a step.
LEMMA SumsOfCallsNext ==
    /\ \A d : Held(d)' = SumFunctionOnSet(ReservedIn(call'), HeldOn(d)')
    /\ \A d : Overrun(d)' = SumFunctionOnSet(ExcessIn(call'), SettledOn(d)')
    /\ \A d : BilledOn(d)' = SumFunctionOnSet(BilledIn(call'), SettledOn(d)')
    /\ \A q : Cost(q)' = SumFunctionOnSet(BilledIn(call'), Paid(q)')
  BY DEF Held, Overrun, BilledOn, Cost, ReservedIn, ExcessIn, BilledIn, HeldOn, Paid

\* reserve: the call holds its estimate, nothing is billed.
LEMMA ReserveSums ==
    ASSUME TypeInv, NEW q \in Requests, NEW c \in Calls, Reserve(q, c)
    PROVE  /\ \A d \in Days : Held(d)' = IF d = day THEN Estimate + Held(d) ELSE Held(d)
           /\ \A d \in Days : Overrun(d)' = Overrun(d) /\ BilledOn(d)' = BilledOn(d)
           /\ \A p \in Requests : Cost(p)' = Cost(p)
  <1>1. /\ call \in [Calls -> Call] /\ call' \in [Calls -> Call]
        /\ call[c].state = "none"
        /\ call'[c].state = "active" /\ call'[c].date = day /\ call'[c].reserved = Estimate
        /\ \A b \in Calls : b # c => call'[b] = call[b]
    BY ReserveTypes DEF Reserve, NextCall, TypeInv, TypeOK
  <1>2. ASSUME NEW d \in Days
        PROVE  Held(d)' = IF d = day THEN Estimate + Held(d) ELSE Held(d)
    <2>1. HeldOn(d) \in SUBSET Calls /\ SameRowsOn(HeldOn(d)) /\ c \notin HeldOn(d)
      BY <1>1 DEF HeldOn, SameRowsOn
    <2>2. HeldOn(d)' = IF d = day THEN HeldOn(d) \cup {c} ELSE HeldOn(d)
      BY <1>1 DEF HeldOn
    <2>3. SumFunctionOnSet(ReservedIn(call'), HeldOn(d)) = Held(d)
      BY <2>1, SameSums, SumsOfCalls
    <2>4. CASE d = day
      <3>1. HeldOn(d) \cup {c} \in SUBSET Calls
        BY <2>1
      <3>2. NumbersOn(ReservedIn(call'), HeldOn(d) \cup {c})
        BY <1>1, <3>1, CallNumbers
      <3>3. SumFunctionOnSet(ReservedIn(call'), HeldOn(d) \cup {c}) =
                ReservedIn(call')[c] + SumFunctionOnSet(ReservedIn(call'), HeldOn(d))
        BY <2>1, <3>2, SumAdds
      <3>4. ReservedIn(call')[c] = Estimate
        BY <1>1 DEF ReservedIn
      <3> QED
        BY <2>2, <2>3, <2>4, <3>3, <3>4, SumsOfCallsNext
    <2>5. CASE d # day
      BY <2>2, <2>3, <2>5, SumsOfCallsNext
    <2> QED
      BY <2>4, <2>5
  <1>3. ASSUME NEW d \in Days
        PROVE  Overrun(d)' = Overrun(d) /\ BilledOn(d)' = BilledOn(d)
    <2>1. SettledOn(d) \in SUBSET Calls /\ SameRowsOn(SettledOn(d))
      BY <1>1 DEF SettledOn, SameRowsOn
    <2>2. SettledOn(d)' = SettledOn(d)
      BY <1>1 DEF SettledOn
    <2> QED
      BY <2>1, <2>2, SameSums, SumsOfCalls, SumsOfCallsNext DEF BilledOn
  <1>4. ASSUME NEW p \in Requests  PROVE Cost(p)' = Cost(p)
    <2>1. Paid(p) \in SUBSET Calls /\ SameRowsOn(Paid(p))
      BY <1>1 DEF Paid, SameRowsOn
    <2>2. Paid(p)' = Paid(p)
      BY <1>1 DEF Paid
    <2> QED
      BY <2>1, <2>2, SameSums, SumsOfCalls, SumsOfCallsNext
  <1> QED
    BY <1>2, <1>3, <1>4

\* settle: the call gives back what it held and is billed, on the day it was reserved.
LEMMA SettleSums ==
    ASSUME TypeInv, NEW c \in Calls, NEW billed \in Nat, Settle(c, billed)
    PROVE  /\ \A d \in Days : Held(d) = IF d = call[c].date
                                        THEN call[c].reserved + Held(d)' ELSE Held(d)'
           /\ \A d \in Days : BilledOn(d)' = IF d = call[c].date
                                             THEN billed + BilledOn(d) ELSE BilledOn(d)
           /\ \A d \in Days : Overrun(d)' = IF d = call[c].date
                  THEN Max({0, billed - call[c].reserved}) + Overrun(d) ELSE Overrun(d)
           /\ \A p \in Requests : p # call[c].request => Cost(p)' = Cost(p)
  <1> DEFINE row == [call[c] EXCEPT !.state = "settled", !.billed = billed]
  <1>1. /\ call[c].state = "active" /\ call[c] \in Call
        /\ call \in [Calls -> Call] /\ call' \in [Calls -> Call]
        /\ \A b \in Calls : b # c => call'[b] = call[b]
    BY SettleTypes DEF Settle, TypeInv, TypeOK, UsageTyped
  <1>2. /\ call'[c].state = "settled" /\ call'[c].billed = billed
        /\ call'[c].date = call[c].date /\ call'[c].reserved = call[c].reserved
        /\ call'[c].request = call[c].request
    <2>1. call'[c] = row
      BY <1>1 DEF Settle
    <2> QED
      BY <1>1, <2>1 DEF Call
  <1>3. ASSUME NEW d \in Days
        PROVE  Held(d) = IF d = call[c].date THEN call[c].reserved + Held(d)' ELSE Held(d)'
    <2>1. /\ HeldOn(d) \in SUBSET Calls /\ HeldOn(d)' \in SUBSET Calls
          /\ SameRowsOn(HeldOn(d)')
          /\ HeldOn(d)' = HeldOn(d) \ {c}
          /\ c \in HeldOn(d) <=> d = call[c].date
      BY <1>1, <1>2 DEF HeldOn, SameRowsOn
    <2>2. SumFunctionOnSet(ReservedIn(call), HeldOn(d)') = Held(d)'
      BY <2>1, SameSums, SumsOfCallsNext
    <2>3. CASE d = call[c].date
      <3>1. NumbersOn(ReservedIn(call), HeldOn(d))
        BY <1>1, <2>1, CallNumbers
      <3>2. SumFunctionOnSet(ReservedIn(call), HeldOn(d)) =
                ReservedIn(call)[c] + SumFunctionOnSet(ReservedIn(call), HeldOn(d) \ {c})
        BY <2>1, <2>3, <3>1, SumTakes
      <3>3. ReservedIn(call)[c] = call[c].reserved
        BY DEF ReservedIn
      <3> QED
        BY <2>1, <2>2, <2>3, <3>2, <3>3, SumsOfCalls
    <2>4. CASE d # call[c].date
      <3>1. HeldOn(d)' = HeldOn(d)
        BY <2>1, <2>4
      <3> QED
        BY <2>2, <2>4, <3>1, SumsOfCalls
    <2> QED
      BY <2>3, <2>4
  <1>4. ASSUME NEW d \in Days
        PROVE  /\ BilledOn(d)' = IF d = call[c].date THEN billed + BilledOn(d) ELSE BilledOn(d)
               /\ Overrun(d)' = IF d = call[c].date
                      THEN Max({0, billed - call[c].reserved}) + Overrun(d) ELSE Overrun(d)
    <2>1. /\ SettledOn(d) \in SUBSET Calls /\ SameRowsOn(SettledOn(d)) /\ c \notin SettledOn(d)
          /\ SettledOn(d)' = IF d = call[c].date THEN SettledOn(d) \cup {c} ELSE SettledOn(d)
      BY <1>1, <1>2 DEF SettledOn, SameRowsOn
    <2>2. /\ SumFunctionOnSet(BilledIn(call'), SettledOn(d)) = BilledOn(d)
          /\ SumFunctionOnSet(ExcessIn(call'), SettledOn(d)) = Overrun(d)
      BY <2>1, SameSums, SumsOfCalls DEF BilledOn
    <2>3. CASE d = call[c].date
      <3>1. SettledOn(d) \cup {c} \in SUBSET Calls
        BY <2>1
      <3>2. /\ NumbersOn(BilledIn(call'), SettledOn(d) \cup {c})
            /\ NumbersOn(ExcessIn(call'), SettledOn(d) \cup {c})
        BY <1>1, <3>1, CallNumbers
      <3>3. SumFunctionOnSet(BilledIn(call'), SettledOn(d) \cup {c}) =
                BilledIn(call')[c] + SumFunctionOnSet(BilledIn(call'), SettledOn(d))
        BY <2>1, <3>2, SumAdds
      <3>4. SumFunctionOnSet(ExcessIn(call'), SettledOn(d) \cup {c}) =
                ExcessIn(call')[c] + SumFunctionOnSet(ExcessIn(call'), SettledOn(d))
        BY <2>1, <3>2, SumAdds
      <3>5. BilledIn(call')[c] = billed
            /\ ExcessIn(call')[c] = Max({0, billed - call[c].reserved})
        BY <1>2 DEF BilledIn, ExcessIn
      <3> QED
        BY <2>1, <2>2, <2>3, <3>3, <3>4, <3>5, SumsOfCallsNext
    <2>4. CASE d # call[c].date
      BY <2>1, <2>2, <2>4, SumsOfCallsNext
    <2> QED
      BY <2>3, <2>4
  <1>5. ASSUME NEW p \in Requests, p # call[c].request
        PROVE  Cost(p)' = Cost(p)
    <2>1. Paid(p) \in SUBSET Calls /\ SameRowsOn(Paid(p)) /\ Paid(p)' = Paid(p)
      BY <1>1, <1>2, <1>5 DEF Paid, SameRowsOn
    <2> QED
      BY <2>1, SameSums, SumsOfCalls, SumsOfCallsNext
  <1> QED
    BY <1>3, <1>4, <1>5

\* A step that leaves the calls alone leaves every sum over them.
LEMMA SameTokens ==
    ASSUME UNCHANGED call
    PROVE  /\ \A d : Held(d)' = Held(d) /\ Overrun(d)' = Overrun(d)
                     /\ BilledOn(d)' = BilledOn(d)
           /\ \A q : Cost(q)' = Cost(q)
  BY DEF Held, Overrun, BilledOn, BilledIn, SettledOn, Cost

LEMMA TokensType ==
    /\ TypeInv => \A d : Held(d) \in Nat /\ Overrun(d) \in Nat /\ BilledOn(d) \in Nat
    /\ TypeInv' => \A d : Held(d)' \in Nat /\ Overrun(d)' \in Nat /\ BilledOn(d)' \in Nat
  <1>1. ASSUME NEW calls \in [Calls -> Call], NEW S \in SUBSET Calls
        PROVE  /\ SumFunctionOnSet(ReservedIn(calls), S) \in Nat
               /\ SumFunctionOnSet(ExcessIn(calls), S) \in Nat
               /\ SumFunctionOnSet(BilledIn(calls), S) \in Nat
    BY CallNumbers, SumType
  <1>2. \A d : HeldOn(d) \in SUBSET Calls /\ SettledOn(d) \in SUBSET Calls
    BY DEF HeldOn, SettledOn
  <1>3. \A d : HeldOn(d)' \in SUBSET Calls /\ SettledOn(d)' \in SUBSET Calls
    BY DEF HeldOn, SettledOn
  <1>4. ASSUME TypeInv
        PROVE  \A d : Held(d) \in Nat /\ Overrun(d) \in Nat /\ BilledOn(d) \in Nat
    <2>1. call \in [Calls -> Call]
      BY <1>4 DEF TypeInv, TypeOK
    <2> QED
      BY <1>1, <1>2, <2>1, SumsOfCalls DEF BilledOn
  <1>5. ASSUME TypeInv'
        PROVE  \A d : Held(d)' \in Nat /\ Overrun(d)' \in Nat /\ BilledOn(d)' \in Nat
    <2>1. call' \in [Calls -> Call]
      BY <1>5 DEF TypeInv, TypeOK
    <2> QED
      BY <1>1, <1>3, <2>1, SumsOfCallsNext
  <1> QED
    BY <1>4, <1>5

LEMMA TokensInit ==
    ASSUME Init
    PROVE  /\ \A d : Held(d) = 0 /\ Overrun(d) = 0 /\ BilledOn(d) = 0
           /\ \A d \in Days : used[d] = 0 /\ granted[d] = 0
  <1>1. \A c \in Calls : call[c].state = "none"
    BY DEF Init, InitUsage, NoCall
  <1>2. \A d : HeldOn(d) = {} /\ SettledOn(d) = {}
    BY <1>1 DEF HeldOn, SettledOn
  <1>3. \A d \in Days : used[d] = 0 /\ granted[d] = 0
    BY DEF Init, InitUsage
  <1> QED
    BY <1>2, <1>3, SumsOfCalls, SumEmpty DEF BilledOn

-----------------------------------------------------------------------------
(* The quota *)

QuotaInv == TypeInv /\ QuotaHeld

LEMMA QuotaInit == Init => QuotaInv
  BY TypeInit, TokensInit, TokenAssumption DEF QuotaInv, QuotaHeld, DailyLimit

LEMMA QuotaKept ==
    ASSUME QuotaInv, TypeInv', Transaction
    PROVE  QuotaHeld'
  <1>1. TypeInv /\ used \in [Days -> Nat] /\ granted \in [Days -> Nat] /\ Quota \in Nat
    BY TokenAssumption DEF QuotaInv, TypeInv, TypeOK
  <1> SUFFICES ASSUME NEW d \in Days
               PROVE  used'[d] + Held(d)' <= Quota + granted'[d] + Overrun(d)'
    BY DEF QuotaHeld, DailyLimit
  <1>2. /\ used[d] + Held(d) <= Quota + granted[d] + Overrun(d)
        /\ used[d] \in Nat /\ granted[d] \in Nat
    BY <1>1 DEF QuotaInv, QuotaHeld, DailyLimit
  <1>3. Held(d) \in Nat /\ Overrun(d) \in Nat /\ Held(d)' \in Nat /\ Overrun(d)' \in Nat
    BY <1>1, TokensType
  <1>4. CASE UNCHANGED <<call, quota>>
    BY <1>2, <1>4, SameTokens DEF quota
  <1>5. ASSUME NEW q \in Requests, NEW c \in Calls, Reserve(q, c), UNCHANGED quota
        PROVE  used'[d] + Held(d)' <= Quota + granted'[d] + Overrun(d)'
    <2>1. /\ Held(d)' = IF d = day THEN Estimate + Held(d) ELSE Held(d)
          /\ Overrun(d)' = Overrun(d)
          /\ UNCHANGED <<used, granted>>
      BY <1>1, <1>5, ReserveSums DEF quota
    <2>2. d = day => used[d] + Held(d) + Estimate <= Quota + granted[d]
      BY <1>5 DEF Reserve, WithinLimit, DailyLimit
    <2>3. Estimate \in Nat
      BY TokenAssumption
    <2> QED
      BY <1>1, <1>2, <1>3, <2>1, <2>2, <2>3
  <1>6. ASSUME NEW c \in Calls, NEW billed \in Nat, Settle(c, billed)
        PROVE  used'[d] + Held(d)' <= Quota + granted'[d] + Overrun(d)'
    <2>1. /\ Held(d) = IF d = call[c].date THEN call[c].reserved + Held(d)' ELSE Held(d)'
          /\ Overrun(d)' = IF d = call[c].date
                 THEN Max({0, billed - call[c].reserved}) + Overrun(d) ELSE Overrun(d)
      BY <1>1, <1>6, SettleSums
    <2>2. /\ used'[d] = IF d = call[c].date THEN used[d] + billed ELSE used[d]
          /\ granted' = granted
      BY <1>1, <1>6 DEF Settle, Booked
    <2>3. call[c].reserved \in Nat
      BY <1>1 DEF TypeInv, TypeOK, Call
    <2>4. PICK held \in Nat, excess \in Nat :
              /\ held = call[c].reserved /\ excess = Max({0, billed - held})
              /\ billed - held <= excess
      <3>1. billed - call[c].reserved \in Int
        BY <2>3
      <3> HIDE DEF Max
      <3>2. /\ Max({0, billed - call[c].reserved}) \in Nat
            /\ billed - call[c].reserved <= Max({0, billed - call[c].reserved})
        BY <3>1, ExcessOf
      <3> QED
        BY <2>3, <3>2
    <2> QED
      BY <1>1, <1>2, <1>3, <2>1, <2>2, <2>4
  <1>7. ASSUME QuotaStep, UNCHANGED call
        PROVE  used'[d] + Held(d)' <= Quota + granted'[d] + Overrun(d)'
    <2>1. used' = used /\ granted'[d] >= granted[d] /\ granted'[d] \in Nat
      <3>1. ASSUME NEW p \in Teachers, Grant(p)
            PROVE  used' = used /\ granted'[d] >= granted[d]
        <4>1. refill[p][2] \in Nat
          BY <1>1 DEF TypeInv, TypeOK
        <4> QED
          BY <1>1, <3>1, <4>1 DEF Grant
      <3>2. granted'[d] \in Nat
        BY DEF TypeInv, TypeOK
      <3> QED
        BY <1>2, <1>7, <3>1, <3>2 DEF QuotaStep, Midnight, ReadUsage
    <2> QED
      BY <1>1, <1>2, <1>3, <1>7, <2>1, SameTokens
  <1> QED
    BY <1>4, <1>5, <1>6, <1>7 DEF Transaction

LEMMA QuotaNext == QuotaInv /\ [Next]_vars => QuotaInv'
  BY TypeStep, StepIsTransaction, QuotaKept DEF QuotaInv

\* However many sessions a student works in at once, a day's usage and what open
\* calls hold stay within the day's limit, but for what single calls cost beyond
\* their own reservation: reserve counts the calls in flight, and settle books
\* where the call was reserved, also after midnight.
THEOREM QuotaIsHeld == Spec => []QuotaHeld
  <1>1. Init => QuotaInv
    BY QuotaInit
  <1>2. QuotaInv /\ [Next]_vars => QuotaInv'
    BY QuotaNext
  <1>3. QuotaInv => QuotaHeld
    BY DEF QuotaInv
  <1> QED
    BY <1>1, <1>2, <1>3, PTL DEF Spec

-----------------------------------------------------------------------------
(* The books *)

\* An answer stands on record when its run has finished, so its calls are settled.
AnswersFinished == \A s \in Sessions : \A i \in DOMAIN messages[s] :
    messages[s][i].kind # "question" => run[messages[s][i].request].status = "finished"

DaysBalance == \A d \in Days : used[d] = BilledOn(d)

AnswersPaid == \A s \in Sessions : \A i \in DOMAIN messages[s] :
    messages[s][i].kind # "question" => messages[s][i].billed = Cost(messages[s][i].request)

BooksInv == RunsInv /\ AnswersFinished /\ DaysBalance /\ AnswersPaid

LEMMA BooksInit == Init => BooksInv
  <1> SUFFICES ASSUME Init  PROVE BooksInv
    OBVIOUS
  <1>1. DaysBalance
    BY TokensInit DEF DaysBalance
  <1>2. AnswersFinished /\ AnswersPaid
    BY DEF Init, InitRuns, AnswersFinished, AnswersPaid
  <1> QED
    BY RunsInit, <1>1, <1>2 DEF BooksInv

\* The usage of a day changes with settle alone, by what the call is billed.
LEMMA DaysKeepBalance ==
    ASSUME TypeInv, TypeInv', DaysBalance, Transaction
    PROVE  DaysBalance'
  <1> SUFFICES ASSUME NEW d \in Days  PROVE used'[d] = BilledOn(d)'
    BY DEF DaysBalance
  <1>1. /\ used[d] = BilledOn(d) /\ BilledOn(d) \in Nat
        /\ used \in [Days -> Nat]
    BY TokensType DEF DaysBalance, TypeInv, TypeOK
  <1>2. CASE UNCHANGED call /\ UNCHANGED used
    BY <1>1, <1>2, SameTokens
  <1>3. ASSUME NEW q \in Requests, NEW c \in Calls, Reserve(q, c), UNCHANGED quota
        PROVE  used'[d] = BilledOn(d)'
    BY <1>1, <1>3, ReserveSums DEF quota
  <1>4. ASSUME NEW c \in Calls, NEW billed \in Nat, Settle(c, billed)
        PROVE  used'[d] = BilledOn(d)'
    <2>1. BilledOn(d)' = IF d = call[c].date THEN billed + BilledOn(d) ELSE BilledOn(d)
      BY <1>4, SettleSums
    <2>2. used'[d] = IF d = call[c].date THEN used[d] + billed ELSE used[d]
      BY <1>1, <1>4 DEF Settle, Booked
    <2> QED
      BY <1>1, <2>1, <2>2
  <1>5. QuotaStep => UNCHANGED used
    BY DEF QuotaStep, Midnight, ReadUsage, Grant
  <1> QED
    BY <1>2, <1>3, <1>4, <1>5 DEF Transaction, quota

\* What a finished run has cost stays as it is: none of its calls is open, and a
\* finished run opens no other.
LEMMA FinishedCostStays ==
    ASSUME RunsInv, Transaction, NEW q \in Requests, run[q].status = "finished"
    PROVE  Cost(q)' = Cost(q)
  <1>1. TypeInv /\ HeldCalls(q) = {}
    BY DEF RunsInv, SettledMeansSettled, FinishedIsSettled
  <1>2. CASE UNCHANGED call
    BY <1>2, SameTokens
  <1>3. ASSUME NEW p \in Requests, NEW c \in Calls, Reserve(p, c)
        PROVE  Cost(q)' = Cost(q)
    BY <1>1, <1>3, ReserveSums
  <1>4. ASSUME NEW c \in Calls, NEW billed \in Nat, Settle(c, billed)
        PROVE  Cost(q)' = Cost(q)
    <2>1. q # call[c].request
      BY <1>1, <1>4 DEF Settle, HeldCalls
    <2> QED
      BY <1>1, <1>4, <2>1, SettleSums
  <1> QED
    BY <1>2, <1>3, <1>4 DEF Transaction

LEMMA AnswersStayPaid ==
    ASSUME BooksInv, Transaction
    PROVE  AnswersFinished' /\ AnswersPaid'
  <1>1. RunsInv /\ TypeInv /\ messages \in [Sessions -> Seq(Message)]
    BY DEF BooksInv, RunsInv, TypeInv, TypeOK
  <1>2. ASSUME NEW s \in Sessions, NEW i \in DOMAIN messages[s], NEW q,
               messages[s][i].kind # "question", messages[s][i].request = q
        PROVE  run'[q].status = "finished" /\ messages[s][i].billed = Cost(q)'
    <2>1. messages[s][i] \in Message
      BY <1>1, LenProperties, ElementOfSeq
    <2>2. q \in Requests
      BY <1>2, <2>1 DEF Message
    <2>3. run[q].status = "finished" /\ messages[s][i].billed = Cost(q)
      BY <1>2 DEF BooksInv, AnswersFinished, AnswersPaid
    <2>4. StatusChange(q)
      BY <1>1, <2>2, StatusChanges
    <2>5. run'[q].status = "finished"
      BY <2>3, <2>4 DEF StatusChange, Active, ActiveStates
    <2>6. Cost(q)' = Cost(q)
      BY <1>1, <2>2, <2>3, FinishedCostStays
    <2> QED
      BY <2>3, <2>5, <2>6
  <1> SUFFICES ASSUME NEW s \in Sessions, NEW i \in DOMAIN messages'[s], NEW q,
                      messages'[s][i].kind # "question", messages'[s][i].request = q
               PROVE  run'[q].status = "finished" /\ messages'[s][i].billed = Cost(q)'
    BY DEF AnswersFinished, AnswersPaid, Cost
  <1>3. CASE UNCHANGED messages
    BY <1>2, <1>3
  <1>4. ASSUME NEW m \in Message, NEW p \in Requests,
               messages' = [messages EXCEPT ![p.session] = Append(messages[p.session], m)],
               m.kind # "question" => /\ m.request = p /\ run'[p].status = "finished"
                                      /\ m.billed = Cost(p)'
        PROVE  run'[q].status = "finished" /\ messages'[s][i].billed = Cost(q)'
    <2>1. CASE s # p.session
      <3>1. messages'[s] = messages[s]
        BY <1>1, <1>4, <2>1
      <3> QED
        BY <1>2, <3>1
    <2>2. CASE s = p.session
      <3> DEFINE old == messages[s]
      <3>1. messages'[s] = Append(old, m) /\ old \in Seq(Message)
        BY <1>1, <1>4, <2>2
      <3>2. /\ DOMAIN messages'[s] = 1 .. Len(old) + 1 /\ DOMAIN old = 1 .. Len(old)
            /\ \A j \in 1 .. Len(old) : messages'[s][j] = old[j]
            /\ messages'[s][Len(old) + 1] = m
            /\ Len(old) \in Nat
        BY <3>1, AppendProperties, LenProperties
      <3>3. CASE i \in DOMAIN old
        BY <1>2, <3>2, <3>3
      <3>4. CASE i = Len(old) + 1
        BY <1>4, <3>2, <3>4
      <3> QED
        BY <3>2, <3>3, <3>4
    <2> QED
      BY <2>1, <2>2
  <1>5. ASSUME NEW p \in Requests, Begin(p)
        PROVE  run'[q].status = "finished" /\ messages'[s][i].billed = Cost(q)'
    <2>1. [kind |-> "question", request |-> p, billed |-> 0] \in Message
      BY DEF Message
    <2> QED
      BY <1>4, <1>5, <2>1 DEF Begin
  <1>6. ASSUME NEW p \in Requests, NEW first \in Nat, FinishesWith(p, first), UNCHANGED call
        PROVE  run'[q].status = "finished" /\ messages'[s][i].billed = Cost(q)'
    <2>1. PICK kind \in {"answer", "back"}, labels \in SUBSET (first .. first + NewEvidence - 1) :
              Finish(p, kind, labels)
      BY <1>6 DEF FinishesWith
    <2>2. run'[p].status = "finished"
      <3>1. run \in [Requests -> Run] /\ run[p] \in Run
        BY <1>1 DEF TypeInv, TypeOK
      <3> QED
        BY <2>1, <3>1 DEF Finish, Run
    <2>3. Cost(p)' = Cost(p) /\ Cost(p) \in Nat
      BY <1>1, <1>6, SameTokens, CostType
    <2>4. [kind |-> kind, request |-> p, billed |-> Cost(p)] \in Message
      BY <2>3 DEF Message
    <2>5. messages' = [messages EXCEPT ![p.session] = Append(messages[p.session],
              [kind |-> kind, request |-> p, billed |-> Cost(p)])]
      BY <2>1 DEF Finish
    <2> QED
      BY <1>4, <2>2, <2>3, <2>4, <2>5
  <1>7. \/ UNCHANGED messages
        \/ \E p \in Requests : Begin(p)
        \/ \E p \in Requests, first \in Nat : FinishesWith(p, first) /\ UNCHANGED call
    <2>1. \A t \in Tasks : task[t].first \in Nat
      BY <1>1 DEF TypeInv, TypeOK, Task
    <2> QED
      BY <2>1 DEF Transaction, RunTransaction, BeginAgain, RequestCancel, Age, MarkTerminal,
                  Settle, runs
  <1> QED
    BY <1>3, <1>5, <1>6, <1>7

LEMMA BooksStep == BooksInv /\ [Next]_vars => BooksInv'
  <1> SUFFICES ASSUME BooksInv, [Next]_vars  PROVE BooksInv'
    OBVIOUS
  <1>1. RunsInv /\ RunsInv' /\ TypeInv /\ TypeInv' /\ Transaction
    BY RunsStep, StepIsTransaction DEF BooksInv, RunsInv
  <1> QED
    BY <1>1, DaysKeepBalance, AnswersStayPaid DEF BooksInv

\* A day's usage is the sum of the calls reserved on it, and an answer carries the
\* cost of all calls of its run: finish_run refuses while a call is open, and
\* reserve refuses once the run is closed.
THEOREM BooksAreBalanced == Spec => []BooksBalance
  <1>1. Init => BooksInv
    BY BooksInit
  <1>2. BooksInv /\ [Next]_vars => BooksInv'
    BY BooksStep
  <1>3. BooksInv => BooksBalance
    <2> SUFFICES ASSUME BooksInv  PROVE BooksBalance
      OBVIOUS
    <2>1. \A s \in Sessions : \A m \in ToSet(messages[s]) :
              m.kind # "question" => m.billed = Cost(m.request)
      BY DEF BooksInv, AnswersPaid, ToSet
    <2> QED
      BY <2>1 DEF BooksInv, DaysBalance, BilledOn, BilledIn, BooksBalance
  <1> QED
    BY <1>1, <1>2, <1>3, PTL DEF Spec

=============================================================================
