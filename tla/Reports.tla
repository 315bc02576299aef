------------------------------- MODULE Reports -------------------------------
(***************************************************************************)
(* Reports a model writes for a teacher: teaching_reports.py, its          *)
(* endpoints in routers/teacher.py and the page TeachingReport.jsx. A POST *)
(* inserts a running row and starts a task of the process; the page polls  *)
(* the latest row while it says running. The task may outlive STALE_AFTER, *)
(* and it dies with the process, whose restart does not touch its row.     *)
(***************************************************************************)
EXTENDS Naturals, Sequences, FiniteSets, FiniteSetsExt

CONSTANTS
    Subjects,       \* students of a lab
    Tabs,           \* pages open at one time
    Calls,          \* bound: requests of the pages under way
    StaleAfter,     \* STALE_AFTER, in ticks of the clock
    MaxReports      \* bound

\* Assumed of the constants wherever the module is instantiated.
ReportConstants == StaleAfter \in Nat \ {0} /\ MaxReports \in Nat /\ "nobody" \notin Tabs

VARIABLES
    reports,    \* the rows, oldest first
    tasks,      \* of each row where its task is
    asked,      \* students with a conversation that holds a question
    page,       \* of each tab its student, the report it shows and whether it starts one
    calls       \* requests under way

vars == <<reports, tasks, asked, page, calls>>

Loading == [id |-> 0, status |-> "loading"]
NoReport == [id |-> 0, status |-> "none"]
Free == [at |-> "free"]
Gone == [at |-> "gone"]

Init ==
    /\ reports = <<>> /\ tasks = <<>> /\ asked \in SUBSET Subjects
    /\ page = [t \in Tabs |-> [subject |-> "nobody", report |-> Loading, starting |-> FALSE]]
    /\ calls = [c \in Calls |-> Free]

-----------------------------------------------------------------------------
(* The endpoints                                                           *)

\* Mutant: a running report is never given up.
NeverStale(r) == FALSE

\* stale.
Stale(r) == r.status = "running" /\ r.age > StaleAfter

\* Mutant: the latest report of the lab, whoever it is about.
LatestOfAnyone(x) == Len(reports)

\* _latest_report: its place among the rows, 0 for none.
Latest(x) == Max({0} \cup {i \in DOMAIN reports : reports[i].subject = x})

\* public.
Public(i) == IF i = 0 THEN NoReport
             ELSE [id |-> i, status |-> IF Stale(reports[i]) THEN "failed" ELSE reports[i].status]

Answered(c, report) == calls' = [calls EXCEPT ![c] = [@ EXCEPT !.at = "answered", !.report = report]]

\* get_report.
Get(c) ==
    /\ calls[c].at = "sent" /\ calls[c].kind = "GET" /\ Answered(c, Public(Latest(calls[c].subject)))
    /\ UNCHANGED <<reports, tasks, asked, page>>

\* create_report up to its insert: a report that runs is answered as it is.
Look(c) ==
    LET i == Latest(calls[c].subject) IN
    /\ calls[c].at = "sent" /\ calls[c].kind = "POST"
    /\ IF i # 0 /\ Public(i).status = "running" THEN Answered(c, Public(i))
       ELSE calls' = [calls EXCEPT ![c].at = "insert"]
    /\ UNCHANGED <<reports, tasks, asked, page>>

\* The row and its task.
Insert(c) ==
    /\ calls[c].at = "insert" /\ Len(reports) < MaxReports
    /\ reports' = Append(reports, [subject |-> calls[c].subject, status |-> "running", text |-> "none",
                                   error |-> "none", facts |-> FALSE, age |-> 0])
    /\ tasks' = Append(tasks, [at |-> "gather"])
    /\ Answered(c, [id |-> Len(reports) + 1, status |-> "running"])
    /\ UNCHANGED <<asked, page>>

\* 503 without a model, the connection is lost, an exception.
RequestFails(c) ==
    /\ calls[c].at \in {"sent", "insert"} /\ Answered(c, NoReport)
    /\ UNCHANGED <<reports, tasks, asked, page>>

-----------------------------------------------------------------------------
(* The task: write_report                                                  *)

Result(i, status, text, error, facts) ==
    tasks' = [tasks EXCEPT ![i] = [at |-> "save", status |-> status, text |-> text, error |-> error, facts |-> facts]]

\* gather_facts, or its exceptions.
Gather(i) ==
    /\ tasks[i].at = "gather"
    /\ \/ reports[i].subject \in asked /\ tasks' = [tasks EXCEPT ![i].at = "model"]
       \/ reports[i].subject \notin asked /\ Result(i, "failed", "none", "no_questions", FALSE)
       \/ Result(i, "failed", "none", "exception", FALSE)
    /\ UNCHANGED <<reports, asked, page, calls>>

\* Mutant: an empty reply is a report.
AnyReply(i) ==
    /\ tasks[i].at = "model" /\ \E text \in {"text", "none"} : Result(i, "done", text, "none", TRUE)
    /\ UNCHANGED <<reports, asked, page, calls>>

Reply(i) ==
    /\ tasks[i].at = "model"
    /\ \/ Result(i, "done", "text", "none", TRUE)
       \/ Result(i, "failed", "none", "empty_reply", TRUE)
       \/ Result(i, "failed", "none", "exception", TRUE)
    /\ UNCHANGED <<reports, asked, page, calls>>

Save(i) ==
    /\ tasks[i].at = "save" /\ tasks' = [tasks EXCEPT ![i] = Gone]
    /\ reports' = [reports EXCEPT ![i] = [@ EXCEPT !.status = tasks[i].status, !.text = tasks[i].text,
                                                   !.error = tasks[i].error, !.facts = tasks[i].facts]]
    /\ UNCHANGED <<asked, page, calls>>

\* The last transaction fails: nothing catches it, the row stays.
SaveFails(i) ==
    /\ tasks[i].at = "save" /\ tasks' = [tasks EXCEPT ![i] = Gone]
    /\ UNCHANGED <<reports, asked, page, calls>>

\* The process ends with its tasks and its requests.
Crash ==
    /\ tasks' = [i \in DOMAIN tasks |-> Gone]
    /\ calls' = [c \in Calls |-> IF calls[c].at \in {"sent", "insert"}
                                 THEN [calls[c] EXCEPT !.at = "answered", !.report = NoReport] ELSE calls[c]]
    /\ UNCHANGED <<reports, asked, page>>

Tick ==
    /\ \E r \in {reports[i] : i \in DOMAIN reports} : r.age <= StaleAfter
    /\ reports' = [i \in DOMAIN reports |-> [reports[i] EXCEPT !.age = IF @ > StaleAfter THEN @ ELSE @ + 1]]
    /\ UNCHANGED <<tasks, asked, page, calls>>

AskQuestion(x) == x \notin asked /\ asked' = asked \cup {x} /\ UNCHANGED <<reports, tasks, page, calls>>

-----------------------------------------------------------------------------
(* The page                                                                *)

Send(c, t, kind) ==
    calls' = [calls EXCEPT ![c] = [at |-> "sent", kind |-> kind, tab |-> t,
                                   subject |-> page'[t].subject, report |-> NoReport]]

\* A student is expanded: a new component, and the answers for the old one are
\* dropped, where a POST goes on at the server.
Open(c, t, x) ==
    /\ page' = [page EXCEPT ![t] = [subject |-> x, report |-> Loading, starting |-> FALSE]]
    /\ calls[c] = Free /\ Len(reports) < MaxReports
    /\ calls' = [d \in Calls |->
                    IF d = c THEN [at |-> "sent", kind |-> "GET", tab |-> t, subject |-> x, report |-> NoReport]
                    ELSE IF calls[d] = Free \/ calls[d].tab # t THEN calls[d]
                    ELSE IF calls[d].kind = "GET" THEN Free ELSE [calls[d] EXCEPT !.tab = "nobody"]]
    /\ UNCHANGED <<reports, tasks, asked>>

\* The interval of load.
Poll(c, t) ==
    /\ page[t].report.status = "running" /\ calls[c] = Free /\ page' = page /\ Send(c, t, "GET")
    /\ UNCHANGED <<reports, tasks, asked>>

\* write, behind a button that is disabled while a report loads, starts or runs.
Write(c, t) ==
    /\ page[t].report.status \notin {"loading", "running"} /\ ~page[t].starting /\ calls[c] = Free
    /\ page' = [page EXCEPT ![t].starting = TRUE] /\ Send(c, t, "POST")
    /\ UNCHANGED <<reports, tasks, asked>>

\* setReport in the order the answers arrive; a failed POST leaves the report.
Receive(c) ==
    /\ calls[c].at = "answered" /\ calls' = [calls EXCEPT ![c] = Free]
    /\ page' = [t \in Tabs |->
                  IF t # calls[c].tab THEN page[t]
                  ELSE [page[t] EXCEPT !.starting = @ /\ calls[c].kind = "GET",
                                       !.report = IF calls[c].kind = "POST" /\ calls[c].report = NoReport THEN @
                                                  ELSE calls[c].report]]
    /\ UNCHANGED <<reports, tasks, asked>>

-----------------------------------------------------------------------------

Serve(c) == Get(c) \/ Look(c) \/ Insert(c)
Runs(i) == Gather(i) \/ Reply(i) \/ Save(i) \/ SaveFails(i)

Next ==
    \/ \E c \in Calls : \/ Serve(c) \/ RequestFails(c) \/ Receive(c)
                        \/ \E t \in Tabs : Poll(c, t) \/ Write(c, t) \/ \E x \in Subjects : Open(c, t, x)
    \/ \E i \in DOMAIN reports : Runs(i)
    \/ \E x \in Subjects : AskQuestion(x)
    \/ Tick \/ Crash

Spec == Init /\ [][Next]_vars

\* Requests are answered or fail, time passes, and an open page keeps polling.
FairSpec ==
    /\ Spec /\ WF_vars(Tick)
    /\ \A c \in Calls : WF_vars(Serve(c) \/ RequestFails(c)) /\ WF_vars(Receive(c))
    /\ \A t \in Tabs : SF_vars(\E c \in Calls : Poll(c, t))

-----------------------------------------------------------------------------
(* Properties                                                              *)

TypeOK ==
    /\ reports \in Seq([subject : Subjects, status : {"running", "done", "failed"}, text : {"none", "text"},
                        error : {"none", "no_questions", "empty_reply", "exception"}, facts : BOOLEAN,
                        age : 0 .. StaleAfter + 1])
    /\ Len(tasks) = Len(reports) /\ \A i \in DOMAIN tasks : tasks[i].at \in {"gather", "model", "save", "gone"}
    /\ \A t \in Tabs : page[t].subject \in Subjects \cup {"nobody"} /\ page[t].starting \in BOOLEAN
    /\ \A c \in Calls : calls[c].at \in {"free", "sent", "insert", "answered"}

\* A finished report has its text and the facts it is based on, or the reason why
\* there is none: a page that shows "done" has something to show.
FinishedReportsExplain ==
    \A i \in DOMAIN reports :
        LET r == reports[i] IN /\ r.status = "done" => r.text # "none" /\ r.facts /\ r.subject \in asked
                               /\ r.status = "failed" <=> r.error # "none"

\* A page shows reports about its own student, whatever else is written in the
\* lab and however late the answers of earlier pages arrive.
PagesShowTheirStudent ==
    \A t \in Tabs : page[t].report.id # 0 => reports[page[t].report.id].subject = page[t].subject

\* No page says "writing" for ever, also when the process that wrote died and
\* nobody touched its row.
WaitingEnds ==
    \A t \in Tabs : page[t].report.status = "running" ~> page[t].report.status # "running"

Writing(i) == tasks[i].at # "gone" /\ Public(i).status = "running"

\* routers/teacher.py, line 935: one at a time.
OneAtATime ==
    \A i, j \in DOMAIN reports : reports[i].subject = reports[j].subject /\ Writing(i) /\ Writing(j) => i = j

\* TeachingReport.jsx, lines 3 and 4: the latest one is shown. A page does not go
\* back from a report to an older one of the same student.
PagesGoForward ==
    [][\A t \in Tabs : page'[t].subject = page[t].subject /\ page'[t].report.id # 0
          => page'[t].report.id >= page[t].report.id]_vars

=============================================================================
