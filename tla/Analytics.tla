------------------------------ MODULE Analytics ------------------------------
(***************************************************************************)
(* What the pages of a teacher and of an admin count, computed from the    *)
(* rows the conversations left: the usage of a class and of the platform,  *)
(* the Analytics tab (analytics_service.py), the citation report           *)
(* (citation_report.py) and the facts of a written report                  *)
(* (gather_facts of teaching_reports.py). The state is those rows, while   *)
(* students ask, leave and rate and labs are deleted; each report is an    *)
(* operator. One class; days stand for moments and periods.                *)
(***************************************************************************)
EXTENDS Naturals, FiniteSetsExt, SequencesExt

CONSTANTS
    Students, Labs,
    Chats,              \* of each conversation its user, lab and whether it is a test drive
    LabFiles,           \* the published files of the class
    Modes, Outcomes,    \* how a run answers; how it ends and what its answer cites
    Days, MaxRuns       \* bounds

Problems == {"budget_exhausted", "no_answer"}       \* PROBLEM_STOPS
Partial == {"partial_no_answer"}                    \* the stops that begin so
NoMode == "none"

\* Assumed of the constants wherever the module is instantiated.
AnalyticsConstants ==
    /\ \A c \in DOMAIN Chats : Chats[c].lab \in Labs /\ Chats[c].test \in BOOLEAN
    /\ Days \in Nat \ {0} /\ MaxRuns \in Nat /\ NoMode \notin Modes

VARIABLES
    messages,   \* in the order they were written
    runs,       \* in the order they began
    cited,      \* of each message the pages it cites
    usage,      \* the requests of the usage table
    members,    \* students of the class who are not deleted
    labs,       \* labs that are not deleted
    today

rows == <<messages, runs, cited, usage>>
vars == <<rows, members, labs, today>>

Init ==
    /\ messages = <<>> /\ runs = <<>> /\ cited = <<>> /\ usage = 0
    /\ members = Students /\ labs = Labs /\ today = 1

User(m) == Chats[messages[m].chat].user
Running(c) == {r \in DOMAIN runs : runs[r].chat = c /\ runs[r].status = "running"}
Live(c) == Chats[c].lab \in labs /\ (Chats[c].user \in members \/ Chats[c].test)

Said(c, by, mode) == [chat |-> c, by |-> by, mode |-> mode, feedback |-> "none", day |-> today]

-----------------------------------------------------------------------------
(* What writes the rows                                                    *)

\* begin_run: the question is a message and counts as a request at once.
Question(c) ==
    /\ Live(c) /\ Running(c) = {} /\ Len(runs) < MaxRuns
    /\ messages' = Append(messages, Said(c, "user", NoMode)) /\ cited' = Append(cited, {})
    /\ runs' = Append(runs, [chat |-> c, status |-> "running", stop |-> "none", day |-> today,
                             question |-> Len(messages'), answer |-> 0])
    /\ usage' = usage + 1
    /\ UNCHANGED <<members, labs, today>>

\* finish_run.
Finish(r, mode, stop, pages) ==
    /\ runs[r].status = "running" /\ Live(runs[r].chat)
    /\ messages' = Append(messages, Said(runs[r].chat, "llm", mode)) /\ cited' = Append(cited, pages)
    /\ runs' = [runs EXCEPT ![r].status = "finished", ![r].stop = stop, ![r].answer = Len(messages')]
    /\ UNCHANGED <<usage, members, labs, today>>

Fail(r) ==
    /\ runs[r].status = "running"
    /\ runs' = [runs EXCEPT ![r].status = "failed"]
    /\ UNCHANGED <<messages, cited, usage, members, labs, today>>

\* rate_message.
Rate(m, f) ==
    /\ messages[m].by = "llm" /\ messages[m].feedback # f
    /\ messages' = [messages EXCEPT ![m].feedback = f]
    /\ UNCHANGED <<runs, cited, usage, members, labs, today>>

Leave(u) == u \in members /\ members' = members \ {u} /\ UNCHANGED <<rows, labs, today>>
DeleteLab(l) == l \in labs /\ labs' = labs \ {l} /\ UNCHANGED <<rows, members, today>>
NextDay == today < Days /\ today' = today + 1 /\ UNCHANGED <<rows, members, labs>>

Next ==
    \/ NextDay
    \/ \E c \in DOMAIN Chats : Question(c)
    \/ \E r \in DOMAIN runs : \/ Fail(r)
                              \/ \E mode \in Modes, o \in Outcomes : Finish(r, mode, o.stop, o.pages)
    \/ \E m \in DOMAIN messages, f \in {"up", "down"} : Rate(m, f)
    \/ \E u \in Students : Leave(u)
    \/ \E l \in Labs : DeleteLab(l)

Spec == Init /\ [][Next]_vars

-----------------------------------------------------------------------------
(* The usage of a class and of the platform                                *)

\* Mutant: test drives count.
AllIn(ls) == {m \in DOMAIN messages : Chats[messages[m].chat].lab \in ls}

\* The messages of the conversations of some labs, without test drives.
In(ls) == {m \in DOMAIN messages : LET c == Chats[messages[m].chat] IN c.lab \in ls /\ ~c.test}

By(sender, ms) == {m \in ms : messages[m].by = sender}

\* get_class_analytics: a request is one reply.
LabRequests(l) == [u \in {User(m) : m \in In({l})} |->
                      Cardinality({m \in By("llm", In({l})) : User(m) = u})]
ClassRequests == MapThenSumSet(LAMBDA l : FoldFunction(+, 0, LabRequests(l)), labs)

\* get_global_analytics.
PlatformRequests == usage

\* get_class_overview: the labs that were deleted are counted for questions.
RecentQuestions == Cardinality({m \in By("user", In(Labs)) : messages[m].day = today})

-----------------------------------------------------------------------------
(* The Analytics tab                                                       *)

NoActivity == [questions |-> 0, recent |-> 0, up |-> 0, down |-> 0, modes |-> [m \in Modes |-> 0]]

\* last_question: of each conversation.
Asked(last, m) == [last EXCEPT ![messages[m].chat] = m]

\* One pass over the messages in the order of time.
Counted(acc, m) ==
    LET x == messages[m] IN
    IF x.by = "user"
      THEN [acc EXCEPT !.overview.questions = @ + 1,
                       !.overview.recent = @ + (IF x.day = today THEN 1 ELSE 0),
                       !.last = Asked(@, m), !.asked[User(m)] = @ + 1]
      ELSE [acc EXCEPT !.overview.modes[x.mode] = @ + 1,
                       !.overview.up = @ + (IF x.feedback = "up" THEN 1 ELSE 0),
                       !.overview.down = @ + (IF x.feedback = "down" THEN 1 ELSE 0),
                       !.thumbsDown = IF x.feedback = "down" THEN @ \cup {<<m, acc.last[x.chat]>>} ELSE @]

\* Mutant: only members are listed.
OnlyMembers(ls) == members

\* The members, and those who left but have messages.
Listed(ls) == members \cup {User(m) : m \in In(ls)}

\* get_teaching_analytics, of the class or of one lab.
Teaching(ls) ==
    LET all == FoldLeft(Counted,
                   [overview |-> NoActivity, last |-> [c \in DOMAIN Chats |-> 0],
                    asked |-> [u \in {Chats[c].user : c \in DOMAIN Chats} \cup Students |-> 0], thumbsDown |-> {}],
                   SetToSortSeq(In(ls), <))
    IN [overview |-> all.overview, thumbsDown |-> all.thumbsDown,
        students |-> [u \in Listed(ls) |-> all.asked[u]]]

\* The runs it lists as problems.
ListedProblems(ls) == {r \in DOMAIN runs :
    /\ Chats[runs[r].chat].lab \in ls /\ ~Chats[runs[r].chat].test
    /\ runs[r].status = "failed" \/ runs[r].stop \in Problems}

-----------------------------------------------------------------------------
(* The facts of a written report                                           *)

\* Mutant: the first question that waits for an answer takes it.
FirstWaits(acc, m) == IF acc.pending[messages[m].chat] = 0 THEN [acc.pending EXCEPT ![messages[m].chat] = m]
                      ELSE acc.pending

\* The latest question waits.
Waits(acc, m) == [acc.pending EXCEPT ![messages[m].chat] = m]

Paired(acc, m) ==
    LET c == messages[m].chat IN
    IF messages[m].by = "user" THEN [acc EXCEPT !.pending = Waits(acc, m)]
    ELSE IF acc.pending[c] = 0 THEN acc
    ELSE [acc EXCEPT !.pairs = @ \cup {<<acc.pending[c], m>>}, !.pending[c] = 0]

\* gather_facts: each question with the answer that follows it.
Pairs(l) == FoldLeft(Paired, [pending |-> [c \in DOMAIN Chats |-> 0], pairs |-> {}],
                     SetToSortSeq(In({l}), <)).pairs

-----------------------------------------------------------------------------
(* The citation report                                                     *)

InPeriod(day, from, to) == from <= day /\ day < to

RunsOf(ls, from, to) == {r \in DOMAIN runs :
    /\ Chats[runs[r].chat].lab \in ls /\ ~Chats[runs[r].chat].test
    /\ InPeriod(runs[r].day, from, to)}

\* Mutant: a file is what one answer cites of it.
FilesOfOne(answers) == [f \in {p[1] : p \in UNION {cited[m] : m \in answers}} |->
                           {CHOOSE m \in answers : \E p \in cited[m] : p[1] = f}]

\* Of each cited file the answers that cite it.
FilesOf(answers) == [f \in {p[1] : p \in UNION {cited[m] : m \in answers}} |->
                        {m \in answers : \E p \in cited[m] : p[1] = f}]

\* _report: of some labs, for the days from .. to - 1.
CitationReport(ls, from, to) ==
    LET answers == {m \in In(ls) : cited[m] # {} /\ InPeriod(messages[m].day, from, to)}
        asked == RunsOf(ls, from, to)
        files == FilesOf(answers)
    IN [answers |-> answers, files |-> files, uncited |-> LabFiles \ DOMAIN files,
        pages |-> [p \in UNION {cited[m] : m \in answers} |-> {m \in answers : p \in cited[m]}],
        examples |-> [m \in answers |-> {runs[r].question : r \in {r \in asked : runs[r].answer = m}}],
        wrong |-> {m \in answers : messages[m].feedback = "down"},
        unverified |-> {r \in asked : runs[r].status = "failed" \/ runs[r].stop \in Partial}]

Ever == CitationReport(labs, 1, Days + 1)

-----------------------------------------------------------------------------
(* Properties                                                              *)

TypeOK ==
    /\ \A m \in DOMAIN messages : /\ messages[m].by \in {"user", "llm"} /\ messages[m].day \in 1..today
                                  /\ messages[m].mode \in Modes \cup {NoMode}
    /\ DOMAIN cited = DOMAIN messages /\ usage \in 0..MaxRuns
    /\ \A r \in DOMAIN runs : runs[r].answer \in 0..Len(messages) /\ runs[r].question \in DOMAIN messages
    /\ members \subseteq Students /\ labs \subseteq Labs

\* The two ways in which the code finds the question of an answer, as the last
\* one before it and as the one that waits, find the question of its run, with
\* failed questions between and conversations side by side.
AnswersKeepTheirQuestion ==
    LET asked == {<<runs[r].question, runs[r].answer>> : r \in {r \in DOMAIN runs : runs[r].answer # 0}}
    IN /\ \A l \in labs : Pairs(l) = {p \in asked : p[2] \in In({l})}
       /\ \A t \in Teaching(labs).thumbsDown : <<t[2], t[1]>> \in asked

\* The class is the sum of its labs, the list of students explains every
\* question, whoever left meanwhile, and the usage page counts the answers the
\* Analytics tab counts.
NumbersAddUp ==
    LET class == Teaching(labs)
        sum(f(_)) == MapThenSumSet(LAMBDA l : f(Teaching({l}).overview), labs)
    IN /\ class.overview.questions = FoldFunction(+, 0, class.students)
       /\ class.overview.questions = sum(LAMBDA o : o.questions)
       /\ class.overview.down = sum(LAMBDA o : o.down)
       /\ ClassRequests = FoldFunction(+, 0, class.overview.modes)
       /\ class.overview.recent <= RecentQuestions

\* No number of a teacher's page comes from a test drive.
TestDrivesDoNotCount ==
    LET tests == {m \in DOMAIN messages : Chats[messages[m].chat].test}
    IN /\ {t[1] : t \in Teaching(labs).thumbsDown} \cap tests = {}
       /\ Ever.answers \cap tests = {} /\ \A l \in labs : \A p \in Pairs(l) : p[2] \notin tests

\* The citation report over all days: files, pages and the answers marked as
\* wrong are counted over the same answers, and those marked are thumbs down of
\* the Analytics tab.
CitationsAgree ==
    /\ Ever.answers = UNION {Ever.files[f] : f \in DOMAIN Ever.files}
    /\ \A f \in DOMAIN Ever.files : Ever.files[f] = UNION {Ever.pages[p] : p \in {p \in DOMAIN Ever.pages : p[1] = f}}
    /\ Ever.wrong = {t[1] : t \in Teaching(labs).thumbsDown} \cap Ever.answers

\* get_class_analytics: requests are "consistent with UsageStat.request_count
\* used by the global dashboard" (labs kept, no test drives).
RequestsAgree ==
    labs = Labs /\ (\A c \in DOMAIN Chats : Running(c) = {}) =>
        ClassRequests = PlatformRequests - Cardinality({r \in DOMAIN runs : Chats[runs[r].chat].test})

\* "answers that went wrong": what the citation report calls not verified, the
\* Analytics tab lists as a problem.
UnfinishedAnswersAreListed == Ever.unverified \subseteq ListedProblems(labs)

\* The citation report of a period gives cited pages "with the students and
\* their questions".
ExamplesHaveQuestions ==
    \A d \in 1..today : LET report == CitationReport(labs, d, d + 1)
                        IN \A m \in report.answers : report.examples[m] # {}

=============================================================================
