-------------------------------- MODULE Titles --------------------------------
(***************************************************************************)
(* The title of one conversation: session_titles.py with its call in       *)
(* chat.py, and the student's own renames. After an answer is final the    *)
(* request that delivered it asks the model for a title, in three          *)
(* transactions with the model's call between the first two; the student   *)
(* renames, hides and asks on meanwhile, a second tab asks again, and the  *)
(* client may close the stream, which cancels what is left of the request. *)
(***************************************************************************)
EXTENDS Naturals, Sequences, SequencesExt

CONSTANTS
    Requests,       \* questions with an identity of their client
    Wordless,       \* those of which clean_title leaves nothing
    Tabs,           \* bound: requests delivered at one time
    Renames,        \* bound: renames at one time
    Names,          \* titles a student types, Blank among them
    MaxRenames      \* bound

\* What is no title.
Blank == "  "

\* Assumed of the constants wherever the module is instantiated.
TitleConstants == Wordless \subseteq Requests /\ Blank \in Names /\ MaxRenames \in Nat

VARIABLES
    session,    \* "open", "hidden" or "gone"
    test,       \* a teacher's test drive
    title,      \* who wrote the title, and which
    answers,    \* requests with a saved answer, oldest first
    task,       \* of each tab the request it delivered and where its title is
    rename,     \* renames under way
    renames

vars == <<session, test, title, answers, task, rename, renames>>

Untitled == [by |-> "nobody", text |-> Blank]
\* (session.title or '').strip()
Titled(x) == x.text # Blank

Idle == [at |-> "idle"]
Resting == {"idle", "left"}
Stop(t) == task' = [task EXCEPT ![t] = Idle]

\* create_session with the title the client sends, if any; a test drive has one.
Init ==
    /\ session = "open" /\ test \in BOOLEAN /\ answers = <<>> /\ renames = 0
    /\ title \in {Untitled} \cup [by : {"student"}, text : Names]
    /\ test => Titled(title)
    /\ task = [t \in Tabs |-> Idle] /\ rename = [r \in Renames |-> Idle]

-----------------------------------------------------------------------------
(* The request after its answer is final                                   *)

\* A new answer, or the saved one again for a request that is sent again.
Deliver(t, q) ==
    /\ task[t].at \in Resting /\ session = "open"
    /\ answers' = IF q \in ToSet(answers) THEN answers ELSE Append(answers, q)
    /\ task' = [task EXCEPT ![t] = [at |-> "answered", of |-> q]]
    /\ UNCHANGED <<session, test, title, rename, renames>>

\* Mutant: any untitled conversation gets a title.
AnyExchange == session # "gone" /\ ~test /\ ~Titled(title)

\* _untitled_first_exchange.
UntitledFirstExchange == session # "gone" /\ ~test /\ ~Titled(title) /\ Len(answers) = 1

Check(t) ==
    /\ task[t].at = "answered"
    /\ IF UntitledFirstExchange THEN task' = [task EXCEPT ![t].at = "writing"] ELSE Stop(t)
    /\ UNCHANGED <<session, test, title, answers, rename, renames>>

Proposed(t, by) ==
    task' = [task EXCEPT ![t] = [at |-> "proposed", of |-> @.of,
                                 title |-> [by |-> by, text |-> @.of]]]

ModelWrites(t) ==
    /\ task[t].at = "writing" /\ Proposed(t, "model")
    /\ UNCHANGED <<session, test, title, answers, rename, renames>>

\* Mutant: a failed call ends the request.
GivesUp(t) ==
    /\ task[t].at = "writing" /\ Stop(t)
    /\ UNCHANGED <<session, test, title, answers, rename, renames>>

\* The call fails or its reply has no words: the question's first line.
ModelFails(t) ==
    /\ task[t].at = "writing"
    /\ IF task[t].of \in Wordless THEN Stop(t) ELSE Proposed(t, "question")
    /\ UNCHANGED <<session, test, title, answers, rename, renames>>

\* Mutant: only the first check looks at the title.
IsThere(t) == session # "gone"

\* The student may have renamed it while the model was writing.
StillUntitled(t) == session # "gone" /\ ~Titled(title)

\* The row is loaded and looked at.
Load(t) ==
    /\ task[t].at = "proposed"
    /\ IF StillUntitled(t)
       THEN task' = [task EXCEPT ![t] = [at |-> "loaded", of |-> @.of, title |-> @.title, seen |-> title]]
       ELSE Stop(t)
    /\ UNCHANGED <<session, test, title, answers, rename, renames>>

\* The UPDATE writes whatever the row says by now; of a deleted row it fails.
Commit(t) ==
    /\ task[t].at = "loaded" /\ Stop(t)
    /\ title' = IF session = "gone" THEN title ELSE task[t].title
    /\ UNCHANGED <<session, test, answers, rename, renames>>

\* The client closes the stream or the process ends: the rest is not run.
Leave(t) ==
    /\ task[t].at \notin Resting /\ task' = [task EXCEPT ![t] = [at |-> "left"]]
    /\ UNCHANGED <<session, test, title, answers, rename, renames>>

-----------------------------------------------------------------------------
(* The student                                                             *)

BeginRename(r, name) ==
    /\ rename[r].at = "idle" /\ session = "open" /\ renames < MaxRenames /\ renames' = renames + 1
    /\ rename' = [rename EXCEPT ![r] = [at |-> "loaded", name |-> name, seen |-> title]]
    /\ UNCHANGED <<session, test, title, answers, task>>

\* A name that is the one it loaded writes nothing.
EndRename(r) ==
    /\ rename[r].at = "loaded" /\ rename' = [rename EXCEPT ![r] = Idle]
    /\ title' = IF session = "gone" \/ (rename[r].seen # Untitled /\ rename[r].name = rename[r].seen.text)
                THEN title ELSE [by |-> "student", text |-> rename[r].name]
    /\ UNCHANGED <<session, test, answers, task, renames>>

\* soft_delete_session: hidden from its student, its row stays.
Hide ==
    /\ session = "open" /\ session' = "hidden"
    /\ UNCHANGED <<test, title, answers, task, rename, renames>>

\* hard_delete_session.
HardDelete ==
    /\ session # "gone" /\ session' = "gone"
    /\ UNCHANGED <<test, title, answers, task, rename, renames>>

-----------------------------------------------------------------------------

Works(t) == Check(t) \/ ModelWrites(t) \/ ModelFails(t) \/ Load(t) \/ Commit(t)

Next ==
    \/ \E t \in Tabs : Works(t) \/ Leave(t) \/ \E q \in Requests : Deliver(t, q)
    \/ \E r \in Renames : EndRename(r) \/ \E name \in Names : BeginRename(r, name)
    \/ Hide \/ HardDelete

Spec == Init /\ [][Next]_vars

\* A request that is not cancelled runs on; the model's call ends after 20 s.
FairSpec == Spec /\ \A t \in Tabs : WF_vars(Works(t))

-----------------------------------------------------------------------------
(* Properties                                                              *)

Generated == {"model", "question"}

TypeOK ==
    /\ session \in {"open", "hidden", "gone"} /\ test \in BOOLEAN /\ answers \in Seq(Requests)
    /\ title \in [by : Generated \cup {"student", "nobody"}, text : Names \cup Requests]
    /\ \A t \in Tabs : task[t].at \in Resting \cup {"answered", "writing", "proposed", "loaded"}
    /\ \A r \in Renames : rename[r].at \in {"idle", "loaded"}

\* A generated title is about the first exchange and never on a test drive, also
\* when a second tab asks again and later answers arrive while the model writes.
TitleOfTheFirstExchange ==
    title.by \in Generated => /\ answers # <<>> /\ title.text = Head(answers)
                              /\ ~test

RenameStays ==
    title.by = "student" /\ Titled(title) /\ title'.by \in Generated
    => \E t \in Tabs : /\ task[t].at = "loaded" /\ task'[t].at = "idle"
                       /\ ~Titled(task[t].seen)

\* Only a request that loaded the row before the student's title was committed
\* may still overwrite it: a rename during the model's 20 seconds is kept.
RenameWhileWritingStays == [][RenameStays]_vars

\* A client who stays gets the title, whether the model answers or not.
StayingGetsATitle ==
    \A t \in Tabs : task[t].at = "writing" /\ task[t].of \notin Wordless
                      ~> Titled(title) \/ task[t].at = "left" \/ session = "gone"

\* session_titles.py, lines 6 and 7: a title the student already wrote is kept.
StudentTitleKept ==
    [][title.by = "student" /\ Titled(title) => title'.by = "student"]_vars

\* session_titles.py, lines 4 and 5: when its first answer is saved, the answer
\* model writes a short title.
FirstAnswerIsTitled ==
    answers # <<>> /\ ~test /\ ToSet(answers) \cap Wordless = {} ~> Titled(title) \/ session # "open"

=============================================================================
