------------------------------- MODULE Course -------------------------------
(***************************************************************************)
(* A class, its lab, its people and the questions they ask, in the order   *)
(* the requests of students, teachers and admins reach the database:       *)
(* backend/app/routers/teacher.py, admin.py, student.py and chat.py with   *)
(* their services, and the access checks of agent/tools.py. Every endpoint *)
(* is one step (it checks and writes in one transaction); an answer is     *)
(* many, because it waits for models, and access may change in between.    *)
(* Names and titles are left out: nothing depends on them.                 *)
(***************************************************************************)
EXTENDS Naturals

CONSTANTS
    Students,           \* who signs up
    Teachers,           \* whom an admin gave the role
    Askers,             \* bound: those whose conversations are looked at
    NoOne,
    NewClassExamMode,   \* the setting NEW_CLASS_EXAM_MODE
    MaxChanges          \* bound: changes of rights, membership and switches

\* Assumed of the constants wherever the module is instantiated.
CourseConstants ==
    /\ Students \cap Teachers = {} /\ NoOne \notin Students \cup Teachers
    /\ Askers \subseteq Students \cup Teachers
    /\ NewClassExamMode \in BOOLEAN /\ MaxChanges \in Nat

Users == Students \cup Teachers

VARIABLES
    role, live,     \* of each user; a deleted user keeps the row
    class,          \* the class: owner (NoOne before it exists), flags, invite code
    lab,            \* its lab
    members,        \* class_students
    chat,           \* one conversation of each asker in the lab; holds: its answers may
                    \* hold course content; free, a ghost: a question of it was taken
                    \* while the class was not in exam mode
    run,            \* the answer being made in it
    changes

vars == <<role, live, class, lab, members, chat, run, changes>>

Roles == {"student", "teacher", "admin"}
Staff == {"teacher", "admin"}

NoClass == [teacher |-> NoOne, live |-> TRUE, exam |-> NewClassExamMode, code |-> 0]
NoLab   == [made |-> FALSE, active |-> TRUE, live |-> TRUE]
NoChat  == [state |-> "none", test |-> FALSE, holds |-> FALSE, free |-> FALSE]

\* found: it read course content; told: the history in its prompt may hold some.
NoRun   == [at |-> "idle", exam |-> FALSE, mode |-> "direct", found |-> FALSE, told |-> FALSE]

Init ==
    /\ role = [u \in Users |-> IF u \in Teachers THEN "teacher" ELSE "student"]
    /\ live = [u \in Users |-> TRUE]
    /\ class = NoClass /\ lab = NoLab /\ members = {}
    /\ chat = [u \in Askers |-> NoChat] /\ run = [u \in Askers |-> NoRun]
    /\ changes = 0

people == <<role, live>>
work   == <<chat, run>>
Changed == changes < MaxChanges /\ changes' = changes + 1

-----------------------------------------------------------------------------
(* Who may do what: read from the rows on every request.                   *)

\* get_current_user and require_student, require_teacher, require_admin.
Acts(u, roles) == live[u] /\ role[u] \in roles

Owns(u) == Acts(u, Staff) /\ class.teacher = u /\ class.live

\* The class of the lab may be deleted: verify_lab_ownership does not look.
OwnsLab(u) == Acts(u, Staff) /\ lab.made /\ lab.live /\ class.teacher = u

\* The owner's preview of the lab needs no membership.
TestDrives(u) == chat[u].test /\ class.teacher = u

MayRead(u) ==
    /\ chat[u].state = "open" /\ lab.active /\ lab.live /\ class.live /\ live[u]
    /\ u \in members \/ TestDrives(u)

\* Mutant: only what the student still sees.
ShownChats(t) == {u \in Askers : chat[u].state = "open" /\ class.teacher = t}

\* The conversations in the chat history of a class, for its owner.
AuditedChats(t) == {u \in Askers : chat[u].state # "none" /\ class.teacher = t}

\* The labs the page of a joined class shows.
ListedLabs(u) == IF u \in members /\ lab.made THEN {lab} ELSE {}

-----------------------------------------------------------------------------
(* Teachers and their classes.                                             *)

CreateClass(u) ==
    /\ Acts(u, Staff) /\ class.teacher = NoOne
    /\ class' = [class EXCEPT !.teacher = u]
    /\ UNCHANGED <<people, lab, members, work, changes>>

CreateLab(u) ==
    /\ Owns(u) /\ ~lab.made
    /\ lab' = [lab EXCEPT !.made = TRUE]
    /\ UNCHANGED <<people, class, members, work, changes>>

SetExamMode(u) ==
    /\ Owns(u) /\ Changed
    /\ class' = [class EXCEPT !.exam = ~@]
    /\ UNCHANGED <<people, lab, members, work>>

ResetInviteCode(u) ==
    /\ Owns(u) /\ Changed
    /\ class' = [class EXCEPT !.code = @ + 1]
    /\ UNCHANGED <<people, lab, members, work>>

Unenroll(u, s) ==
    /\ Owns(u) /\ s \in members /\ Changed
    /\ members' = members \ {s}
    /\ UNCHANGED <<people, class, lab, work>>

ClassDeleted ==
    /\ class.live /\ Changed
    /\ class' = [class EXCEPT !.live = FALSE]
    /\ UNCHANGED <<people, lab, members, work>>

LabSwitched ==
    /\ lab.made /\ lab.live /\ Changed
    /\ lab' \in {[lab EXCEPT !.active = ~@], [lab EXCEPT !.live = FALSE]}
    /\ UNCHANGED <<people, class, members, work>>

DeleteClass(u) == Owns(u) /\ ClassDeleted
UpdateLab(u)   == OwnsLab(u) /\ LabSwitched

OpenTestDrive(u) ==
    /\ OwnsLab(u) /\ chat[u].state = "none"
    /\ chat' = [chat EXCEPT ![u] = [NoChat EXCEPT !.state = "open", !.test = TRUE]]
    /\ UNCHANGED <<people, class, lab, members, run, changes>>

-----------------------------------------------------------------------------
(* Admins: there always is one more, who is not among Users.               *)

SetRole(u, r) ==
    /\ live[u] /\ role[u] # r /\ Changed
    /\ role' = [role EXCEPT ![u] = r]
    /\ UNCHANGED <<live, class, lab, members, work>>

DeleteUser(u) ==
    /\ live[u] /\ Changed
    /\ live' = [live EXCEPT ![u] = FALSE]
    /\ UNCHANGED <<role, class, lab, members, work>>

TransferClass(u) ==
    /\ class.teacher \notin {NoOne, u} /\ class.live /\ Acts(u, Staff) /\ Changed
    /\ class' = [class EXCEPT !.teacher = u]
    /\ UNCHANGED <<people, lab, members, work>>

ForceDeleteClass == class.teacher # NoOne /\ ClassDeleted
ForceUpdateLab   == LabSwitched

\* The run's row goes with its session: nothing it does afterwards is stored.
HardDelete(u) ==
    /\ chat[u].state # "none" /\ Changed
    /\ chat' = [chat EXCEPT ![u] = NoChat] /\ run' = [run EXCEPT ![u] = NoRun]
    /\ UNCHANGED <<people, class, lab, members>>

-----------------------------------------------------------------------------
(* Students. A deleted class still takes members; a locked or deleted lab  *)
(* still takes conversations (nobody can ask in them).                     *)

Join(u, code) ==
    /\ Acts(u, {"student"}) /\ class.teacher # NoOne /\ code = class.code
    /\ u \notin members
    /\ members' = members \cup {u}
    /\ UNCHANGED <<people, class, lab, work, changes>>

Leave(u) ==
    /\ live[u] /\ u \in members /\ Changed
    /\ members' = members \ {u}
    /\ UNCHANGED <<people, class, lab, work>>

OpenChat(u) ==
    /\ live[u] /\ lab.made /\ u \in members /\ chat[u].state = "none"
    /\ chat' = [chat EXCEPT ![u] = [NoChat EXCEPT !.state = "open"]]
    /\ UNCHANGED <<people, class, lab, members, run, changes>>

HideOwnChat(u) ==
    /\ live[u] /\ chat[u].state = "open" /\ Changed
    /\ chat' = [chat EXCEPT ![u].state = "hidden"]
    /\ UNCHANGED <<people, class, lab, members, run>>

-----------------------------------------------------------------------------
(* A question. The endpoint checks the conversation, the lab and the       *)
(* membership; reads the exam mode; and takes the scope, which also looks  *)
(* at the class and the user, and the history: in every mode, and what it  *)
(* leaves out is ChatHistory's.                                            *)

Moves(u, next) ==
    /\ run' = [run EXCEPT ![u] = next]
    /\ UNCHANGED <<people, class, lab, members, chat, changes>>

At(u, place) == run[u].at = place
To(u, place) == [run[u] EXCEPT !.at = place]

Ask(u) ==
    /\ run[u].at \in {"idle", "saved"}
    /\ live[u] /\ chat[u].state = "open" /\ lab.active /\ lab.live
    /\ TestDrives(u) \/ u \in members
    /\ Moves(u, [NoRun EXCEPT !.at = "gated"])

\* Mutant: the client's mode is kept.
AskedMode(exam, mode) == mode

ModeOf(exam, mode) == IF exam THEN "direct" ELSE mode

ChooseMode(u, mode) ==
    /\ At(u, "gated")
    /\ run' = [run EXCEPT ![u] = [at |-> "chosen", exam |-> class.exam,
                                  mode |-> ModeOf(class.exam, mode), found |-> FALSE,
                                  told |-> FALSE]]
    /\ chat' = [chat EXCEPT ![u].free = @ \/ ~class.exam]
    /\ UNCHANGED <<people, class, lab, members, changes>>

TakeScope(u) ==
    /\ At(u, "chosen")
    /\ \E told \in {FALSE, chat[u].holds} :
          Moves(u, IF ~MayRead(u) THEN NoRun
                   ELSE [To(u, IF run[u].mode = "direct" THEN "written" ELSE "working")
                            EXCEPT !.told = told])

\* A search waits for the embedding and for the reranker and looks again after
\* each; the look at an image waits for the vision model.
Search(u) == At(u, "working") /\ MayRead(u) /\ Moves(u, To(u, "embedding"))

Embedded(u) ==
    /\ At(u, "embedding")
    /\ Moves(u, To(u, IF MayRead(u) THEN "ranking" ELSE "working"))

\* Mutant: the passages go out as they were found.
RankedAsFound(u) ==
    /\ At(u, "ranking")
    /\ Moves(u, [To(u, "working") EXCEPT !.found = TRUE])

Ranked(u) ==
    /\ At(u, "ranking")
    /\ Moves(u, [To(u, "working") EXCEPT !.found = @ \/ MayRead(u)])

ViewImage(u) == At(u, "working") /\ MayRead(u) /\ Moves(u, To(u, "viewing"))

Viewed(u) ==
    /\ At(u, "viewing")
    /\ Moves(u, [To(u, "working") EXCEPT !.found = @ \/ MayRead(u)])

\* open, navigate, read and grep; a refused tool call changes nothing.
ReadPages(u) ==
    /\ At(u, "working") /\ MayRead(u)
    /\ Moves(u, [run[u] EXCEPT !.found = TRUE])

\* Without access to what it read, the answer is the access_revoked text.
Write(u) ==
    /\ At(u, "working")
    /\ Moves(u, [To(u, "written") EXCEPT !.found = @ /\ MayRead(u)])

\* What the answer may hold of the course.
Repeats(r) == r.found \/ r.told

Stored(u) ==
    /\ run' = [run EXCEPT ![u].at = "saved"]
    /\ chat' = [chat EXCEPT ![u].holds = @ \/ Repeats(run[u])]
    /\ UNCHANGED <<people, class, lab, members, changes>>

\* Mutant: the answer is stored as it was written.
SaveAsWritten(u) == At(u, "written") /\ Stored(u)

Save(u) ==
    /\ At(u, "written")
    /\ IF MayRead(u) THEN Stored(u) ELSE Moves(u, NoRun)

\* A failure, a limit or a client that leaves.
Stop(u) == run[u].at \notin {"idle", "saved"} /\ Moves(u, NoRun)

-----------------------------------------------------------------------------
Teaches(u) ==
    \/ CreateClass(u) \/ CreateLab(u) \/ SetExamMode(u) \/ ResetInviteCode(u)
    \/ DeleteClass(u) \/ UpdateLab(u)
    \/ \E s \in Users : Unenroll(u, s)

Administers(u) ==
    DeleteUser(u) \/ TransferClass(u) \/ \E r \in Roles : SetRole(u, r)

Studies(u) ==
    \/ Leave(u)
    \/ \E code \in 0 .. MaxChanges : Join(u, code)

Converses(u) == OpenChat(u) \/ OpenTestDrive(u) \/ HideOwnChat(u) \/ HardDelete(u)

Answers(u) ==
    \/ Ask(u) \/ TakeScope(u) \/ Search(u) \/ Embedded(u) \/ Ranked(u)
    \/ ViewImage(u) \/ Viewed(u) \/ ReadPages(u) \/ Write(u) \/ Save(u) \/ Stop(u)
    \/ \E mode \in {"direct", "research"} : ChooseMode(u, mode)

Next ==
    \/ ForceDeleteClass \/ ForceUpdateLab
    \/ \E u \in Users : Teaches(u) \/ Administers(u) \/ Studies(u)
    \/ \E u \in Askers : Converses(u) \/ Answers(u)

Spec == Init /\ [][Next]_vars

-----------------------------------------------------------------------------
\* Every variable has its type; a lab belongs to a class and a conversation to
\* a lab.
TypeOK ==
    /\ role \in [Users -> Roles] /\ live \in [Users -> BOOLEAN]
    /\ class \in [teacher: Users \cup {NoOne}, live: BOOLEAN, exam: BOOLEAN, code: Nat]
    /\ lab \in [made: BOOLEAN, active: BOOLEAN, live: BOOLEAN]
    /\ members \subseteq Users /\ changes \in 0 .. MaxChanges
    /\ chat \in [Askers -> [state: {"none", "open", "hidden"}, test: BOOLEAN,
                            holds: BOOLEAN, free: BOOLEAN]]
    /\ run \in [Askers -> [at: {"idle", "gated", "chosen", "working", "embedding",
                               "ranking", "viewing", "written", "saved"},
                          exam: BOOLEAN, mode: {"direct", "research"}, found: BOOLEAN,
                          told: BOOLEAN]]
    /\ lab.made => class.teacher # NoOne
    /\ \A u \in Askers : chat[u].state # "none" => lab.made

FindsByRight ==
    \A u \in Askers : Repeats(run'[u]) /\ ~Repeats(run[u]) => MayRead(u)

\* Course content reaches an answer, from pages or from earlier answers, only while
\* the one who asked may read it: a member who was removed, a lab that was locked,
\* a class that was deleted or given away while a model worked gets nothing more
\* (ResearchTools, load_safe_context).
ContentNeedsAccess == [][FindsByRight]_vars

StoresByRight ==
    \A u \in Askers : run[u].at # "saved" /\ run'[u].at = "saved" => MayRead(u)

\* An answer is stored in a conversation only while its owner may still ask
\* there, however long the models took (finish_run).
AnswersNeedAccess == [][StoresByRight]_vars

\* An answer taken in exam mode adds no course content to its conversation: what it
\* may repeat is there already, from an answer to a question that was taken while
\* the class was not in exam mode, however often the mode was switched since. A
\* conversation that was always in exam mode holds none (chat.py, direct.py).
ExamAnswersAddNothing ==
    \A u \in Askers :
        /\ run[u].exam /\ Repeats(run[u]) => chat[u].holds
        /\ chat[u].holds \/ Repeats(run[u]) => chat[u].free

AuditKeeps ==
    \A t \in Users, u \in Askers :
        class'.teacher = t /\ chat[u].state # "none" => u \in AuditedChats(t)' \/ HardDelete(u)

\* What a student hides, leaves or loses stays in the teacher's chat history, also
\* for the teacher who takes the class over: a conversation leaves it only when
\* an admin deletes it (get_chat_history).
AuditLosesNothing == [][AuditKeeps]_vars

\* Of set_exam_mode: in exam mode every lab of the class answers without course
\* search.
ExamModeHolds ==
    [][\A u \in Askers : run'[u].found /\ ~run[u].found => ~class.exam]_vars

\* Of the join endpoint: the questions of teachers and admins never count in the
\* analytics of a class, which count what is asked outside test drives.
StaffDoNotCount ==
    [][\A u \in Askers : /\ run[u].at # "saved" /\ run'[u].at = "saved"
                         /\ ~chat[u].test
                         => role[u] = "student"]_vars

\* Of the list endpoint: a student sees the active labs of a joined class.
ListedLabsAreActive == \A u \in Users : \A l \in ListedLabs(u) : l.active /\ l.live

\* Of session_service: students cannot delete sessions.
StudentsDeleteNothing ==
    [][\A u \in Askers : chat[u].state = "open" /\ chat'[u].state = "hidden"
                         => role[u] \in Staff]_vars
=============================================================================
