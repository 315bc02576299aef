----------------------------- MODULE CourseProofs -----------------------------
(***************************************************************************)
(* What the run of MCCourse checks of a class, of teaching rules, of       *)
(* accounts, of the history of a chat, of the research loop and of a       *)
(* search, for any students, teachers, files, documents and bounds: who is *)
(* answered from the course, whose rules a prompt repeats, what admins     *)
(* decided, what a new prompt repeats of a conversation, which pages it    *)
(* holds, and on what an answer stands.                                    *)
(***************************************************************************)
EXTENDS MCCourse, SumProofs, SequenceTheorems

-----------------------------------------------------------------------------
(* The class, its people and their questions *)

Places == {"idle", "gated", "chosen", "working", "embedding", "ranking", "viewing", "written",
           "saved"}
Runs == [at: Places, exam: BOOLEAN, mode: {"direct", "research"}, found: BOOLEAN, told: BOOLEAN]
Chats == [state: {"none", "open", "hidden"}, test: BOOLEAN, holds: BOOLEAN, free: BOOLEAN]

\* A run that was asked in exam mode found nothing, is at no tool, and when its
\* scope is taken it goes straight to the answer.
Direct(r) ==
    r.exam => /\ ~r.found /\ r.at \notin {"working", "embedding", "ranking", "viewing"}
              /\ r.at = "chosen" => r.mode = "direct"

\* What is told was stored before; what an answer may hold came, here or earlier, from
\* a question that was taken while the class was not in exam mode.
Fits(r, c) ==
    /\ r.told => c.holds
    /\ c.holds \/ r.found => c.free
    /\ r.at \in {"working", "embedding", "ranking", "viewing"} => c.free
    /\ r.at = "chosen" /\ ~r.exam => c.free
    /\ c.state = "none" => r = Course!NoRun

CourseInv ==
    Course!TypeOK /\ \A u \in Askers : Direct(run[u]) /\ Fits(run[u], chat[u])

LEMMA AskersAreUsers == Askers \subseteq Course!Users
  BY CourseAssumption DEF Course!CourseConstants, Course!Users

LEMMA NoRunIsDirect ==
    /\ Course!NoRun \in Runs /\ Direct(Course!NoRun)
    /\ ~Course!NoRun.found /\ ~Course!NoRun.told /\ Course!NoRun.at = "idle"
  BY DEF Course!NoRun, Runs, Places, Direct

LEMMA CourseInit == Course!Init => CourseInv
  <1> SUFFICES ASSUME Course!Init PROVE CourseInv
    OBVIOUS
  <1>1. role \in [Course!Users -> Course!Roles] /\ live \in [Course!Users -> BOOLEAN]
    BY DEF Course!Init, Course!Roles
  <1>2. class \in [teacher: Course!Users \cup {NoOne}, live: BOOLEAN, exam: BOOLEAN, code: Nat]
    BY CourseAssumption DEF Course!Init, Course!NoClass, Course!CourseConstants
  <1>3. /\ lab \in [made: BOOLEAN, active: BOOLEAN, live: BOOLEAN] /\ ~lab.made
        /\ members \subseteq Course!Users
    BY DEF Course!Init, Course!NoLab
  <1>4. changes \in 0 .. MaxChanges
    BY CourseAssumption DEF Course!Init, Course!CourseConstants
  <1>5. chat \in [Askers -> Chats] /\ \A u \in Askers : chat[u].state = "none"
    BY DEF Course!Init, Course!NoChat, Chats
  <1>6. run \in [Askers -> Runs] /\ \A u \in Askers : Direct(run[u])
    BY NoRunIsDirect DEF Course!Init
  <1>7. \A u \in Askers : run[u] = Course!NoRun /\ ~chat[u].holds
    BY DEF Course!Init, Course!NoChat
  <1>8. \A u \in Askers : Fits(run[u], chat[u])
    BY <1>7, NoRunIsDirect DEF Fits
  <1> QED
    BY <1>1, <1>2, <1>3, <1>4, <1>5, <1>6, <1>8 DEF CourseInv, Course!TypeOK, Chats, Runs, Places

\* The two records with one field changed.
LEMMA ChatFields ==
    ASSUME NEW c \in Chats, NEW x
    PROVE  /\ [c EXCEPT !.free = x] =
                  [state |-> c.state, test |-> c.test, holds |-> c.holds, free |-> x]
           /\ [c EXCEPT !.holds = x] =
                  [state |-> c.state, test |-> c.test, holds |-> x, free |-> c.free]
           /\ [c EXCEPT !.state = x] =
                  [state |-> x, test |-> c.test, holds |-> c.holds, free |-> c.free]
  BY DEF Chats

LEMMA RunRecords ==
    ASSUME NEW r \in Runs, NEW x
    PROVE  /\ [r EXCEPT !.at = x] = [at |-> x, exam |-> r.exam, mode |-> r.mode,
                                     found |-> r.found, told |-> r.told]
           /\ [r EXCEPT !.found = x] = [at |-> r.at, exam |-> r.exam, mode |-> r.mode,
                                        found |-> x, told |-> r.told]
  BY DEF Runs

\* A step of the answer of u, and what it leaves in the conversation.
LEMMA StepKeeps ==
    ASSUME CourseInv, NEW u \in Askers, NEW next \in Runs, NEW left \in Chats,
           run' = [run EXCEPT ![u] = next], chat' = [chat EXCEPT ![u] = left],
           Direct(next), Fits(next, left), left.state = chat[u].state,
           UNCHANGED <<role, live, class, lab, members, changes>>
    PROVE  CourseInv'
  <1>1. run \in [Askers -> Runs] /\ chat \in [Askers -> Chats]
    BY DEF CourseInv, Course!TypeOK, Runs, Places, Chats
  <1>2. /\ run' \in [Askers -> Runs] /\ chat' \in [Askers -> Chats]
        /\ run'[u] = next /\ chat'[u] = left
        /\ \A v \in Askers \ {u} : run'[v] = run[v] /\ chat'[v] = chat[v]
    BY <1>1
  <1>3. \A v \in Askers : /\ Direct(run'[v]) /\ Fits(run'[v], chat'[v])
                          /\ chat'[v].state = chat[v].state
    BY <1>2 DEF CourseInv
  <1> QED
    BY <1>2, <1>3 DEF CourseInv, Course!TypeOK, Runs, Places, Chats

LEMMA MovesKeep ==
    ASSUME CourseInv, NEW u \in Askers, NEW next \in Runs, Direct(next), Fits(next, chat[u]),
           Course!Moves(u, next)
    PROVE  CourseInv'
  <1>1. chat \in [Askers -> Chats]
    BY DEF CourseInv, Course!TypeOK, Chats
  <1>2. chat[u] \in Chats /\ chat' = [chat EXCEPT ![u] = chat[u]]
    BY <1>1 DEF Course!Moves
  <1>3. run' = [run EXCEPT ![u] = next] /\ UNCHANGED <<role, live, class, lab, members, changes>>
    BY DEF Course!Moves, Course!people
  <1> QED
    BY <1>2, <1>3, StepKeeps

\* The record of a run, field by field.
LEMMA RunFields ==
    ASSUME CourseInv, NEW u \in Askers
    PROVE  /\ run[u] \in Runs /\ Direct(run[u]) /\ chat[u] \in Chats /\ Fits(run[u], chat[u])
           /\ run[u].at # "idle" => chat[u].state # "none"
           /\ Fits(Course!NoRun, chat[u])
           /\ \A place \in Places :
                  /\ Course!To(u, place) \in Runs /\ Course!To(u, place).at = place
                  /\ Course!To(u, place).exam = run[u].exam
                  /\ Course!To(u, place).mode = run[u].mode
                  /\ Course!To(u, place).found = run[u].found
                  /\ Course!To(u, place).told = run[u].told
  <1>1. /\ run[u] \in Runs /\ Direct(run[u]) /\ chat[u] \in Chats /\ Fits(run[u], chat[u])
    BY DEF CourseInv, Course!TypeOK, Runs, Places, Chats
  <1>2. run[u].at # "idle" => chat[u].state # "none"
    BY <1>1, NoRunIsDirect DEF Fits
  <1>3. Fits(Course!NoRun, chat[u])
    BY <1>1, NoRunIsDirect DEF Fits
  <1> QED
    BY <1>1, <1>2, <1>3 DEF Course!To, Runs

\* The run of u as it moves on.
Onward(u, place, found, told) ==
    [at |-> place, exam |-> run[u].exam, mode |-> run[u].mode, found |-> found, told |-> told]

\* A run that moves on finds something only at a tool, and is told only what the
\* conversation holds.
LEMMA GoesOn ==
    ASSUME CourseInv, NEW u \in Askers, NEW place \in Places, NEW found \in BOOLEAN,
           run[u].at \notin {"idle", "gated"}, place \notin {"idle", "gated", "chosen"},
           found /\ ~run[u].found => run[u].at \in {"working", "ranking", "viewing"},
           place \in {"working", "embedding", "ranking", "viewing"} =>
               \/ run[u].at \in {"working", "embedding", "ranking", "viewing"}
               \/ run[u].at = "chosen" /\ run[u].mode = "research",
           NEW told \in BOOLEAN, told => run[u].told \/ chat[u].holds
    PROVE  /\ Onward(u, place, found, told) \in Runs /\ Direct(Onward(u, place, found, told))
           /\ Fits(Onward(u, place, found, told), chat[u])
  <1> DEFINE r == run[u]
             c == chat[u]
             next == Onward(u, place, found, told)
  <1> USE DEF Onward
  <1>1. r \in Runs /\ Direct(r) /\ c \in Chats /\ Fits(r, c) /\ c.state # "none"
    BY RunFields
  <1>2. next \in Runs
    BY <1>1 DEF Runs
  <1>3. Direct(next)
    BY <1>1 DEF Direct, Runs
  <1>4. next.told => c.holds
    BY <1>1 DEF Fits
  <1>5. next.found => c.free
    BY <1>1 DEF Fits, Runs
  <1>6. place \in {"working", "embedding", "ranking", "viewing"} => c.free
    BY <1>1 DEF Fits, Direct, Runs
  <1> QED
    BY <1>1, <1>2, <1>3, <1>4, <1>5, <1>6 DEF Fits

LEMMA AnswersKeep ==
    ASSUME CourseInv, NEW u \in Askers, Course!Answers(u)
    PROVE  CourseInv'
  <1> DEFINE r == run[u]
  <1>1. r \in Runs /\ Direct(r) /\ chat[u] \in Chats /\ Fits(r, chat[u])
    BY RunFields
  <1>2. \A place \in Places : Course!To(u, place) = Onward(u, place, r.found, r.told)
    BY <1>1 DEF Course!To, Runs, Onward
  <1>3. Course!MayRead(u) \in BOOLEAN
    BY DEF Course!MayRead
  <1>4. CASE Course!Ask(u)
    <2> DEFINE next == [Course!NoRun EXCEPT !.at = "gated"]
    <2>1. next \in Runs /\ Direct(next) /\ ~next.found /\ ~next.told /\ next.at = "gated"
      BY DEF Course!NoRun, Runs, Places, Direct
    <2>2. chat[u].state = "open"
      BY <1>4 DEF Course!Ask
    <2>3. Fits(next, chat[u])
      BY <1>1, <2>1, <2>2 DEF Fits
    <2> QED
      BY <1>4, <2>1, <2>3, MovesKeep DEF Course!Ask
  <1>5. ASSUME NEW mode \in {"direct", "research"}, Course!ChooseMode(u, mode)
        PROVE  CourseInv'
    <2> DEFINE next == [at |-> "chosen", exam |-> class.exam,
                        mode |-> Course!ModeOf(class.exam, mode), found |-> FALSE, told |-> FALSE]
               left == [state |-> chat[u].state, test |-> chat[u].test, holds |-> chat[u].holds,
                        free |-> chat[u].free \/ ~class.exam]
    <2>1. class.exam \in BOOLEAN /\ r.at = "gated" /\ chat \in [Askers -> Chats]
      BY <1>5 DEF CourseInv, Course!TypeOK, Course!ChooseMode, Course!At, Chats
    <2>2. next \in Runs /\ Direct(next)
      BY <2>1 DEF Runs, Places, Direct, Course!ModeOf
    <2>3. left \in Chats /\ left.state # "none"
      BY <1>1, <2>1, RunFields DEF Chats
    <2>4. Fits(next, left)
      BY <1>1, <2>1, <2>3 DEF Fits, Chats
    <2>5. /\ run' = [run EXCEPT ![u] = next]
          /\ UNCHANGED <<role, live, class, lab, members, changes>>
      BY <1>5 DEF Course!ChooseMode, Course!people
    <2>6. chat' = [chat EXCEPT ![u] = left]
      <3>1. [chat[u] EXCEPT !.free = chat[u].free \/ ~class.exam] = left
        BY <1>1, ChatFields
      <3>2. chat' = [chat EXCEPT ![u] = [chat[u] EXCEPT !.free = chat[u].free \/ ~class.exam]]
        BY <1>5 DEF Course!ChooseMode
      <3> QED
        BY <3>1, <3>2
    <2>7. left.state = chat[u].state
      OBVIOUS
    <2> HIDE DEF next, left
    <2> QED
      BY <2>2, <2>3, <2>4, <2>5, <2>6, <2>7, StepKeeps
  <1>6. CASE Course!TakeScope(u)
    <2>1. r.at = "chosen"
      BY <1>6 DEF Course!TakeScope, Course!At
    <2>2. CASE ~Course!MayRead(u)
      BY <1>6, <2>2, NoRunIsDirect, RunFields, MovesKeep DEF Course!TakeScope
    <2>3. CASE Course!MayRead(u)
      <3> DEFINE place == IF r.mode = "direct" THEN "written" ELSE "working"
      <3>1. place \in Places
        BY DEF Places
      <3>2. PICK told \in {FALSE, chat[u].holds} :
                Course!Moves(u, [Course!To(u, place) EXCEPT !.told = told])
        BY <1>6, <2>3 DEF Course!TakeScope
      <3>3. told \in BOOLEAN /\ (told => chat[u].holds)
        BY <1>1, <3>2 DEF Chats
      <3>4. [Course!To(u, place) EXCEPT !.told = told] = Onward(u, place, r.found, told)
        BY <1>2, <3>1 DEF Onward
      <3>5. r.found \in BOOLEAN /\ (place = "working" => r.mode = "research")
        BY <1>1 DEF Runs
      <3>6. /\ Onward(u, place, r.found, told) \in Runs /\ Direct(Onward(u, place, r.found, told))
            /\ Fits(Onward(u, place, r.found, told), chat[u])
        BY <2>1, <3>1, <3>3, <3>5, GoesOn
      <3> QED
        BY <3>2, <3>4, <3>6, MovesKeep
    <2> QED
      BY <2>2, <2>3
  <1>7. CASE Course!Search(u) \/ Course!ViewImage(u) \/ Course!Embedded(u)
    <2>1. PICK place \in {"working", "embedding", "ranking", "viewing"} :
              Course!Moves(u, Course!To(u, place))
      BY <1>7 DEF Course!Search, Course!ViewImage, Course!Embedded
    <2>2. r.at \in {"working", "embedding"}
      BY <1>7 DEF Course!Search, Course!ViewImage, Course!Embedded, Course!At
    <2>3. place \in Places /\ r.found \in BOOLEAN /\ r.told \in BOOLEAN
      BY <1>1 DEF Places, Runs
    <2>4. /\ Onward(u, place, r.found, r.told) \in Runs /\ Direct(Onward(u, place, r.found, r.told))
          /\ Fits(Onward(u, place, r.found, r.told), chat[u])
      BY <2>2, <2>3, GoesOn
    <2> QED
      BY <1>2, <2>1, <2>3, <2>4, MovesKeep
  <1>9. CASE Course!Ranked(u) \/ Course!Viewed(u) \/ Course!ReadPages(u) \/ Course!Write(u)
    <2>1. r.at \in {"working", "ranking", "viewing"} /\ r.found \in BOOLEAN /\ r.told \in BOOLEAN
      BY <1>1, <1>9
         DEF Course!Ranked, Course!Viewed, Course!ReadPages, Course!Write, Course!At, Runs
    <2>2. PICK place \in {"working", "written"} :
              \E found \in BOOLEAN : Course!Moves(u, Onward(u, place, found, r.told))
      <3>1. CASE Course!Ranked(u) \/ Course!Viewed(u)
        <4>1. Course!Moves(u, [Course!To(u, "working") EXCEPT !.found = @ \/ Course!MayRead(u)])
          BY <3>1 DEF Course!Ranked, Course!Viewed
        <4>2. [Course!To(u, "working") EXCEPT !.found = @ \/ Course!MayRead(u)]
                  = Onward(u, "working", r.found \/ Course!MayRead(u), r.told)
          BY <1>2 DEF Places, Onward
        <4> QED
          BY <1>3, <2>1, <4>1, <4>2
      <3>2. CASE Course!ReadPages(u)
        <4>1. Course!Moves(u, [r EXCEPT !.found = TRUE]) /\ r.at = "working"
          BY <3>2 DEF Course!ReadPages, Course!At
        <4>2. [r EXCEPT !.found = TRUE] = Onward(u, "working", TRUE, r.told)
          BY <1>1, <4>1, RunRecords DEF Onward
        <4> QED
          BY <4>1, <4>2
      <3>3. CASE Course!Write(u)
        <4>1. Course!Moves(u, [Course!To(u, "written") EXCEPT !.found = @ /\ Course!MayRead(u)])
          BY <3>3 DEF Course!Write
        <4>2. [Course!To(u, "written") EXCEPT !.found = @ /\ Course!MayRead(u)]
                  = Onward(u, "written", r.found /\ Course!MayRead(u), r.told)
          BY <1>2 DEF Places, Onward
        <4> QED
          BY <1>3, <2>1, <4>1, <4>2
      <3> QED
        BY <1>9, <3>1, <3>2, <3>3
    <2>3. PICK found \in BOOLEAN : Course!Moves(u, Onward(u, place, found, r.told))
      BY <2>2
    <2>4. /\ Onward(u, place, found, r.told) \in Runs /\ Direct(Onward(u, place, found, r.told))
          /\ Fits(Onward(u, place, found, r.told), chat[u])
      BY <2>1, GoesOn DEF Places
    <2> QED
      BY <2>3, <2>4, MovesKeep
  <1>12. CASE Course!Save(u)
    <2>1. CASE ~Course!MayRead(u)
      BY <1>12, <2>1, NoRunIsDirect, RunFields, MovesKeep DEF Course!Save
    <2>2. CASE Course!MayRead(u)
      <3> DEFINE left == [state |-> chat[u].state, test |-> chat[u].test,
                          holds |-> chat[u].holds \/ Course!Repeats(r), free |-> chat[u].free]
                 next == Onward(u, "saved", r.found, r.told)
      <3>1. r.at = "written" /\ Course!Stored(u)
        BY <1>12, <2>2 DEF Course!Save, Course!At
      <3>2. run' = [run EXCEPT ![u] = next]
        <4>1. [r EXCEPT !.at = "saved"] = next
          BY <1>1, RunRecords DEF Onward
        <4>2. run' = [run EXCEPT ![u] = [r EXCEPT !.at = "saved"]]
          BY <3>1 DEF Course!Stored
        <4> QED
          BY <4>1, <4>2
      <3>3. chat' = [chat EXCEPT ![u] = left]
        <4>1. [chat[u] EXCEPT !.holds = chat[u].holds \/ Course!Repeats(r)] = left
          BY <1>1, ChatFields
        <4>2. chat' = [chat EXCEPT ![u] =
                          [chat[u] EXCEPT !.holds = chat[u].holds \/ Course!Repeats(r)]]
          BY <3>1 DEF Course!Stored
        <4> QED
          BY <4>1, <4>2
      <3>4. r.found \in BOOLEAN /\ r.told \in BOOLEAN
        BY <1>1 DEF Runs
      <3>5. next \in Runs /\ Direct(next) /\ Fits(next, chat[u])
        BY <3>1, <3>4, GoesOn DEF Places
      <3>6. left \in Chats /\ left.state = chat[u].state
        BY <1>1, <3>4 DEF Chats, Course!Repeats
      <3>7. Fits(next, left)
        BY <1>1, <3>1, <3>4, <3>5 DEF Fits, Course!Repeats, Onward
      <3>8. UNCHANGED <<role, live, class, lab, members, changes>>
        BY <3>1 DEF Course!Stored, Course!people
      <3> HIDE DEF next, left
      <3> QED
        BY <3>2, <3>3, <3>5, <3>6, <3>7, <3>8, StepKeeps
    <2> QED
      BY <2>1, <2>2
  <1>13. CASE Course!Stop(u)
    BY <1>13, NoRunIsDirect, RunFields, MovesKeep DEF Course!Stop
  <1> QED
    BY <1>4, <1>5, <1>6, <1>7, <1>9, <1>12, <1>13 DEF Course!Answers

\* The rows that teachers and admins change.
ClassRows == [teacher: Course!Users \cup {NoOne}, live: BOOLEAN, exam: BOOLEAN, code: Nat]
LabRows == [made: BOOLEAN, active: BOOLEAN, live: BOOLEAN]

LEMMA RowsKeep ==
    ASSUME CourseInv, UNCHANGED <<role, live, members, chat, run>>,
           class' \in ClassRows, class.teacher # NoOne => class'.teacher # NoOne,
           lab' \in LabRows, lab.made => lab'.made, lab'.made => class'.teacher # NoOne,
           changes' \in 0 .. MaxChanges
    PROVE  CourseInv'
  BY DEF CourseInv, Course!TypeOK, ClassRows, LabRows

LEMMA RowTypes ==
    ASSUME CourseInv
    PROVE  /\ class \in ClassRows /\ lab \in LabRows /\ changes \in 0 .. MaxChanges
           /\ lab.made => class.teacher # NoOne
           /\ MaxChanges \in Nat /\ NoOne \notin Course!Users
           /\ Course!Changed => changes' \in 0 .. MaxChanges
  BY CourseAssumption DEF CourseInv, Course!TypeOK, Course!CourseConstants, Course!Users,
                          Course!Changed, ClassRows, LabRows

\* Deleting the class and switching the lab, whoever does it.
LEMMA DeletedKeeps ==
    ASSUME CourseInv, Course!ClassDeleted
    PROVE  CourseInv'
  <1>1. /\ class' = [class EXCEPT !.live = FALSE] /\ Course!Changed
        /\ UNCHANGED <<role, live, members, chat, run, lab>>
    BY DEF Course!ClassDeleted, Course!people, Course!work
  <1>2. class' \in ClassRows /\ class'.teacher = class.teacher
    BY <1>1, RowTypes DEF ClassRows
  <1> QED
    BY <1>1, <1>2, RowTypes, RowsKeep

LEMMA SwitchedKeeps ==
    ASSUME CourseInv, Course!LabSwitched
    PROVE  CourseInv'
  <1>1. /\ lab' \in {[lab EXCEPT !.active = ~@], [lab EXCEPT !.live = FALSE]} /\ Course!Changed
        /\ UNCHANGED <<role, live, members, chat, run, class>>
    BY DEF Course!LabSwitched, Course!people, Course!work
  <1>2. lab' \in LabRows /\ lab'.made = lab.made
    BY <1>1, RowTypes DEF LabRows
  <1> QED
    BY <1>1, <1>2, RowTypes, RowsKeep

LEMMA TeachingKeeps ==
    ASSUME CourseInv, NEW u \in Course!Users, Course!Teaches(u)
    PROVE  CourseInv'
  <1>1. CASE Course!CreateClass(u)
    <2>1. /\ class' = [class EXCEPT !.teacher = u]
          /\ UNCHANGED <<role, live, members, chat, run, lab, changes>>
      BY <1>1 DEF Course!CreateClass, Course!people, Course!work
    <2>2. class' \in ClassRows /\ class'.teacher # NoOne
      BY <2>1, RowTypes DEF ClassRows
    <2> QED
      BY <2>1, <2>2, RowTypes, RowsKeep
  <1>2. CASE Course!CreateLab(u)
    <2>1. /\ lab' = [lab EXCEPT !.made = TRUE] /\ class.teacher = u
          /\ UNCHANGED <<role, live, members, chat, run, class, changes>>
      BY <1>2 DEF Course!CreateLab, Course!Owns, Course!people, Course!work
    <2>2. lab' \in LabRows /\ lab'.made
      BY <2>1, RowTypes DEF LabRows
    <2> QED
      BY <2>1, <2>2, RowTypes, RowsKeep
  <1>3. CASE Course!SetExamMode(u) \/ Course!ResetInviteCode(u)
    <2>1. /\ class' \in {[class EXCEPT !.exam = ~@], [class EXCEPT !.code = @ + 1]} /\ Course!Changed
          /\ UNCHANGED <<role, live, members, chat, run, lab>>
      BY <1>3 DEF Course!SetExamMode, Course!ResetInviteCode, Course!people, Course!work
    <2>2. class' \in ClassRows /\ class'.teacher = class.teacher
      <3>1. CASE class' = [class EXCEPT !.exam = ~@]
        BY <3>1, RowTypes DEF ClassRows
      <3>2. CASE class' = [class EXCEPT !.code = @ + 1]
        BY <3>2, RowTypes DEF ClassRows
      <3> QED
        BY <2>1, <3>1, <3>2
    <2> QED
      BY <2>1, <2>2, RowTypes, RowsKeep
  <1>4. CASE Course!DeleteClass(u)
    BY <1>4, DeletedKeeps DEF Course!DeleteClass
  <1>5. CASE Course!UpdateLab(u)
    BY <1>5, SwitchedKeeps DEF Course!UpdateLab
  <1>6. ASSUME NEW s \in Course!Users, Course!Unenroll(u, s)
        PROVE  CourseInv'
    BY <1>6, RowTypes DEF Course!Unenroll, Course!people, Course!work, CourseInv, Course!TypeOK
  <1> QED
    BY <1>1, <1>2, <1>3, <1>4, <1>5, <1>6 DEF Course!Teaches

LEMMA AdministeringKeeps ==
    ASSUME CourseInv, NEW u \in Course!Users, Course!Administers(u)
    PROVE  CourseInv'
  <1>1. CASE Course!DeleteUser(u)
    BY <1>1, RowTypes DEF Course!DeleteUser, Course!work, CourseInv, Course!TypeOK
  <1>2. CASE Course!TransferClass(u)
    <2>1. /\ class' = [class EXCEPT !.teacher = u] /\ Course!Changed
          /\ UNCHANGED <<role, live, members, chat, run, lab>>
      BY <1>2 DEF Course!TransferClass, Course!people, Course!work
    <2>2. class' \in ClassRows /\ class'.teacher # NoOne
      BY <2>1, RowTypes DEF ClassRows
    <2> QED
      BY <2>1, <2>2, RowTypes, RowsKeep
  <1>3. ASSUME NEW r \in Course!Roles, Course!SetRole(u, r)
        PROVE  CourseInv'
    BY <1>3, RowTypes DEF Course!SetRole, Course!work, CourseInv, Course!TypeOK
  <1> QED
    BY <1>1, <1>2, <1>3 DEF Course!Administers

LEMMA ForcingKeeps ==
    ASSUME CourseInv, Course!ForceDeleteClass \/ Course!ForceUpdateLab
    PROVE  CourseInv'
  BY DeletedKeeps, SwitchedKeeps DEF Course!ForceDeleteClass, Course!ForceUpdateLab

LEMMA StudyingKeeps ==
    ASSUME CourseInv, NEW u \in Course!Users, Course!Studies(u)
    PROVE  CourseInv'
  <1> USE DEF CourseInv, Course!TypeOK
  <1>0. MaxChanges \in Nat
    BY CourseAssumption DEF Course!CourseConstants
  <1>1. CASE Course!Leave(u)
    BY <1>0, <1>1 DEF Course!Leave, Course!Changed, Course!people, Course!work
  <1>2. ASSUME NEW code \in 0 .. MaxChanges, Course!Join(u, code)
        PROVE  CourseInv'
    BY <1>0, <1>2 DEF Course!Join, Course!people, Course!work
  <1> QED
    BY <1>1, <1>2 DEF Course!Studies

LEMMA ConversingKeeps ==
    ASSUME CourseInv, NEW u \in Askers, Course!Converses(u)
    PROVE  CourseInv'
  <1>0. MaxChanges \in Nat
    BY CourseAssumption DEF Course!CourseConstants
  <1>1. chat \in [Askers -> Chats] /\ run \in [Askers -> Runs]
    BY DEF CourseInv, Course!TypeOK, Chats, Runs, Places
  <1>2. CASE Course!OpenChat(u) \/ Course!OpenTestDrive(u)
    <2>1. PICK test \in BOOLEAN :
              chat' = [chat EXCEPT ![u] = [state |-> "open", test |-> test, holds |-> FALSE,
                                           free |-> FALSE]]
      BY <1>2 DEF Course!OpenChat, Course!OpenTestDrive, Course!NoChat
    <2>2. chat' \in [Askers -> Chats] /\ \A v \in Askers \ {u} : chat'[v] = chat[v]
      BY <1>1, <2>1 DEF Chats
    <2>3. /\ lab.made /\ chat[u].state = "none"
          /\ UNCHANGED <<role, live, class, lab, members, run, changes>>
      BY <1>2 DEF Course!OpenChat, Course!OpenTestDrive, Course!OwnsLab, Course!people
    <2>4. run[u] = Course!NoRun /\ chat'[u].state = "open" /\ ~chat'[u].holds
      BY <1>1, <2>1, <2>3 DEF CourseInv, Fits
    <2>5. \A v \in Askers : Fits(run'[v], chat'[v])
      BY <2>2, <2>3, <2>4, NoRunIsDirect DEF CourseInv, Fits
    <2> QED
      BY <2>2, <2>3, <2>5 DEF CourseInv, Course!TypeOK, Chats
  <1>3. CASE Course!HideOwnChat(u)
    <2>1. chat' = [chat EXCEPT ![u].state = "hidden"] /\ chat[u].state = "open"
      BY <1>3 DEF Course!HideOwnChat
    <2>2. chat' \in [Askers -> Chats]
      BY <1>1, <2>1 DEF Chats
    <2>3. UNCHANGED <<role, live, class, lab, members, run>> /\ changes' \in 0 .. MaxChanges
      BY <1>0, <1>3 DEF Course!HideOwnChat, Course!people, Course!Changed, CourseInv, Course!TypeOK
    <2>4. \A v \in Askers \ {u} : chat'[v] = chat[v]
      BY <1>1, <2>1
    <2>5. chat'[u] = [state |-> "hidden", test |-> chat[u].test, holds |-> chat[u].holds,
                      free |-> chat[u].free]
      BY <1>1, <2>1, ChatFields
    <2>6. Fits(run[u], chat[u])
      BY DEF CourseInv
    <2>7. Fits(run[u], chat'[u])
      BY <2>5, <2>6 DEF Fits
    <2>8. \A v \in Askers : Fits(run'[v], chat'[v])
      BY <2>3, <2>4, <2>7 DEF CourseInv
    <2>9. \A v \in Askers : chat'[v].state # "none" => chat[v].state # "none"
      BY <2>1, <2>4
    <2> QED
      BY <2>2, <2>3, <2>8, <2>9 DEF CourseInv, Course!TypeOK, Chats
  <1>4. CASE Course!HardDelete(u)
    <2>1. /\ chat' = [chat EXCEPT ![u] = Course!NoChat]
          /\ run' = [run EXCEPT ![u] = Course!NoRun]
      BY <1>4 DEF Course!HardDelete
    <2>2. chat' \in [Askers -> Chats] /\ \A v \in Askers : chat'[v].state # "none" => chat'[v] = chat[v]
      BY <1>1, <2>1 DEF Chats, Course!NoChat
    <2>3. run' \in [Askers -> Runs] /\ \A v \in Askers : Direct(run'[v])
      BY <1>1, <2>1, NoRunIsDirect DEF CourseInv
    <2>4. UNCHANGED <<role, live, class, lab, members>> /\ changes' \in 0 .. MaxChanges
      BY <1>0, <1>4 DEF Course!HardDelete, Course!people, Course!Changed, CourseInv, Course!TypeOK
    <2>5. \A v \in Askers : Fits(run'[v], chat'[v])
      <3>1. Fits(run'[u], chat'[u])
        BY <1>1, <2>1, NoRunIsDirect DEF Fits, Course!NoChat
      <3>2. \A v \in Askers \ {u} : run'[v] = run[v] /\ chat'[v] = chat[v]
        BY <1>1, <2>1
      <3> QED
        BY <3>1, <3>2 DEF CourseInv
    <2> QED
      BY <2>2, <2>3, <2>4, <2>5 DEF CourseInv, Course!TypeOK, Chats, Runs, Places
  <1> QED
    BY <1>2, <1>3, <1>4 DEF Course!Converses

LEMMA CourseStep ==
    ASSUME CourseInv, Course!Next
    PROVE  CourseInv'
  BY ForcingKeeps, TeachingKeeps, AdministeringKeeps, StudyingKeeps, ConversingKeeps, AnswersKeep
     DEF Course!Next

\* What one step of an answer may add to it.
ByRight(u, next) ==
    /\ Course!Repeats(next) /\ ~Course!Repeats(run[u]) => Course!MayRead(u)
    /\ run[u].at # "saved" /\ next.at = "saved" => Course!MayRead(u)

LEMMA AnswersByRight ==
    ASSUME CourseInv, NEW u \in Askers, Course!Answers(u)
    PROVE  /\ ByRight(u, run'[u])
           /\ \A v \in Askers \ {u} : run'[v] = run[v]
           /\ \A v \in Askers : chat'[v].state = chat[v].state
  <1> DEFINE r == run[u]
             Kept == /\ ByRight(u, run'[u])
                     /\ \A v \in Askers \ {u} : run'[v] = run[v]
                     /\ \A v \in Askers : chat'[v].state = chat[v].state
  <1>1. run \in [Askers -> Runs] /\ chat \in [Askers -> Chats] /\ r \in Runs
    BY DEF CourseInv, Course!TypeOK, Runs, Places, Chats
  <1>2. ASSUME NEW next, Course!Moves(u, next), ByRight(u, next)
        PROVE  Kept
    BY <1>1, <1>2 DEF Course!Moves
  <1>3. ByRight(u, Course!NoRun)
    BY NoRunIsDirect DEF ByRight, Course!Repeats
  <1>4. \A place \in Places \ {"saved"} : ByRight(u, Course!To(u, place))
    BY <1>1 DEF Course!To, Runs, ByRight, Course!Repeats
  <1>5. Course!MayRead(u) => \A next : ByRight(u, next)
    BY DEF ByRight
  <1>6. CASE Course!Ask(u)
    <2>1. ByRight(u, [Course!NoRun EXCEPT !.at = "gated"])
      BY DEF Course!NoRun, Course!Repeats, ByRight
    <2> QED
      BY <1>2, <1>6, <2>1 DEF Course!Ask
  <1>7. ASSUME NEW mode \in {"direct", "research"}, Course!ChooseMode(u, mode)
        PROVE  Kept
    <2>1. ~run'[u].found /\ ~run'[u].told /\ run'[u].at = "chosen"
      BY <1>1, <1>7 DEF Course!ChooseMode
    <2>2. ByRight(u, run'[u])
      BY <2>1 DEF ByRight, Course!Repeats
    <2>3. \A v \in Askers \ {u} : run'[v] = run[v]
      BY <1>1, <1>7 DEF Course!ChooseMode
    <2>4. \A v \in Askers : chat'[v].state = chat[v].state
      BY <1>1, <1>7 DEF Course!ChooseMode, Chats
    <2> QED
      BY <2>2, <2>3, <2>4
  <1>8. CASE Course!TakeScope(u) \/ (Course!Save(u) /\ ~Course!MayRead(u))
    <2>1. CASE ~Course!MayRead(u)
      BY <1>2, <1>3, <1>8, <2>1 DEF Course!TakeScope, Course!Save
    <2>2. CASE Course!MayRead(u)
      BY <1>2, <1>5, <1>8, <2>2 DEF Course!TakeScope
    <2> QED
      BY <2>1, <2>2
  <1>9. CASE Course!Search(u) \/ Course!ViewImage(u) \/ Course!Embedded(u)
    <2>1. PICK place \in Places \ {"saved"} : Course!Moves(u, Course!To(u, place))
      BY <1>9 DEF Course!Search, Course!ViewImage, Course!Embedded, Places
    <2> QED
      BY <1>2, <1>4, <2>1
  <1>10. CASE Course!Ranked(u) \/ Course!Viewed(u)
    <2> DEFINE next == [Course!To(u, "working") EXCEPT !.found = @ \/ Course!MayRead(u)]
    <2>1. Course!Moves(u, next)
      BY <1>10 DEF Course!Ranked, Course!Viewed
    <2>2. /\ next.at = "working" /\ next.told = r.told
          /\ next.found = (r.found \/ Course!MayRead(u))
      BY <1>1, RunRecords DEF Course!To
    <2>3. ByRight(u, next)
      BY <2>2 DEF ByRight, Course!Repeats
    <2> HIDE DEF next
    <2> QED
      BY <1>2, <2>1, <2>3
  <1>11. CASE Course!ReadPages(u)
    BY <1>2, <1>5, <1>11 DEF Course!ReadPages
  <1>12. CASE Course!Write(u)
    <2> DEFINE next == [Course!To(u, "written") EXCEPT !.found = @ /\ Course!MayRead(u)]
    <2>1. Course!Moves(u, next)
      BY <1>12 DEF Course!Write
    <2>2. /\ next.at = "written" /\ next.told = r.told
          /\ next.found = (r.found /\ Course!MayRead(u))
      BY <1>1, RunRecords DEF Course!To
    <2>3. ByRight(u, next)
      BY <2>2 DEF ByRight, Course!Repeats
    <2> HIDE DEF next
    <2> QED
      BY <1>2, <2>1, <2>3
  <1>13. CASE Course!Save(u) /\ Course!MayRead(u)
    <2>1. Course!Stored(u)
      BY <1>13 DEF Course!Save
    <2>2. \A v \in Askers \ {u} : run'[v] = run[v]
      BY <1>1, <2>1 DEF Course!Stored
    <2>3. \A v \in Askers : chat'[v].state = chat[v].state
      BY <1>1, <2>1 DEF Course!Stored, Chats
    <2>4. ByRight(u, run'[u])
      BY <1>5, <1>13
    <2> QED
      BY <2>2, <2>3, <2>4
  <1>14. CASE Course!Stop(u)
    BY <1>2, <1>3, <1>14 DEF Course!Stop
  <1> QED
    BY <1>6, <1>7, <1>8, <1>9, <1>10, <1>11, <1>12, <1>13, <1>14 DEF Course!Answers

\* All other steps but an admin's deletion leave runs alone, and no other step ends
\* a conversation.
LEMMA OthersLeaveRuns ==
    ASSUME CourseInv, Course!Next, \A u \in Askers : ~Course!Answers(u)
    PROVE  /\ \A v \in Askers : run'[v] = run[v] \/ run'[v] = Course!NoRun
           /\ \A v \in Askers : chat[v].state # "none" =>
                  chat'[v].state # "none" \/ Course!HardDelete(v)
  <1>1. chat \in [Askers -> Chats] /\ run \in [Askers -> Runs]
    BY DEF CourseInv, Course!TypeOK, Chats, Runs, Places
  <1>2. ASSUME NEW u \in Askers, Course!Converses(u)
        PROVE  /\ \A v \in Askers : run'[v] = run[v] \/ run'[v] = Course!NoRun
               /\ \A v \in Askers : chat[v].state # "none" =>
                      chat'[v].state # "none" \/ Course!HardDelete(v)
    <2>1. CASE Course!OpenChat(u) \/ Course!OpenTestDrive(u)
      BY <1>1, <2>1 DEF Course!OpenChat, Course!OpenTestDrive, Chats
    <2>2. CASE Course!HideOwnChat(u)
      BY <1>1, <2>2 DEF Course!HideOwnChat, Chats
    <2>3. CASE Course!HardDelete(u)
      <3>1. \A v \in Askers \ {u} : chat'[v] = chat[v]
        BY <1>1, <2>3 DEF Course!HardDelete
      <3>2. \A v \in Askers : run'[v] = run[v] \/ run'[v] = Course!NoRun
        BY <1>1, <2>3 DEF Course!HardDelete
      <3> QED
        BY <2>3, <3>1, <3>2
    <2> QED
      BY <1>2, <2>1, <2>2, <2>3 DEF Course!Converses
  <1>3. ASSUME NEW u \in Course!Users, Course!Teaches(u) \/ Course!Administers(u) \/ Course!Studies(u)
        PROVE  UNCHANGED <<chat, run>>
    BY <1>3 DEF Course!Teaches, Course!Administers, Course!Studies, Course!CreateClass,
       Course!CreateLab, Course!SetExamMode, Course!ResetInviteCode, Course!DeleteClass,
       Course!ClassDeleted, Course!UpdateLab, Course!LabSwitched, Course!Unenroll,
       Course!DeleteUser, Course!TransferClass, Course!SetRole, Course!Leave, Course!Join,
       Course!work
  <1>4. CASE Course!ForceDeleteClass \/ Course!ForceUpdateLab
    BY <1>4 DEF Course!ForceDeleteClass, Course!ForceUpdateLab, Course!ClassDeleted,
       Course!LabSwitched, Course!work
  <1> QED
    BY <1>2, <1>3, <1>4 DEF Course!Next

LEMMA CourseKeepsItsWord ==
    ASSUME CourseInv, Course!Next
    PROVE  Course!FindsByRight /\ Course!StoresByRight /\ Course!AuditKeeps
  <1>1. ~Course!Repeats(Course!NoRun) /\ Course!NoRun.at = "idle"
    BY NoRunIsDirect DEF Course!Repeats
  <1>2. Course!FindsByRight /\ Course!StoresByRight
    BY <1>1, AnswersByRight, OthersLeaveRuns DEF ByRight, Course!FindsByRight, Course!StoresByRight
  <1>3. \A v \in Askers : chat[v].state # "none" =>
            chat'[v].state # "none" \/ Course!HardDelete(v)
    BY AnswersByRight, OthersLeaveRuns
  <1>4. Course!AuditKeeps
    BY <1>3 DEF Course!AuditKeeps, Course!AuditedChats
  <1> QED
    BY <1>2, <1>4

\* The machine of the class moves by its own steps or not at all.
LEMMA CourseMovesAlone ==
    ASSUME [Next]_vars
    PROVE  \/ part = "course" /\ Course!Next
           \/ UNCHANGED courseVars
  BY DEF Next, CourseMoves, RulesMove, AccountsMove, HistoryMoves, LoopMoves, SearchMoves, vars

LEMMA CourseAlways == Spec => []CourseInv
  <1>1. Init => CourseInv
    BY CourseInit DEF Init
  <1>2. CourseInv /\ [Next]_vars => CourseInv'
    <2>1. ASSUME CourseInv, UNCHANGED courseVars  PROVE CourseInv'
      BY <2>1 DEF courseVars, CourseInv, Course!TypeOK
    <2> QED
      BY <2>1, CourseMovesAlone, CourseStep
  <1> QED
    BY <1>1, <1>2, PTL DEF Spec

\* Of any students, teachers, changes of rights and questions: an answer taken in exam
\* mode repeats of the course only what its conversation holds already, and a
\* conversation holds some only after a question that was taken while the class was not
\* in exam mode, whenever the mode was switched.
THEOREM ExamsAddNothing == Spec => []ExamAnswersAddNothing
  <1>1. CourseInv => ExamAnswersAddNothing
    BY DEF CourseInv, Direct, Fits, Course!Repeats, ExamAnswersAddNothing,
           Course!ExamAnswersAddNothing
  <1> QED
    BY <1>1, CourseAlways, PTL

\* Of any students, teachers, changes of rights and questions: whoever loses access
\* while a model works gets nothing more and nothing is stored, and what leaves
\* the teacher's history was deleted by an admin.
THEOREM AccessIsKept == Spec => AnswersNeedAccess
  <1>1. CourseInv /\ [Next]_vars =>
            [part = "course" => Course!FindsByRight /\ Course!StoresByRight
                                /\ Course!AuditKeeps]_courseVars
    BY CourseMovesAlone, CourseKeepsItsWord
  <1> QED
    BY <1>1, CourseAlways, PTL DEF Spec, AnswersNeedAccess

-----------------------------------------------------------------------------
(* The rules of teachers *)

RuleRow == [text: RuleTexts, active: BOOLEAN]
RuleRows == {<<>>} \cup {<<r>> : r \in RuleRow}
SaveRow == [at: {"found"}, by: RuleTeachers, target: Rules!Targets, text: RuleTexts, active: BOOLEAN,
            row: RuleRows, owners: SUBSET RuleTeachers]
SavedRow == [by: RuleTeachers, owners: SUBSET RuleTeachers, text: RuleTexts]

RuleTypes ==
    /\ rules \in [Rules!Targets -> RuleRows]
    /\ presets \in [Presets -> {Rules!NoPreset} \cup [owner: RuleTeachers, text: RuleTexts]]
    /\ enrolled \subseteq Pupils \X Classes /\ owner \in [Classes -> RuleTeachers]
    /\ save \in [Requests -> {Rules!Idle} \cup SaveRow]
    /\ saved \in [Rules!Targets -> SUBSET SavedRow]

\* A save under way was asked for by one whose target it was, and the row it found
\* is still there: rules are changed, never deleted.
SaveIsOpen(r) == r.at = "found" => /\ r.by \in r.owners
                                   /\ r.row # <<>> => rules[r.target] # <<>>

\* A text that stands for x was saved for x, and by one of those who owned it.
Stands(x) ==
    /\ \A z \in saved[x] : z.by \in z.owners
    /\ rules[x] # <<>> => \E z \in saved[x] : z.text = rules[x][1].text

RulesInv ==
    /\ RuleTypes
    /\ \A q \in Requests : SaveIsOpen(save[q])
    /\ \A x \in Rules!Targets : Stands(x)

LEMMA RowsOfRules ==
    /\ \A r \in RuleRow : <<r>> \in RuleRows /\ <<r>> # <<>> /\ Append(<<>>, r) = <<r>>
    /\ \A s \in RuleRows : /\ Len(s) <= 1 /\ s \in Seq(RuleRow)
                           /\ s # <<>> => s[1] \in RuleRow /\ DOMAIN s = {1} /\ s = <<s[1]>>
  <1>1. \A r \in RuleRow : <<r>> \in RuleRows /\ <<r>> # <<>> /\ Append(<<>>, r) = <<r>>
    BY DEF RuleRows
  <1>2. ASSUME NEW s \in RuleRows
        PROVE  /\ Len(s) <= 1 /\ s \in Seq(RuleRow)
               /\ s # <<>> => s[1] \in RuleRow /\ DOMAIN s = {1} /\ s = <<s[1]>>
    <2>1. CASE s = <<>>
      BY <2>1
    <2>2. CASE \E r \in RuleRow : s = <<r>>
      <3>1. PICK r \in RuleRow : s = <<r>>
        BY <2>2
      <3>2. Len(s) = 1 /\ s[1] = r /\ s \in Seq(RuleRow) /\ DOMAIN s = {1}
        BY <3>1
      <3> QED
        BY <3>1, <3>2
    <2> QED
      BY <2>1, <2>2 DEF RuleRows
  <1> QED
    BY <1>1, <1>2

LEMMA RulesInit == Rules!Init => RulesInv
  <1> SUFFICES ASSUME Rules!Init PROVE RulesInv
    OBVIOUS
  <1>1. owner \in [Classes -> RuleTeachers] /\ enrolled \subseteq Pupils \X Classes
    BY RulesAssumption DEF Rules!Init, Rules!RuleConstants
  <1>2. /\ rules \in [Rules!Targets -> RuleRows]
        /\ presets \in [Presets -> {Rules!NoPreset} \cup [owner: RuleTeachers, text: RuleTexts]]
        /\ save \in [Requests -> {Rules!Idle} \cup SaveRow]
        /\ saved \in [Rules!Targets -> SUBSET SavedRow]
    BY DEF Rules!Init, RuleRows, Rules!NoRow
  <1>3. \A q \in Requests : SaveIsOpen(save[q])
    BY DEF Rules!Init, SaveIsOpen, Rules!Idle
  <1>4. \A x \in Rules!Targets : Stands(x)
    BY DEF Rules!Init, Stands, Rules!NoRow
  <1> QED
    BY <1>1, <1>2, <1>3, <1>4 DEF RulesInv, RuleTypes

\* A save begins with the row that stands.
LEMMA BeginKeeps ==
    ASSUME RulesInv, NEW q \in Requests, NEW t \in RuleTeachers, NEW x \in Rules!Targets,
           NEW text \in RuleTexts, NEW active \in BOOLEAN,
           Rules!Owns(t, x), Rules!Begin(q, t, x, text, active)
    PROVE  RulesInv' /\ Rules!OffUntilAsked
  <1> DEFINE r == [at |-> "found", by |-> t, target |-> x, text |-> text, active |-> active,
                   row |-> rules[x], owners |-> Rules!Owners(x)]
  <1>1. save' = [save EXCEPT ![q] = r] /\ UNCHANGED <<rules, presets, enrolled, owner, saved>>
    BY DEF Rules!Begin
  <1>0. t \in Rules!Owners(x) /\ Rules!Owners(x) \subseteq RuleTeachers
    BY DEF Rules!Owners
  <1>2. r \in SaveRow /\ r.by \in r.owners /\ r.row = rules[x] /\ r.target = x
    <2>1. rules[x] \in RuleRows
      BY DEF RulesInv, RuleTypes
    <2> QED
      BY <1>0, <2>1 DEF SaveRow
  <1>3. RuleTypes'
    BY <1>1, <1>2 DEF RulesInv, RuleTypes
  <1>4. \A p \in Requests : SaveIsOpen(save[p])'
    <2> SUFFICES ASSUME NEW p \in Requests PROVE SaveIsOpen(save[p])'
      OBVIOUS
    <2>1. CASE p = q
      <3>1. save'[q] = r
        BY <1>1 DEF RulesInv, RuleTypes
      <3> QED
        BY <1>1, <1>2, <2>1, <3>1 DEF SaveIsOpen
    <2>2. CASE p # q
      <3>1. save'[p] = save[p]
        BY <1>1, <2>2 DEF RulesInv, RuleTypes
      <3> QED
        BY <1>1, <3>1 DEF RulesInv, SaveIsOpen
    <2> QED
      BY <2>1, <2>2
  <1>5. \A y \in Rules!Targets : Stands(y)'
    BY <1>1 DEF RulesInv, Stands
  <1> QED
    BY <1>1, <1>3, <1>4, <1>5 DEF RulesInv, Rules!OffUntilAsked

\* What a save writes: the row of its target has the text that it brings, or
\* keeps the one that stands; it is active only when the save asks for it, or was before.
LEMMA RowIsWritten ==
    ASSUME RulesInv, NEW q \in Requests, save[q].at = "found", ~Rules!Taken(save[q])
    PROVE  LET r == save[q]
               w == Rules!Written(r)
           IN /\ w \in RuleRows /\ w # <<>>
              /\ w[1].text = r.text \/ (rules[r.target] # <<>> /\ w[1].text = rules[r.target][1].text)
              /\ rules[r.target] # <<>> /\ ~rules[r.target][1].active /\ w[1].active
                   => r.active /\ r.row # <<>> /\ ~r.row[1].active
  <1> DEFINE r == save[q]
             w == Rules!Written(r)
             old == rules[r.target]
  <1>1. r \in SaveRow /\ SaveIsOpen(r)
    BY DEF RulesInv, RuleTypes, Rules!Idle
  <1>2. old \in RuleRows /\ r.row \in RuleRows /\ r.text \in RuleTexts /\ r.active \in BOOLEAN
    BY <1>1 DEF SaveRow, RulesInv, RuleTypes
  <1>3. ASSUME r.row = <<>>
        PROVE  w \in RuleRows /\ w # <<>> /\ old = <<>> /\ w[1].text = r.text
    <2> DEFINE new == [text |-> r.text, active |-> r.active]
    <2>1. old = <<>>
      BY <1>3 DEF Rules!Taken, Rules!NoRow
    <2>2. w = Append(<<>>, new)
      BY <1>3, <2>1 DEF Rules!Written, Rules!NoRow
    <2>3. new \in RuleRow
      BY <1>2 DEF RuleRow
    <2>4. new.text = r.text
      OBVIOUS
    <2> HIDE DEF w, new, r, old
    <2>5. w \in RuleRows /\ w # <<>> /\ w[1] = new
      BY <2>2, <2>3, RowsOfRules
    <2> QED
      BY <2>1, <2>4, <2>5
  <1>4. ASSUME r.row # <<>>
        PROVE  /\ w \in RuleRows /\ w # <<>> /\ old # <<>>
               /\ w[1].text = r.text \/ w[1].text = old[1].text
               /\ ~old[1].active /\ w[1].active => r.active /\ ~r.row[1].active
    <2>1. old # <<>> /\ old[1] \in RuleRow /\ r.row[1] \in RuleRow
      BY <1>1, <1>2, <1>4, RowsOfRules DEF SaveIsOpen
    <2> DEFINE new == [text |-> IF r.text = r.row[1].text THEN old[1].text ELSE r.text,
                       active |-> IF r.active = r.row[1].active THEN old[1].active ELSE r.active]
    <2>2. w = <<new>>
      BY <1>4 DEF Rules!Written, Rules!NoRow
    <2>3. new \in RuleRow
      BY <1>2, <2>1 DEF RuleRow
    <2>4. ~old[1].active /\ new.active => r.active /\ ~r.row[1].active
      BY <1>2, <2>1 DEF RuleRow
    <2>5. new.text = r.text \/ new.text = old[1].text
      OBVIOUS
    <2> HIDE DEF w, new, r, old
    <2>6. w \in RuleRows /\ w # <<>> /\ w[1] = new
      BY <2>2, <2>3, RowsOfRules
    <2> QED
      BY <1>4, <2>1, <2>4, <2>5, <2>6
  <1> HIDE DEF w, r, old
  <1>5. /\ w \in RuleRows /\ w # <<>>
        /\ w[1].text = r.text \/ (old # <<>> /\ w[1].text = old[1].text)
        /\ old # <<>> /\ ~old[1].active /\ w[1].active => r.active /\ r.row # <<>> /\ ~r.row[1].active
    BY <1>3, <1>4
  <1> QED
    BY <1>5 DEF w, r, old

LEMMA EndSaveKeeps ==
    ASSUME RulesInv, NEW q \in Requests, Rules!EndSave(q)
    PROVE  RulesInv' /\ Rules!OffUntilAsked
  <1> DEFINE r == save[q]
             w == Rules!Written(r)
  <1>1. /\ r.at = "found" /\ save' = [save EXCEPT ![q] = Rules!Idle]
        /\ UNCHANGED <<presets, enrolled, owner>>
    BY DEF Rules!EndSave
  <1>2. r \in SaveRow /\ SaveIsOpen(r) /\ r.target \in Rules!Targets
    BY <1>1 DEF RulesInv, RuleTypes, Rules!Idle, SaveRow
  <1>3. /\ save'[q] = Rules!Idle /\ save' \in [Requests -> {Rules!Idle} \cup SaveRow]
        /\ \A p \in Requests \ {q} : save'[p] = save[p]
    BY <1>1 DEF RulesInv, RuleTypes
  <1>4. CASE UNCHANGED <<rules, saved>>
    <2>1. \A p \in Requests : SaveIsOpen(save[p])'
      BY <1>3, <1>4 DEF RulesInv, SaveIsOpen, Rules!Idle
    <2> QED
      BY <1>1, <1>3, <1>4, <2>1 DEF RulesInv, RuleTypes, Stands, Rules!OffUntilAsked
  <1>5. CASE /\ ~Rules!Taken(r) /\ rules' = [rules EXCEPT ![r.target] = w]
             /\ saved' = [saved EXCEPT ![r.target] = @ \cup {[by |-> r.by, owners |-> r.owners, text |-> r.text]}]
    <2> DEFINE z == [by |-> r.by, owners |-> r.owners, text |-> r.text]
    <2>1. /\ w \in RuleRows /\ w # <<>>
          /\ w[1].text = r.text \/ (rules[r.target] # <<>> /\ w[1].text = rules[r.target][1].text)
          /\ rules[r.target] # <<>> /\ ~rules[r.target][1].active /\ w[1].active
               => r.active /\ r.row # <<>> /\ ~r.row[1].active
      BY <1>1, <1>5, RowIsWritten
    <2>2. z \in SavedRow /\ z.text = r.text /\ z.by \in z.owners
      BY <1>1, <1>2 DEF SaveRow, SavedRow, SaveIsOpen
    <2> HIDE DEF w, z
    <2>3. /\ rules' \in [Rules!Targets -> RuleRows] /\ rules'[r.target] = w
          /\ \A x \in Rules!Targets \ {r.target} : rules'[x] = rules[x]
      BY <1>2, <1>5, <2>1 DEF RulesInv, RuleTypes
    <2>4. /\ saved' \in [Rules!Targets -> SUBSET SavedRow]
          /\ saved'[r.target] = saved[r.target] \cup {z}
          /\ \A x \in Rules!Targets \ {r.target} : saved'[x] = saved[x]
      BY <1>2, <1>5, <2>2 DEF RulesInv, RuleTypes, z
    <2>5. RuleTypes'
      BY <1>1, <1>3, <2>3, <2>4 DEF RulesInv, RuleTypes
    <2>6. \A p \in Requests : SaveIsOpen(save[p])'
      <3> SUFFICES ASSUME NEW p \in Requests PROVE SaveIsOpen(save[p])'
        OBVIOUS
      <3>1. CASE p = q
        BY <1>3, <3>1 DEF SaveIsOpen, Rules!Idle
      <3>2. CASE p # q
        <4>1. save'[p] = save[p] /\ SaveIsOpen(save[p])
          BY <1>3, <3>2 DEF RulesInv
        <4>2. save[p].at = "found" => save[p].target \in Rules!Targets
          BY DEF RulesInv, RuleTypes, Rules!Idle, SaveRow
        <4> QED
          BY <2>1, <2>3, <4>1, <4>2 DEF SaveIsOpen
      <3> QED
        BY <3>1, <3>2
    <2>7. \A x \in Rules!Targets : Stands(x)'
      <3> SUFFICES ASSUME NEW x \in Rules!Targets PROVE Stands(x)'
        OBVIOUS
      <3>1. CASE x = r.target
        <4>1. \A y \in saved[x] \cup {z} : y.by \in y.owners
          BY <2>2, <3>1 DEF RulesInv, Stands
        <4>2. \E y \in saved[x] \cup {z} : y.text = w[1].text
          BY <2>1, <2>2, <3>1 DEF RulesInv, Stands
        <4> QED
          BY <2>3, <2>4, <3>1, <4>1, <4>2 DEF Stands
      <3>2. CASE x # r.target
        BY <2>3, <2>4, <3>2 DEF RulesInv, Stands
      <3> QED
        BY <3>1, <3>2
    <2>8. Rules!OffUntilAsked
      <3> SUFFICES ASSUME NEW x \in Rules!Targets, rules[x] # <<>>, ~rules[x][1].active,
                          rules'[x] # <<>>, rules'[x][1].active
                   PROVE  /\ save[q].at = "found" /\ save'[q].at = "idle" /\ save[q].target = x
                          /\ save[q].active /\ save[q].row # <<>> /\ ~save[q].row[1].active
        BY DEF Rules!OffUntilAsked, Rules!NoRow
      <3>1. x = r.target
        BY <2>3
      <3> QED
        BY <1>1, <1>3, <2>1, <2>3, <3>1 DEF Rules!Idle
    <2> QED
      BY <2>5, <2>6, <2>7, <2>8 DEF RulesInv
  <1> QED
    BY <1>4, <1>5 DEF Rules!EndSave

\* Presets, enrolments and transfers leave the rules alone.
LEMMA LibraryKeeps ==
    ASSUME RulesInv, UNCHANGED <<rules, save, saved>>, enrolled' \subseteq Pupils \X Classes,
           owner' \in [Classes -> RuleTeachers],
           presets' \in [Presets -> {Rules!NoPreset} \cup [owner: RuleTeachers, text: RuleTexts]]
    PROVE  RulesInv' /\ Rules!OffUntilAsked
  BY DEF RulesInv, RuleTypes, SaveIsOpen, Stands, Rules!OffUntilAsked

LEMMA PresetsKeep ==
    ASSUME RulesInv, NEW t \in RuleTeachers, NEW p \in Presets,
           \/ Rules!DeletePreset(t, p)
           \/ \E text \in RuleTexts : Rules!CreatePreset(t, p, text) \/ Rules!UpdatePreset(t, p, text)
    PROVE  RulesInv' /\ Rules!OffUntilAsked
  <1> DEFINE Kind == {Rules!NoPreset} \cup [owner: RuleTeachers, text: RuleTexts]
  <1>0. /\ presets \in [Presets -> Kind] /\ enrolled \subseteq Pupils \X Classes
        /\ "none" \notin RuleTeachers /\ owner \in [Classes -> RuleTeachers]
    BY RulesAssumption DEF RulesInv, RuleTypes, Rules!RuleConstants
  <1>1. CASE Rules!DeletePreset(t, p)
    <2>1. presets' = [presets EXCEPT ![p] = Rules!NoPreset] /\ Rules!Kept
      BY <1>1 DEF Rules!DeletePreset
    <2> QED
      BY <1>0, <2>1, LibraryKeeps DEF Rules!Kept
  <1>2. ASSUME NEW text \in RuleTexts, Rules!CreatePreset(t, p, text)
        PROVE  RulesInv' /\ Rules!OffUntilAsked
    <2>1. presets' = [presets EXCEPT ![p] = [owner |-> t, text |-> text]] /\ Rules!Kept
      BY <1>2 DEF Rules!CreatePreset
    <2> QED
      BY <1>0, <2>1, LibraryKeeps DEF Rules!Kept
  <1>3. ASSUME NEW text \in RuleTexts, Rules!UpdatePreset(t, p, text)
        PROVE  RulesInv' /\ Rules!OffUntilAsked
    <2>1. presets' = [presets EXCEPT ![p].text = text] /\ Rules!Kept /\ presets[p].owner = t
      BY <1>3 DEF Rules!UpdatePreset, Rules!Owned
    <2>2. presets[p] \in [owner: RuleTeachers, text: RuleTexts]
      BY <1>0, <2>1 DEF Rules!NoPreset
    <2>3. presets' \in [Presets -> Kind]
      BY <1>0, <2>1, <2>2
    <2> QED
      BY <1>0, <2>1, <2>3, LibraryKeeps DEF Rules!Kept
  <1> QED
    BY <1>1, <1>2, <1>3

LEMMA RulesStep ==
    ASSUME RulesInv, Rules!Next
    PROVE  RulesInv' /\ Rules!OffUntilAsked
  <1>1. ASSUME NEW q \in Requests, NEW t \in RuleTeachers, NEW x \in Rules!Targets,
               NEW text \in RuleTexts, NEW active \in BOOLEAN, Rules!SaveRule(q, t, x, text, active)
        PROVE  RulesInv' /\ Rules!OffUntilAsked
    BY <1>1, BeginKeeps DEF Rules!SaveRule
  <1>2. ASSUME NEW q \in Requests, NEW t \in RuleTeachers, NEW c \in Classes, NEW p \in Presets,
               Rules!ApplyPreset(q, t, c, p)
        PROVE  RulesInv' /\ Rules!OffUntilAsked
    <2>1. Rules!Owns(t, c) /\ presets[p].owner = t /\ Rules!Begin(q, t, c, presets[p].text, TRUE)
      BY <1>2 DEF Rules!ApplyPreset, Rules!Owned
    <2>2. presets[p].text \in RuleTexts
      BY <2>1, RulesAssumption DEF RulesInv, RuleTypes, Rules!NoPreset, Rules!RuleConstants
    <2>3. c \in Rules!Targets
      BY DEF Rules!Targets
    <2> QED
      BY <2>1, <2>2, <2>3, BeginKeeps
  <1>3. ASSUME NEW s \in Pupils, NEW c \in Classes, Rules!Enroll(s, c)
        PROVE  RulesInv' /\ Rules!OffUntilAsked
    BY <1>3, LibraryKeeps DEF Rules!Enroll, RulesInv, RuleTypes
  <1>4. ASSUME NEW c \in Classes, NEW t \in RuleTeachers, Rules!TransferClass(c, t)
        PROVE  RulesInv' /\ Rules!OffUntilAsked
    <2>1. owner' \in [Classes -> RuleTeachers]
      BY <1>4 DEF Rules!TransferClass, RulesInv, RuleTypes
    <2> QED
      BY <1>4, <2>1, LibraryKeeps DEF Rules!TransferClass, RulesInv, RuleTypes
  <1> QED
    BY <1>1, <1>2, <1>3, <1>4, EndSaveKeeps, PresetsKeep DEF Rules!Next

LEMMA RulesAlways == Spec => []RulesInv
  <1>1. Init => RulesInv
    BY RulesInit DEF Init
  <1>2. RulesInv /\ [Next]_vars => RulesInv'
    <2>1. ASSUME [Next]_vars
          PROVE  \/ Rules!Next
                 \/ UNCHANGED ruleVars
      BY <2>1 DEF Next, CourseMoves, RulesMove, AccountsMove, HistoryMoves, LoopMoves, SearchMoves, vars
    <2>2. ASSUME RulesInv, UNCHANGED ruleVars PROVE RulesInv'
      BY <2>2, LibraryKeeps DEF ruleVars, RulesInv, RuleTypes
    <2> QED
      BY <2>1, <2>2, RulesStep
  <1> QED
    BY <1>1, <1>2, PTL DEF Spec

\* Of any classes, teachers and saves at one time: a target has at most one rule, and
\* the text in a prompt is one that was saved for this target by somebody whose it was
\* when the save was asked for, however many saves find no row, or an old one, and
\* whoever gets the class meanwhile.
THEOREM RulesAreKept == Spec => []RulesAreTheirTeachers
  <1>1. ASSUME RulesInv PROVE RulesAreTheirTeachers
    <2>1. \A x \in Rules!Targets : rules[x] \in RuleRows
      BY <1>1 DEF RulesInv, RuleTypes
    <2>2. Rules!TypeOK
      <3>1. \A x \in Rules!Targets : rules[x] \in Seq(RuleRow)
        BY <2>1, RowsOfRules
      <3>2. presets \in [Presets -> [owner: RuleTeachers \cup {"none"}, text: RuleTexts \cup {"none"}]]
        BY <1>1 DEF RulesInv, RuleTypes, Rules!NoPreset
      <3>3. \A q \in Requests : save[q].at \in {"idle", "found"}
        BY <1>1 DEF RulesInv, RuleTypes, Rules!Idle, SaveRow
      <3>4. enrolled \subseteq Pupils \X Classes /\ owner \in [Classes -> RuleTeachers]
        BY <1>1 DEF RulesInv, RuleTypes
      <3> QED
        BY <3>1, <3>2, <3>3, <3>4 DEF Rules!TypeOK, RuleRow
    <2>3. Rules!OneRuleOfATarget
      BY <2>1, RowsOfRules DEF Rules!OneRuleOfATarget
    <2>4. Rules!TextsWereSavedHere
      <3> SUFFICES ASSUME NEW x \in Rules!Targets, NEW i \in DOMAIN rules[x]
                   PROVE  \E z \in saved[x] : z.text = rules[x][i].text /\ z.by \in z.owners
        BY DEF Rules!TextsWereSavedHere, Rules!ActiveTexts
      <3>1. rules[x] # <<>> /\ i = 1
        BY <2>1, RowsOfRules
      <3> QED
        BY <1>1, <3>1 DEF RulesInv, Stands
    <2> QED
      BY <2>2, <2>3, <2>4 DEF RulesAreTheirTeachers
  <1> QED
    BY <1>1, RulesAlways, PTL

-----------------------------------------------------------------------------
(* Accounts *)

UserRow == [name: Names, password: Passwords, role: AccountRoles, quota: Quotas, deleted: BOOLEAN]
Stand == [role: AccountRoles, quota: Quotas, deleted: BOOLEAN]

\* A name in a table u of users.
Has(u, n) == \E i \in DOMAIN u : u[i].name = n

\* What a file that is read is made of: rows that were free, and rows of users.
ImportOf(r, u) ==
    /\ r.file \in Files /\ r.create \subseteq DOMAIN r.file /\ r.update \subseteq DOMAIN r.file
    /\ r.create \cup r.update = Accounts!Accepted(r.file)
    /\ \A k \in r.update : Has(u, r.file[k].name)

RequestOk(r, u) ==
    \/ r = Accounts!Idle
    \/ r.op \in {"signup", "create"} /\ r.row \in UserRow /\ r # Accounts!Idle
    \/ r.op = "login" /\ r.id \in DOMAIN u /\ r # Accounts!Idle
    \/ r.op \in {"change", "reset"} /\ r.id \in DOMAIN u /\ r.new \in Passwords /\ r # Accounts!Idle
    \/ r.op = "import" /\ ImportOf(r, u) /\ r # Accounts!Idle

\* One row of each name, as an admin left it.
TableOk ==
    /\ users \in Seq(UserRow) /\ decided \in Seq(Stand) /\ Len(decided) = Len(users)
    /\ \A i, j \in 1 .. Len(users) : users[i].name = users[j].name => i = j
    /\ \A i \in 1 .. Len(users) : Accounts!Standing(users[i]) = decided[i]

AccountsInv ==
    /\ TableOk
    /\ tokens \subseteq DOMAIN users /\ requests \in 0 .. MaxRequests
    /\ request = [s \in Slots |-> request[s]]
    /\ \A s \in Slots : RequestOk(request[s], users)

LEMMA TableFacts ==
    ASSUME TableOk
    PROVE  /\ Len(users) \in Nat /\ DOMAIN users = 1 .. Len(users) /\ Accounts!Ids = 1 .. Len(users)
           /\ \A i \in 1 .. Len(users) : users[i] \in UserRow /\ decided[i] \in Stand
           /\ DOMAIN decided = 1 .. Len(users)
  BY DEF TableOk, Accounts!Ids

LEMMA AccountsInit == Accounts!Init => AccountsInv
  <1> SUFFICES ASSUME Accounts!Init PROVE AccountsInv
    OBVIOUS
  <1> DEFINE row(n, p, r) == Accounts!Row(n, p, r, Accounts!Default)
  <1>1. /\ Accounts!Default \in Quotas /\ {StaffName, Pupil} \subseteq Names /\ StaffName # Pupil
        /\ {Accounts!Student, Accounts!Admin} \subseteq AccountRoles /\ MaxRequests \in Nat
    BY AccountsAssumption DEF Accounts!AccountConstants, Accounts!Default
  <1>2. PICK p \in Passwords : users = <<row(StaffName, p, Accounts!Admin), row(Pupil, p, Accounts!Student)>>
    BY DEF Accounts!Init
  <1>3. row(StaffName, p, Accounts!Admin) \in UserRow /\ row(Pupil, p, Accounts!Student) \in UserRow
    BY <1>1 DEF Accounts!Row, UserRow
  <1>4. row(StaffName, p, Accounts!Admin).name = StaffName /\ row(Pupil, p, Accounts!Student).name = Pupil
    BY DEF Accounts!Row
  <1> HIDE DEF row
  <1>5. /\ users \in Seq(UserRow) /\ Len(users) = 2 /\ users[1].name = StaffName /\ users[2].name = Pupil
        /\ users[1] \in UserRow /\ users[2] \in UserRow
    BY <1>2, <1>3, <1>4
  <1>6. \A i \in 1 .. 2 : Accounts!Standing(users[i]) \in Stand
    BY <1>5 DEF Accounts!Standing, UserRow, Stand
  <1>7. decided = [i \in 1 .. 2 |-> Accounts!Standing(users[i])]
    BY DEF Accounts!Init
  <1>8. decided \in Seq(Stand) /\ Len(decided) = 2
    BY <1>6, <1>7
  <1>9. TableOk
    BY <1>1, <1>5, <1>7, <1>8 DEF TableOk
  <1>10. \A s \in Slots : request[s] = Accounts!Idle
    BY DEF Accounts!Init
  <1> QED
    BY <1>1, <1>5, <1>9, <1>10 DEF AccountsInv, RequestOk, Accounts!Init

\* Rows are added, and keep their names: what requests know of them stays true.
Grows(u, v) == DOMAIN u \subseteq DOMAIN v /\ \A i \in DOMAIN u : v[i].name = u[i].name

LEMMA RequestsStayOk ==
    ASSUME NEW u, NEW v, Grows(u, v), NEW r, RequestOk(r, u)
    PROVE  RequestOk(r, v)
  <1>1. \A n : Has(u, n) => Has(v, n)
    BY DEF Grows, Has
  <1>2. ImportOf(r, u) => ImportOf(r, v)
    BY <1>1 DEF ImportOf
  <1> QED
    BY <1>2 DEF RequestOk, Grows

\* A request begins or ends, and the table is what it was, or grew.
LEMMA SlotsKeep ==
    ASSUME AccountsInv, TableOk', Grows(users, users'), NEW s \in Slots, NEW r, RequestOk(r, users'),
           request' = [request EXCEPT ![s] = r], tokens' \subseteq DOMAIN users',
           requests' \in 0 .. MaxRequests
    PROVE  AccountsInv'
  <1>1. /\ request' = [x \in Slots |-> request'[x]] /\ request'[s] = r
        /\ \A x \in Slots \ {s} : request'[x] = request[x]
    BY DEF AccountsInv
  <1>2. ASSUME NEW x \in Slots PROVE RequestOk(request'[x], users')
    <2>1. CASE x = s
      BY <1>1, <2>1
    <2>2. CASE x # s
      <3>1. RequestOk(request[x], users)
        BY DEF AccountsInv
      <3> QED
        BY <1>1, <2>2, <3>1, RequestsStayOk
    <2> QED
      BY <2>1, <2>2
  <1> QED
    BY <1>1, <1>2 DEF AccountsInv

LEMMA BeginsOk ==
    ASSUME AccountsInv, NEW s \in Slots, NEW r, RequestOk(r, users), Accounts!Begin(s, r),
           UNCHANGED <<users, decided, tokens>>
    PROVE  AccountsInv'
  <1>1. /\ request' = [request EXCEPT ![s] = r] /\ requests' \in 0 .. MaxRequests
    BY AccountsAssumption DEF Accounts!Begin, AccountsInv, Accounts!AccountConstants
  <1>2. TableOk' /\ Grows(users, users')
    BY DEF AccountsInv, TableOk, Grows
  <1> QED
    BY <1>1, <1>2, SlotsKeep DEF AccountsInv

LEMMA EndsOk ==
    ASSUME AccountsInv, TableOk', Grows(users, users'), NEW s \in Slots, Accounts!Ended(s),
           tokens' \subseteq DOMAIN users'
    PROVE  AccountsInv' /\ request'[s] = Accounts!Idle /\ \A x \in Slots \ {s} : request'[x] = request[x]
  <1>1. request' = [request EXCEPT ![s] = Accounts!Idle] /\ requests' \in 0 .. MaxRequests
    BY DEF Accounts!Ended, AccountsInv
  <1>2. AccountsInv'
    BY <1>1, SlotsKeep DEF RequestOk
  <1>3. request = [x \in Slots |-> request[x]]
    BY DEF AccountsInv
  <1> QED
    BY <1>1, <1>2, <1>3

LEMMA JoinedRows ==
    ASSUME NEW S, NEW a \in Seq(S), NEW b \in Seq(S)
    PROVE  /\ a \o b \in Seq(S) /\ Len(a \o b) = Len(a) + Len(b)
           /\ \A i \in 1 .. Len(a) : (a \o b)[i] = a[i]
           /\ \A k \in 1 .. Len(b) : (a \o b)[Len(a) + k] = b[k]
  OBVIOUS

\* A transaction that commits: the rows it changed keep their names and what admins
\* decided, the rows it adds have free names.
LEMMA SavesOk ==
    ASSUME TableOk, NEW changed \in Seq(UserRow), NEW added \in Seq(UserRow),
           Len(changed) = Len(users),
           \A i \in 1 .. Len(users) : /\ changed[i].name = users[i].name
                                      /\ Accounts!Standing(changed[i]) = Accounts!Standing(users[i]),
           \A i, j \in 1 .. Len(added) : added[i].name = added[j].name => i = j,
           Accounts!Fits(added), Accounts!Save(changed, added)
    PROVE  /\ TableOk' /\ Grows(users, users') /\ Len(users') = Len(users) + Len(added)
           /\ \A i \in 1 .. Len(users) : users'[i] = changed[i]
           /\ \A k \in 1 .. Len(added) : users'[Len(users) + k] = added[k]
  <1> DEFINE n == Len(users)
             m == Len(added)
             more == [k \in DOMAIN added |-> Accounts!Standing(added[k])]
  <1>1. /\ n \in Nat /\ m \in Nat /\ DOMAIN users = 1 .. n /\ DOMAIN added = 1 .. m
        /\ \A k \in 1 .. m : added[k] \in UserRow
    BY TableFacts
  <1>2. users' = changed \o added /\ decided' = decided \o more
    BY DEF Accounts!Save
  <1>3. /\ users' \in Seq(UserRow) /\ Len(users') = n + m
        /\ \A i \in 1 .. n : users'[i] = changed[i]
        /\ \A k \in 1 .. m : users'[n + k] = added[k]
    <2>1. /\ changed \o added \in Seq(UserRow)
          /\ Len(changed \o added) = Len(changed) + Len(added)
          /\ \A i \in 1 .. Len(changed) : (changed \o added)[i] = changed[i]
          /\ \A k \in 1 .. Len(added) : (changed \o added)[Len(changed) + k] = added[k]
      <3>1. changed \in Seq(UserRow) /\ added \in Seq(UserRow)
        OBVIOUS
      <3> QED
        BY ONLY <3>1, JoinedRows
    <2>2. users' = changed \o added /\ Len(changed) = n /\ Len(added) = m
      BY <1>2
    <2> HIDE DEF n, m
    <2> QED
      BY ONLY <2>1, <2>2
  <1>4. ASSUME NEW k \in 1 .. m
        PROVE  more[k] = Accounts!Standing(added[k]) /\ more[k] \in Stand
    <2>1. more[k] = Accounts!Standing(added[k]) /\ added[k] \in UserRow
      BY <1>1
    <2>2. Accounts!Standing(added[k]) \in Stand
      BY <2>1 DEF Accounts!Standing, UserRow, Stand
    <2> QED
      BY <2>1, <2>2
  <1>5. more \in Seq(Stand) /\ Len(more) = m
    BY <1>1, <1>4
  <1> HIDE DEF more
  <1>6. /\ decided' \in Seq(Stand) /\ Len(decided') = n + m
        /\ \A i \in 1 .. n : decided'[i] = decided[i]
        /\ \A k \in 1 .. m : decided'[n + k] = more[k]
    <2>1. decided \in Seq(Stand) /\ Len(decided) = n
      BY DEF TableOk
    <2> HIDE DEF n, m
    <2> DEFINE both == decided \o more
    <2>2. /\ both \in Seq(Stand) /\ Len(both) = Len(decided) + Len(more)
          /\ \A i \in 1 .. Len(decided) : both[i] = decided[i]
          /\ \A k \in 1 .. Len(more) : both[Len(decided) + k] = more[k]
      <3>1. decided \in Seq(Stand) /\ more \in Seq(Stand)
        BY <1>5, <2>1
      <3> QED
        BY ONLY <3>1, JoinedRows
    <2>3. decided' = both
      BY <1>2
    <2> HIDE DEF both
    <2> QED
      BY <1>5, <2>1, <2>2, <2>3
  <1> HIDE DEF n, m
  <1>7. \A i \in 1 .. (n + m) : i \in 1 .. n \/ \E k \in 1 .. m : i = n + k
    <2> TAKE i \in 1 .. (n + m)
    <2>1. i \in 1 .. n \/ (i - n \in 1 .. m /\ i = n + (i - n))
      BY <1>1
    <2> QED
      BY <2>1
  <1>8. \A k \in 1 .. m : \A i \in 1 .. n : users[i].name # added[k].name
    BY <1>1 DEF Accounts!Fits, Accounts!Called, Accounts!Ids
  <1>9. \A i, j \in 1 .. (n + m) : users'[i].name = users'[j].name => i = j
    <2> SUFFICES ASSUME NEW i \in 1 .. (n + m), NEW j \in 1 .. (n + m),
                        users'[i].name = users'[j].name
                 PROVE  i = j
      OBVIOUS
    <2>1. CASE i \in 1 .. n /\ j \in 1 .. n
      <3>1. users'[i].name = users[i].name /\ users'[j].name = users[j].name
        BY <1>3, <2>1 DEF n
      <3> QED
        BY <2>1, <3>1 DEF TableOk, n
    <2>2. CASE i \in 1 .. n /\ \E k \in 1 .. m : j = n + k
      BY <1>3, <1>8, <2>2 DEF n
    <2>3. CASE j \in 1 .. n /\ \E k \in 1 .. m : i = n + k
      BY <1>3, <1>8, <2>3 DEF n
    <2>4. CASE (\E k \in 1 .. m : i = n + k) /\ \E k \in 1 .. m : j = n + k
      BY <1>3, <2>4 DEF m
    <2> QED
      BY <1>7, <2>1, <2>2, <2>3, <2>4
  <1>10. \A i \in 1 .. (n + m) : Accounts!Standing(users'[i]) = decided'[i]
    <2> SUFFICES ASSUME NEW i \in 1 .. (n + m) PROVE Accounts!Standing(users'[i]) = decided'[i]
      OBVIOUS
    <2>1. CASE i \in 1 .. n
      BY <1>3, <1>6, <2>1 DEF TableOk, n
    <2>2. ASSUME NEW k \in 1 .. m, i = n + k PROVE Accounts!Standing(users'[i]) = decided'[i]
      BY <1>3, <1>4, <1>6, <2>2
    <2> QED
      BY <1>7, <2>1, <2>2
  <1>11. TableOk'
    BY <1>3, <1>6, <1>9, <1>10 DEF TableOk
  <1>12. Grows(users, users')
    <2>1. DOMAIN users' = 1 .. (n + m)
      BY <1>3
    <2>2. 1 .. n \subseteq 1 .. (n + m)
      BY <1>1
    <2>3. \A i \in 1 .. n : users'[i].name = users[i].name
      BY <1>3 DEF n
    <2> QED
      BY <1>1, <2>1, <2>2, <2>3 DEF Grows
  <1> QED
    BY <1>3, <1>11, <1>12 DEF n, m

LEMMA UnchangedTable ==
    ASSUME AccountsInv, UNCHANGED <<users, decided>>
    PROVE  TableOk' /\ Grows(users, users')
  BY DEF AccountsInv, TableOk, Grows

\* What a step that ends no import does to imports.
LEMMA NoImportEnds ==
    ASSUME \/ users' = users
           \/ \A s \in Slots : request[s].op = "import" => request'[s] # Accounts!Idle
    PROVE  Accounts!ImportsWhole
  BY DEF Accounts!ImportsWhole

LEMMA AskKeeps ==
    ASSUME AccountsInv, NEW s \in Slots, NEW op \in {"signup", "create"}, NEW n \in Names,
           NEW p \in Passwords, NEW r \in AccountRoles, NEW q \in Quotas, Accounts!Ask(s, op, n, p, r, q)
    PROVE  AccountsInv' /\ Accounts!ImportsWhole
  <1> DEFINE new == [op |-> op, row |-> Accounts!Row(n, p, r, q)]
  <1>1. UNCHANGED <<users, decided, tokens>>
    BY DEF Accounts!Ask
  <1>2. CASE UNCHANGED <<request, requests>>
    <2>1. \A x \in Slots : RequestOk(request'[x], users')
      BY <1>1, <1>2 DEF AccountsInv
    <2> QED
      BY <1>1, <1>2, <2>1, UnchangedTable, NoImportEnds DEF AccountsInv
  <1>3. CASE Accounts!Begin(s, new)
    <2>1. new.row \in UserRow
      BY DEF Accounts!Row, UserRow
    <2>2. new.op = op
      OBVIOUS
    <2> HIDE DEF new
    <2>3. RequestOk(new, users)
      BY <2>1, <2>2 DEF RequestOk, Accounts!Idle
    <2> QED
      BY <1>1, <1>3, <2>3, BeginsOk, NoImportEnds
  <1> QED
    BY <1>2, <1>3 DEF Accounts!Ask

LEMMA CreateKeeps ==
    ASSUME AccountsInv, NEW s \in Slots, Accounts!Create(s)
    PROVE  AccountsInv' /\ Accounts!ImportsWhole
  <1> DEFINE row == request[s].row
  <1>1. request[s].op \in {"signup", "create"} /\ row \in UserRow /\ Accounts!Ended(s)
    BY DEF Accounts!Create, AccountsInv, RequestOk, Accounts!Idle
  <1>2. CASE Accounts!Fails(request[s].op)
    <2>1. UNCHANGED <<users, decided, tokens>>
      BY <1>2 DEF Accounts!Fails
    <2>2. tokens' \subseteq DOMAIN users'
      BY <2>1 DEF AccountsInv
    <2>3. AccountsInv'
      BY <1>1, <2>1, <2>2, UnchangedTable, EndsOk
    <2> QED
      BY <2>1, <2>3, NoImportEnds
  <1>3. CASE /\ Accounts!Fits(<<row>>) /\ Accounts!Save(users, <<row>>)
             /\ tokens' \in {tokens, tokens \cup {Len(users')}}
    <2>1. /\ <<row>> \in Seq(UserRow) /\ Len(<<row>>) = 1 /\ users \in Seq(UserRow)
          /\ \A i, j \in 1 .. Len(<<row>>) : i = j
      BY <1>1 DEF AccountsInv, TableOk
    <2> HIDE DEF row
    <2>2. TableOk' /\ Grows(users, users') /\ Len(users') = Len(users) + 1
      BY <1>3, <2>1, SavesOk DEF AccountsInv
    <2>3. tokens' \subseteq DOMAIN users'
      <3>1. DOMAIN users = 1 .. Len(users) /\ Len(users) \in Nat /\ DOMAIN users' = 1 .. Len(users')
        BY <2>1, <2>2 DEF TableOk
      <3> QED
        BY <1>3, <2>2, <3>1 DEF AccountsInv
    <2>4. AccountsInv' /\ \A x \in Slots \ {s} : request'[x] = request[x]
      BY <1>1, <2>2, <2>3, EndsOk
    <2>5. \A x \in Slots : request[x].op = "import" => request'[x] # Accounts!Idle
      <3> SUFFICES ASSUME NEW x \in Slots, request[x].op = "import" PROVE request'[x] # Accounts!Idle
        OBVIOUS
      <3>1. x # s /\ request'[x] = request[x]
        BY <1>1, <2>4
      <3> QED
        BY <3>1 DEF Accounts!Idle
    <2> QED
      BY <2>4, <2>5, NoImportEnds
  <1> QED
    BY <1>2, <1>3 DEF Accounts!Create

LEMMA LoginKeeps ==
    ASSUME AccountsInv, NEW s \in Slots,
           \/ \E n \in Names, p \in Passwords : Accounts!StartLogin(s, n, p)
           \/ Accounts!EndLogin(s)
    PROVE  AccountsInv' /\ Accounts!ImportsWhole
  <1>1. CASE \E n \in Names, p \in Passwords : Accounts!StartLogin(s, n, p)
    <2>1. PICK n \in Names, p \in Passwords, i \in DOMAIN users :
              /\ Accounts!Begin(s, [op |-> "login", id |-> i, right |-> p = users[i].password])
              /\ UNCHANGED <<users, decided, tokens>>
      BY <1>1 DEF Accounts!StartLogin, Accounts!Called, Accounts!Ids
    <2> DEFINE new == [op |-> "login", id |-> i, right |-> p = users[i].password]
    <2>2. RequestOk(new, users)
      <3>1. new.op = "login" /\ new.id = i
        OBVIOUS
      <3> HIDE DEF new
      <3> QED
        BY <2>1, <3>1 DEF RequestOk, Accounts!Idle
    <2> QED
      BY <2>1, <2>2, BeginsOk, NoImportEnds
  <1>2. CASE Accounts!EndLogin(s)
    <2>1. /\ UNCHANGED <<users, decided>> /\ Accounts!Ended(s)
          /\ tokens' \in {tokens, tokens \cup {request[s].id}} /\ request[s].op = "login"
      BY <1>2 DEF Accounts!EndLogin
    <2>2. tokens' \subseteq DOMAIN users'
      BY <2>1 DEF AccountsInv, RequestOk, Accounts!Idle
    <2> QED
      BY <2>1, <2>2, UnchangedTable, EndsOk, NoImportEnds
  <1> QED
    BY <1>1, <1>2

LEMMA ExpireKeeps ==
    ASSUME AccountsInv, NEW i, Accounts!Expire(i)
    PROVE  AccountsInv' /\ Accounts!ImportsWhole
  BY NoImportEnds DEF Accounts!Expire, AccountsInv, TableOk

LEMMA StartPasswordKeeps ==
    ASSUME AccountsInv, NEW s \in Slots, NEW i \in DOMAIN users, NEW p \in Passwords,
           \/ Accounts!StartReset(s, i, p)
           \/ \E old \in Passwords : Accounts!StartChange(s, i, old, p)
    PROVE  AccountsInv' /\ Accounts!ImportsWhole
  <1>1. PICK r : /\ r.op \in {"change", "reset"} /\ r.id = i /\ r.new = p
                 /\ Accounts!Begin(s, r) /\ UNCHANGED <<users, decided, tokens>>
    <2>1. CASE Accounts!StartReset(s, i, p)
      BY <2>1 DEF Accounts!StartReset
    <2>2. CASE \E old \in Passwords : Accounts!StartChange(s, i, old, p)
      BY <2>2 DEF Accounts!StartChange
    <2> QED
      BY <2>1, <2>2
  <1>2. RequestOk(r, users)
    BY <1>1 DEF RequestOk, Accounts!Idle
  <1> QED
    BY <1>1, <1>2, BeginsOk, NoImportEnds

\* The rows of a table whose row i is written: the others stay.
LEMMA RowWrittenOk ==
    ASSUME TableOk, NEW i \in 1 .. Len(users), NEW row \in UserRow, row.name = users[i].name,
           users' = [users EXCEPT ![i] = row],
           decided' = [decided EXCEPT ![i] = Accounts!Standing(row)]
    PROVE  TableOk' /\ Grows(users, users')
  <1>1. Accounts!Standing(row) \in Stand
    BY DEF Accounts!Standing, UserRow, Stand
  <1>2. /\ Len(users) \in Nat /\ DOMAIN users = 1 .. Len(users) /\ DOMAIN decided = 1 .. Len(users)
        /\ users \in Seq(UserRow) /\ decided \in Seq(Stand) /\ Len(decided) = Len(users)
    BY TableFacts DEF TableOk
  <1>3. /\ users' \in Seq(UserRow) /\ Len(users') = Len(users) /\ DOMAIN users' = DOMAIN users
        /\ users'[i] = row /\ \A j \in 1 .. Len(users) \ {i} : users'[j] = users[j]
    BY <1>2
  <1>4. /\ decided' \in Seq(Stand) /\ Len(decided') = Len(decided)
        /\ decided'[i] = Accounts!Standing(row)
        /\ \A j \in 1 .. Len(users) \ {i} : decided'[j] = decided[j]
    BY <1>1, <1>2
  <1>5. \A j \in 1 .. Len(users) : users'[j].name = users[j].name
    BY <1>3
  <1>6. \A j, k \in 1 .. Len(users) : users'[j].name = users'[k].name => j = k
    BY <1>5 DEF TableOk
  <1>7. \A j \in 1 .. Len(users) : Accounts!Standing(users'[j]) = decided'[j]
    BY <1>3, <1>4 DEF TableOk
  <1> QED
    BY <1>2, <1>3, <1>4, <1>5, <1>6, <1>7 DEF TableOk, Grows

LEMMA EndPasswordKeeps ==
    ASSUME AccountsInv, NEW s \in Slots, Accounts!EndPassword(s)
    PROVE  AccountsInv' /\ Accounts!ImportsWhole
  <1>1. /\ request[s].op \in {"change", "reset"} /\ request[s].id \in DOMAIN users
        /\ request[s].new \in Passwords /\ Accounts!Ended(s) /\ UNCHANGED <<decided, tokens>>
    BY DEF Accounts!EndPassword, AccountsInv, RequestOk, Accounts!Idle
  <1> DEFINE i == request[s].id
             row == [users[i] EXCEPT !.password = request[s].new]
  <1>2. TableOk' /\ Grows(users, users')
    <2>1. CASE UNCHANGED users
      BY <1>1, <2>1, UnchangedTable
    <2>2. CASE users' = [users EXCEPT ![i].password = request[s].new]
      <3>1. i \in 1 .. Len(users) /\ users[i] \in UserRow /\ decided[i] = Accounts!Standing(users[i])
        BY <1>1, TableFacts DEF AccountsInv, TableOk
      <3>2. /\ row \in UserRow /\ row.name = users[i].name
            /\ Accounts!Standing(row) = Accounts!Standing(users[i])
        BY <1>1, <3>1 DEF UserRow, Accounts!Standing
      <3>3. users' = [users EXCEPT ![i] = row]
        BY <2>2
      <3>4. decided' = [decided EXCEPT ![i] = Accounts!Standing(row)]
        BY <1>1, <3>1, <3>2 DEF AccountsInv, TableOk
      <3> HIDE DEF i, row
      <3> QED
        BY <3>1, <3>2, <3>3, <3>4, RowWrittenOk DEF AccountsInv
    <2> QED
      BY <2>1, <2>2 DEF Accounts!EndPassword, Accounts!PasswordWritten
  <1>3. tokens' \subseteq DOMAIN users'
    BY <1>1, <1>2 DEF AccountsInv, Grows
  <1>4. AccountsInv' /\ \A x \in Slots \ {s} : request'[x] = request[x]
    BY <1>1, <1>2, <1>3, EndsOk
  <1>5. \A x \in Slots : request[x].op = "import" => request'[x] # Accounts!Idle
    <2> SUFFICES ASSUME NEW x \in Slots, request[x].op = "import" PROVE request'[x] # Accounts!Idle
      OBVIOUS
    <2>1. x # s /\ request'[x] = request[x]
      BY <1>1, <1>4
    <2> QED
      BY <2>1 DEF Accounts!Idle
  <1> QED
    BY <1>4, <1>5, NoImportEnds

\* An admin decides one column of one row.
LEMMA DecidesKeep ==
    ASSUME AccountsInv, NEW i \in DOMAIN users,
           \/ Accounts!DeleteUser(i)
           \/ \E q \in Quotas : Accounts!UpdateQuota(i, q)
           \/ \E r \in AccountRoles : Accounts!UpdateRole(i, r)
    PROVE  AccountsInv' /\ Accounts!ImportsWhole
  <1>1. /\ i \in 1 .. Len(users) /\ users[i] \in UserRow /\ decided[i] = Accounts!Standing(users[i])
        /\ users \in Seq(UserRow) /\ decided \in Seq(Stand) /\ DOMAIN decided = 1 .. Len(users)
    BY TableFacts DEF AccountsInv, TableOk
  <1>2. UNCHANGED <<tokens, request>> /\ requests' \in 0 .. MaxRequests
    BY AccountsAssumption
       DEF Accounts!DeleteUser, Accounts!UpdateQuota, Accounts!UpdateRole, Accounts!Decide, AccountsInv,
           Accounts!AccountConstants
  <1> DEFINE Writes(row) == /\ row.name = users[i].name /\ users' = [users EXCEPT ![i] = row]
                            /\ decided' = [decided EXCEPT ![i] = Accounts!Standing(row)]
  <1>3. \E row \in UserRow : Writes(row)
    <2>1. CASE Accounts!DeleteUser(i)
      <3> DEFINE row == [users[i] EXCEPT !.deleted = TRUE]
      <3>1. /\ users' = [users EXCEPT ![i] = row]
            /\ decided' = [decided EXCEPT ![i] = [decided[i] EXCEPT !.deleted = TRUE]]
        BY <2>1 DEF Accounts!DeleteUser, Accounts!Decide
      <3>2. row \in UserRow /\ row.name = users[i].name
        BY <1>1 DEF UserRow
      <3>3. row.role = users[i].role /\ row.quota = users[i].quota /\ row.deleted = TRUE
        BY <1>1 DEF UserRow
      <3>4. Accounts!Standing(row) = [role |-> users[i].role, quota |-> users[i].quota,
                                      deleted |-> TRUE]
        BY <3>3 DEF Accounts!Standing
      <3>5. [Accounts!Standing(users[i]) EXCEPT !.deleted = TRUE]
              = [role |-> users[i].role, quota |-> users[i].quota, deleted |-> TRUE]
        <4>1. ASSUME NEW yes
              PROVE  [Accounts!Standing(users[i]) EXCEPT !.deleted = yes]
                       = [role |-> users[i].role, quota |-> users[i].quota, deleted |-> yes]
          BY DEF Accounts!Standing
        <4> QED
          BY <4>1
      <3> QED
        BY <1>1, <3>1, <3>2, <3>4, <3>5
    <2>2. ASSUME NEW q \in Quotas, Accounts!UpdateQuota(i, q) PROVE \E row \in UserRow : Writes(row)
      <3> DEFINE row == [users[i] EXCEPT !.quota = q]
      <3>1. /\ users' = [users EXCEPT ![i] = row]
            /\ decided' = [decided EXCEPT ![i] = [decided[i] EXCEPT !.quota = q]]
        BY <2>2 DEF Accounts!UpdateQuota, Accounts!Decide
      <3>2. row \in UserRow /\ row.name = users[i].name
        BY <1>1 DEF UserRow
      <3>3. [decided[i] EXCEPT !.quota = q] = Accounts!Standing(row)
        BY <1>1 DEF UserRow, Accounts!Standing
      <3> QED
        BY <3>1, <3>2, <3>3
    <2>3. ASSUME NEW r \in AccountRoles, Accounts!UpdateRole(i, r) PROVE \E row \in UserRow : Writes(row)
      <3> DEFINE row == [users[i] EXCEPT !.role = r]
      <3>1. /\ users' = [users EXCEPT ![i] = row]
            /\ decided' = [decided EXCEPT ![i] = [decided[i] EXCEPT !.role = r]]
        BY <2>3 DEF Accounts!UpdateRole, Accounts!Decide
      <3>2. row \in UserRow /\ row.name = users[i].name
        BY <1>1 DEF UserRow
      <3>3. [decided[i] EXCEPT !.role = r] = Accounts!Standing(row)
        BY <1>1 DEF UserRow, Accounts!Standing
      <3> QED
        BY <3>1, <3>2, <3>3
    <2> QED
      BY <2>1, <2>2, <2>3
  <1>4. TableOk' /\ Grows(users, users')
    BY <1>1, <1>3, RowWrittenOk DEF AccountsInv
  <1>5. \A s \in Slots : RequestOk(request[s], users')
    BY <1>4, RequestsStayOk DEF AccountsInv
  <1>6. AccountsInv'
    BY <1>2, <1>4, <1>5 DEF AccountsInv, Grows
  <1>7. \A s \in Slots : request[s].op = "import" => request'[s] # Accounts!Idle
    BY <1>2 DEF Accounts!Idle
  <1> QED
    BY <1>6, <1>7, NoImportEnds

LEMMA SameCount == \A S : Accounts!Cardinality(S) = Cardinality(S)
  BY DEF Accounts!Cardinality, Cardinality, Accounts!IsFiniteSet, IsFiniteSet

\* The k-th of some numbers: each has its place.
LEMMA EachHasItsPlace ==
    ASSUME NEW n \in Nat, NEW lines \in SUBSET (1 .. n)
    PROVE  /\ Cardinality(lines) \in Nat
           /\ \A k \in 1 .. Cardinality(lines) : Accounts!Nth(lines, k) \in lines
           /\ \A j, k \in 1 .. Cardinality(lines) :
                 Accounts!Nth(lines, j) = Accounts!Nth(lines, k) => j = k
           /\ \A l \in lines : \E k \in 1 .. Cardinality(lines) : Accounts!Nth(lines, k) = l
  <1> DEFINE c == Cardinality(lines)
             upTo(l) == Accounts!UpTo(l, lines)
             place(l) == Cardinality(upTo(l))
  <1>0. lines \subseteq Int /\ \A l \in lines : l <= l
    OBVIOUS
  <1>1. IsFiniteSet(lines) /\ c \in Nat
    <2>1. IsFiniteSet(1 .. n)
      BY FS_Interval
    <2> QED
      BY <2>1, FS_Subset, FS_CardinalityType
  <1>2. \A l \in lines : IsFiniteSet(upTo(l)) /\ place(l) \in 1 .. c
    <2> SUFFICES ASSUME NEW l \in lines PROVE IsFiniteSet(upTo(l)) /\ place(l) \in 1 .. c
      OBVIOUS
    <2>1. upTo(l) \in SUBSET lines /\ l \in upTo(l)
      BY <1>0 DEF Accounts!UpTo
    <2> HIDE DEF upTo
    <2>2. IsFiniteSet(upTo(l)) /\ place(l) <= c /\ place(l) \in Nat
      BY <1>1, <2>1, FS_Subset, FS_CardinalityType
    <2>3. place(l) # 0
      BY <2>1, <2>2, FS_EmptySet
    <2> QED
      BY <1>1, <2>2, <2>3
  <1>3. \A l, m \in lines : l < m => place(l) # place(m)
    <2> SUFFICES ASSUME NEW l \in lines, NEW m \in lines, l < m PROVE place(l) # place(m)
      OBVIOUS
    <2>1. l \in Int /\ m \in Int /\ \A x \in lines : x \in Int
      BY <1>0
    <2>2. /\ \A x \in lines : x <= l => x <= m
          /\ m <= m /\ ~(m <= l)
      BY <2>1
    <2>3. upTo(l) \in SUBSET upTo(m) /\ m \in upTo(m) /\ m \notin upTo(l)
      BY <2>2 DEF Accounts!UpTo
    <2> HIDE DEF upTo
    <2> QED
      BY <1>2, <2>3, FS_Subset
  <1>4. \A l, m \in lines : place(l) = place(m) => l = m
    BY <1>3
  <1> DEFINE f == [l \in lines |-> place(l)]
  <1> HIDE DEF place, upTo, c
  <1>5. f \in Injection(lines, 1 .. c)
    <2>1. f \in [lines -> 1 .. c]
      BY <1>2
    <2>2. \A l, m \in lines : f[l] = f[m] => l = m
      BY <1>4
    <2> QED
      BY <2>1, <2>2, Z3 DEF Injection, IsInjective
  <1>6. f \in Surjection(lines, 1 .. c)
    <2>1. IsFiniteSet(1 .. c) /\ Cardinality(1 .. c) = c
      BY <1>1, FS_Interval
    <2> QED
      BY <1>5, <2>1, FS_Injection DEF c
  <1>7. ASSUME NEW k \in 1 .. c
        PROVE  Accounts!Nth(lines, k) \in lines /\ place(Accounts!Nth(lines, k)) = k
    <2>1. \E l \in lines : place(l) = k
      BY <1>6 DEF Surjection
    <2>2. \E l \in lines : Accounts!Cardinality(Accounts!UpTo(l, lines)) = k
      BY <2>1, SameCount DEF place, upTo
    <2>3. /\ Accounts!Nth(lines, k) \in lines
          /\ Accounts!Cardinality(Accounts!UpTo(Accounts!Nth(lines, k), lines)) = k
      BY <2>2 DEF Accounts!Nth
    <2> QED
      BY <2>3, SameCount DEF place, upTo
  <1>8. ASSUME NEW l \in lines PROVE \E k \in 1 .. c : Accounts!Nth(lines, k) = l
    <2>1. place(l) \in 1 .. c
      BY <1>2
    <2> QED
      BY <1>4, <1>7, <2>1
  <1> QED
    BY <1>1, <1>7, <1>8 DEF c

\* The rows of a file that are taken: complete, and one of each name.
LEMMA AcceptedLines ==
    ASSUME NEW f \in Files
    PROVE  /\ Len(f) \in Nat /\ DOMAIN f = 1 .. Len(f) /\ Accounts!Accepted(f) \subseteq DOMAIN f
           /\ \A k \in Accounts!Accepted(f) : f[k].name \in Names /\ f[k].password \in Passwords
           /\ \A j, k \in Accounts!Accepted(f) : f[j].name = f[k].name => j = k
  <1> DEFINE CsvRow == [name: Names \cup {Missing}, password: Passwords \cup {Missing}, role: STRING]
  <1>1. f \in Seq(CsvRow)
    BY AccountsAssumption DEF Accounts!AccountConstants
  <1> HIDE DEF CsvRow
  <1>2. Len(f) \in Nat /\ DOMAIN f = 1 .. Len(f) /\ \A k \in DOMAIN f : f[k] \in CsvRow
    BY <1>1
  <1>3. /\ Accounts!Accepted(f) \subseteq DOMAIN f
        /\ \A k \in Accounts!Accepted(f) : f[k].name # Missing /\ f[k].password # Missing
        /\ \A k \in Accounts!Accepted(f) : \A j \in 1 .. (k - 1) :
              f[j].name = f[k].name => f[j].password = Missing
    BY DEF Accounts!Accepted
  <1>4. \A j, k \in Accounts!Accepted(f) : j < k => j \in 1 .. (k - 1)
    BY <1>2, <1>3
  <1>5. \A j, k \in Accounts!Accepted(f) : f[j].name = f[k].name => ~(j < k)
    BY <1>3, <1>4
  <1>6. \A j, k \in Accounts!Accepted(f) : f[j].name = f[k].name => j = k
    BY <1>2, <1>3, <1>5
  <1> QED
    BY <1>2, <1>3, <1>6 DEF CsvRow

LEMMA NewRowsOk ==
    ASSUME NEW f \in Files, NEW lines \in SUBSET Accounts!Accepted(f)
    PROVE  LET table == Accounts!NewRows(f, lines)
           IN  /\ table \in Seq(UserRow)
               /\ \A i, j \in 1 .. Len(table) : table[i].name = table[j].name => i = j
               /\ \A l \in lines : \E k \in 1 .. Len(table) : /\ table[k].name = f[l].name
                                                             /\ table[k].password = f[l].password
  <1> DEFINE c == Cardinality(lines)
             nth(k) == Accounts!Nth(lines, k)
             row(k) == Accounts!Row(f[nth(k)].name, f[nth(k)].password, Accounts!RoleOf(f[nth(k)]),
                                    Accounts!Default)
             table == Accounts!NewRows(f, lines)
  <1>1. /\ c \in Nat /\ \A k \in 1 .. c : nth(k) \in lines
        /\ \A j, k \in 1 .. c : nth(j) = nth(k) => j = k
        /\ \A l \in lines : \E k \in 1 .. c : nth(k) = l
    <2>1. Len(f) \in Nat /\ lines \in SUBSET (1 .. Len(f))
      BY AcceptedLines
    <2> QED
      BY <2>1, EachHasItsPlace
  <1>2. table = [k \in 1 .. c |-> row(k)]
    BY SameCount DEF Accounts!NewRows, Accounts!RowsOf
  <1> HIDE DEF nth, c
  <1>3. ASSUME NEW k \in 1 .. c
        PROVE  /\ row(k) \in UserRow /\ row(k).name = f[nth(k)].name
               /\ row(k).password = f[nth(k)].password
    <2>1. f[nth(k)].name \in Names /\ f[nth(k)].password \in Passwords
      BY <1>1, AcceptedLines
    <2>2. Accounts!RoleOf(f[nth(k)]) \in AccountRoles /\ Accounts!Default \in Quotas
      BY AccountsAssumption DEF Accounts!RoleOf, Accounts!Default, Accounts!AccountConstants
    <2> QED
      BY <2>1, <2>2 DEF Accounts!Row, UserRow
  <1> HIDE DEF row, table
  <1>4. table \in Seq(UserRow) /\ Len(table) = c /\ \A k \in 1 .. c : table[k] = row(k)
    BY <1>1, <1>2, <1>3
  <1>5. \A i, j \in 1 .. c : table[i].name = table[j].name => i = j
    BY <1>1, <1>3, <1>4, AcceptedLines
  <1>6. \A l \in lines : \E k \in 1 .. c : table[k].name = f[l].name /\ table[k].password = f[l].password
    BY <1>1, <1>3, <1>4
  <1> QED
    BY <1>4, <1>5, <1>6 DEF table

LEMMA UpdatedOk ==
    ASSUME TableOk, NEW f \in Files, NEW lines \in SUBSET Accounts!Accepted(f)
    PROVE  LET table == Accounts!Updated(users, f, lines)
           IN  /\ table \in Seq(UserRow) /\ Len(table) = Len(users)
               /\ \A i \in 1 .. Len(users) :
                     /\ table[i].name = users[i].name
                     /\ Accounts!Standing(table[i]) = Accounts!Standing(users[i])
               /\ \A l \in lines, i \in 1 .. Len(users) :
                     users[i].name = f[l].name => table[i].password = f[l].password
  <1> DEFINE n == Len(users)
             own(i) == {k \in lines : f[k].name = users[i].name}
             mine(i) == CHOOSE k \in own(i) : TRUE
             row(i) == IF own(i) = {} THEN users[i]
                       ELSE [users[i] EXCEPT !.password = f[mine(i)].password]
             table == Accounts!Updated(users, f, lines)
  <1>1. n \in Nat /\ DOMAIN users = 1 .. n /\ \A i \in 1 .. n : users[i] \in UserRow
    BY TableFacts
  <1>2. table = [i \in 1 .. n |-> row(i)]
    BY <1>1 DEF Accounts!Updated
  <1>3. ASSUME NEW i \in 1 .. n
        PROVE  /\ row(i) \in UserRow /\ row(i).name = users[i].name
               /\ Accounts!Standing(row(i)) = Accounts!Standing(users[i])
               /\ \A l \in lines : users[i].name = f[l].name => row(i).password = f[l].password
    <2>1. CASE own(i) = {}
      BY <1>1, <2>1
    <2>2. CASE own(i) # {}
      <3>1. mine(i) \in lines /\ f[mine(i)].name = users[i].name
        BY <2>2
      <3>2. f[mine(i)].password \in Passwords
        BY <3>1, AcceptedLines
      <3>3. \A l \in lines : users[i].name = f[l].name => l = mine(i)
        BY <3>1, AcceptedLines
      <3>4. row(i) = [users[i] EXCEPT !.password = f[mine(i)].password]
        BY <2>2
      <3> HIDE DEF mine, row, own
      <3>5. /\ row(i) \in UserRow /\ row(i).name = users[i].name
            /\ Accounts!Standing(row(i)) = Accounts!Standing(users[i])
            /\ row(i).password = f[mine(i)].password
        BY <1>1, <3>2, <3>4 DEF UserRow, Accounts!Standing
      <3> QED
        BY <3>3, <3>5
    <2> QED
      BY <2>1, <2>2
  <1> HIDE DEF row, table
  <1>4. table \in Seq(UserRow) /\ Len(table) = n /\ \A i \in 1 .. n : table[i] = row(i)
    BY <1>1, <1>2, <1>3
  <1> QED
    BY <1>3, <1>4 DEF table

LEMMA StartImportKeeps ==
    ASSUME AccountsInv, NEW s \in Slots, NEW f \in Files, Accounts!StartImport(s, f)
    PROVE  AccountsInv' /\ Accounts!ImportsWhole
  <1> DEFINE r == [op |-> "import", file |-> f, create |-> Accounts!ToCreate(f),
                   update |-> Accounts!ToUpdate(f)]
  <1>1. Accounts!Begin(s, r) /\ UNCHANGED <<users, decided, tokens>>
    BY DEF Accounts!StartImport
  <1>2. /\ r.op = "import" /\ r.file = f
        /\ r.create = Accounts!ToCreate(f) /\ r.update = Accounts!ToUpdate(f)
    OBVIOUS
  <1> HIDE DEF r
  <1>3. /\ r.create \cup r.update = Accounts!Accepted(f)
        /\ \A k \in r.update : Has(users, f[k].name)
    BY <1>2 DEF Accounts!ToCreate, Accounts!ToUpdate, Accounts!Called, Accounts!Ids, Has
  <1>4. ImportOf(r, users)
    BY <1>2, <1>3, AcceptedLines DEF ImportOf
  <1>5. RequestOk(r, users)
    BY <1>2, <1>4 DEF RequestOk, Accounts!Idle
  <1> QED
    BY <1>1, <1>5, BeginsOk, NoImportEnds

LEMMA EndImportKeeps ==
    ASSUME AccountsInv, NEW s \in Slots, Accounts!EndImport(s)
    PROVE  AccountsInv' /\ Accounts!ImportsWhole
  <1> DEFINE r == request[s]
             f == r.file
             added == Accounts!NewRows(f, r.create)
             changed == Accounts!Updated(users, f, r.update)
  <1>1. r.op = "import" /\ ImportOf(r, users) /\ Accounts!Ended(s)
    BY DEF Accounts!EndImport, AccountsInv, RequestOk, Accounts!Idle
  <1>2. /\ f \in Files /\ r.create \in SUBSET Accounts!Accepted(f)
        /\ r.update \in SUBSET Accounts!Accepted(f)
        /\ r.create \cup r.update = Accounts!Accepted(f)
        /\ \A k \in r.update : \E i \in 1 .. Len(users) : users[i].name = f[k].name
    BY <1>1, TableFacts DEF ImportOf, Has, AccountsInv
  <1>3. CASE Accounts!Fails("import")
    <2>1. UNCHANGED <<users, decided, tokens>>
      BY <1>3 DEF Accounts!Fails
    <2>2. tokens' \subseteq DOMAIN users'
      BY <2>1 DEF AccountsInv
    <2>3. AccountsInv'
      BY <1>1, <2>1, <2>2, UnchangedTable, EndsOk
    <2> QED
      BY <2>1, <2>3, NoImportEnds
  <1>4. CASE /\ Accounts!Fits(added) /\ Accounts!Save(changed, added) /\ UNCHANGED tokens
    <2>1. /\ added \in Seq(UserRow)
          /\ \A i, j \in 1 .. Len(added) : added[i].name = added[j].name => i = j
          /\ \A l \in r.create : \E k \in 1 .. Len(added) : /\ added[k].name = f[l].name
                                                            /\ added[k].password = f[l].password
      BY <1>2, NewRowsOk
    <2>2. /\ changed \in Seq(UserRow) /\ Len(changed) = Len(users)
          /\ \A i \in 1 .. Len(users) : /\ changed[i].name = users[i].name
                                        /\ Accounts!Standing(changed[i]) = Accounts!Standing(users[i])
          /\ \A l \in r.update, i \in 1 .. Len(users) :
                users[i].name = f[l].name => changed[i].password = f[l].password
      BY <1>2, UpdatedOk DEF AccountsInv
    <2> HIDE DEF added, changed
    <2>3. /\ TableOk' /\ Grows(users, users') /\ Len(users') = Len(users) + Len(added)
          /\ \A i \in 1 .. Len(users) : users'[i] = changed[i]
          /\ \A k \in 1 .. Len(added) : users'[Len(users) + k] = added[k]
      BY <1>4, <2>1, <2>2, SavesOk DEF AccountsInv
    <2>4. tokens' \subseteq DOMAIN users'
      BY <1>4, <2>3 DEF AccountsInv, Grows
    <2>5. AccountsInv' /\ \A x \in Slots \ {s} : request'[x] = request[x]
      BY <1>1, <2>3, <2>4, EndsOk
    <2>6. /\ DOMAIN users' = 1 .. (Len(users) + Len(added)) /\ Len(users) \in Nat /\ Len(added) \in Nat
      BY <2>1, <2>3, TableFacts DEF AccountsInv, TableOk
    <2>7. ASSUME NEW k \in Accounts!Accepted(f)
          PROVE  \E i \in DOMAIN users' : /\ users'[i].name = f[k].name
                                          /\ users'[i].password = f[k].password
      <3>1. CASE k \in r.create
        <4>1. PICK j \in 1 .. Len(added) : added[j].name = f[k].name /\ added[j].password = f[k].password
          BY <2>1, <3>1
        <4>2. Len(users) + j \in DOMAIN users' /\ users'[Len(users) + j] = added[j]
          BY <2>3, <2>6
        <4> QED
          BY <4>1, <4>2
      <3>2. CASE k \in r.update
        <4>1. PICK i \in 1 .. Len(users) : users[i].name = f[k].name
          BY <1>2, <3>2
        <4>2. i \in DOMAIN users' /\ users'[i] = changed[i]
          BY <2>3, <2>6
        <4> QED
          BY <2>2, <3>2, <4>1, <4>2
      <3> QED
        BY <1>2, <3>1, <3>2
    <2>8. Accounts!ImportsWhole
      <3> SUFFICES ASSUME NEW x \in Slots, request[x].op = "import", request'[x] = Accounts!Idle
                   PROVE  \A k \in Accounts!Accepted(request[x].file) :
                             \E i \in DOMAIN users' :
                                /\ users'[i].name = request[x].file[k].name
                                /\ users'[i].password = request[x].file[k].password
        BY DEF Accounts!ImportsWhole
      <3>1. x = s
        BY <2>5 DEF Accounts!Idle
      <3> QED
        BY <2>7, <3>1
    <2> QED
      BY <2>5, <2>8
  <1> QED
    BY <1>3, <1>4 DEF Accounts!EndImport

LEMMA AccountsStep ==
    ASSUME AccountsInv, Accounts!Next
    PROVE  AccountsInv' /\ Accounts!ImportsWhole
  <1>1. Accounts!Ids = DOMAIN users
    BY DEF Accounts!Ids
  <1> QED
    BY <1>1, AskKeeps, CreateKeeps, LoginKeeps, ExpireKeeps, StartPasswordKeeps, EndPasswordKeeps,
       DecidesKeep, StartImportKeeps, EndImportKeeps DEF Accounts!Next

LEMMA AccountsAlways == Spec => []AccountsInv
  <1>1. Init => AccountsInv
    BY AccountsInit DEF Init
  <1>2. AccountsInv /\ [Next]_vars => AccountsInv'
    <2>1. ASSUME [Next]_vars
          PROVE  \/ Accounts!Next
                 \/ UNCHANGED accountVars
      BY <2>1 DEF Next, CourseMoves, RulesMove, AccountsMove, HistoryMoves, LoopMoves, SearchMoves, vars
    <2>2. ASSUME AccountsInv, UNCHANGED accountVars PROVE AccountsInv'
      <3>1. UNCHANGED <<users, decided, tokens, request, requests>>
        BY <2>2 DEF accountVars
      <3>2. \A x \in Slots : RequestOk(request'[x], users')
        BY <2>2, <3>1 DEF AccountsInv
      <3> QED
        BY <2>2, <3>1, <3>2, UnchangedTable DEF AccountsInv
    <2> QED
      BY <2>1, <2>2, AccountsStep
  <1> QED
    BY <1>1, <1>2, PTL DEF Spec

\* Of any names, files and requests at one time: one account per name, whatever looks for
\* the same free name, and role, quota and deletion are what an admin last made
\* them, whatever request goes on with a row it loaded before.
THEOREM AccountsAreKept == Spec => []AccountsAreDecided
  <1>1. ASSUME AccountsInv PROVE AccountsAreDecided
    <2>1. /\ Accounts!Ids = 1 .. Len(users) /\ DOMAIN decided = Accounts!Ids
          /\ DOMAIN users = 1 .. Len(users)
      BY <1>1, TableFacts DEF AccountsInv
    <2>2. Accounts!TypeOK
      BY <1>1, <2>1 DEF Accounts!TypeOK, AccountsInv, TableOk, UserRow, RequestOk, Accounts!Idle
    <2>3. Accounts!NamesAreUnique /\ Accounts!AdminDecides
      BY <1>1, <2>1 DEF Accounts!NamesAreUnique, Accounts!AdminDecides, AccountsInv, TableOk
    <2> QED
      BY <2>2, <2>3 DEF AccountsAreDecided
  <1> QED
    BY <1>1, AccountsAlways, PTL

-----------------------------------------------------------------------------
(* The research loop: budgets *)

LoopPlaces == {"start", "turn", "calling", "tools", "closing", "correcting", "checking", "done",
               "stopped"}

\* What the run counts, and that a lab without files opens no tools.
CountsInv ==
    /\ turn \in LoopPlaces /\ now \in 0 .. Loop!Over
    /\ open \in BOOLEAN /\ noDocuments \in BOOLEAN /\ mayAsk \in BOOLEAN
    /\ rows \in Nat /\ dispatched \in 0 .. rows /\ seen \in 0 .. dispatched
    /\ size \in Nat /\ checks \in Nat /\ retried \in BOOLEAN /\ readTurn \in BOOLEAN
    /\ dispatched <= MaxToolCalls /\ seen <= MaxVisualCalls
    /\ turn = "tools" => open
    /\ noDocuments => dispatched = 0 /\ (turn = "start" \/ ~open)

LEMMA LoopBounds ==
    /\ MaxToolCalls \in Nat /\ MaxVisualCalls \in Nat /\ Room \in Nat /\ First \in Nat \ {0}
    /\ Cardinality(Pieces) \in Nat /\ Nothing \notin Pieces /\ Earlier \subseteq 1 .. (First - 1)
    /\ IsFiniteSet(Pieces)
  <1>1. Loop!IsFiniteSet(Pieces) => IsFiniteSet(Pieces)
    BY DEF Loop!IsFiniteSet, IsFiniteSet
  <1>2. IsFiniteSet(Pieces)
    BY <1>1, LoopAssumption DEF Loop!LoopConstants
  <1>3. Cardinality(Pieces) \in Nat
    BY <1>2, FS_CardinalityType
  <1> QED
    BY <1>2, <1>3, LoopAssumption DEF Loop!LoopConstants

LEMMA SameCardinality == \A S : Loop!Cardinality(S) = Cardinality(S)
  BY DEF Loop!Cardinality, Cardinality, Loop!IsFiniteSet, IsFiniteSet

LEMMA SameRange == \A seq : Loop!Range(seq) = {seq[i] : i \in DOMAIN seq}
  BY DEF Loop!Range

LEMMA SameRemoval ==
    \A seq, i : Loop!RemoveAt(seq, i) = SubSeq(seq, 1, i - 1) \o SubSeq(seq, i + 1, Len(seq))
  BY DEF Loop!RemoveAt

LEMMA CountsInit == Loop!Init => CountsInv
  <1> SUFFICES ASSUME Loop!Init PROVE CountsInv
    OBVIOUS
  <1>1. /\ turn \in LoopPlaces /\ turn = "start" /\ open \in BOOLEAN /\ noDocuments \in BOOLEAN
        /\ mayAsk \in BOOLEAN /\ retried \in BOOLEAN /\ readTurn \in BOOLEAN
    BY DEF Loop!Init, LoopPlaces
  <1>2. now = 0 /\ rows = 0 /\ dispatched = 0 /\ seen = 0 /\ size = 0 /\ checks = 0
    BY DEF Loop!Init
  <1> QED
    BY <1>1, <1>2, LoopBounds DEF CountsInv, Loop!Over

\* One tool call counts once, and not beyond its limit.
LEMMA ToolsCount ==
    ASSUME CountsInv, Loop!RunTool
    PROVE  CountsInv'
  <1>1. PICK c : c = Head(pending)
    OBVIOUS
  <1>2. /\ turn = "tools" /\ UNCHANGED <<turn, now, open, noDocuments, mayAsk, size, checks,
                                        retried, readTurn>>
    BY DEF Loop!RunTool, Loop!setting, Loop!turns
  <1>3. ~noDocuments
    BY <1>2 DEF CountsInv
  <1>4. CASE UNCHANGED <<rows, dispatched, seen>>
    BY <1>2, <1>4 DEF CountsInv
  <1>5. CASE rows' = rows + 1 /\ UNCHANGED <<dispatched, seen>>
    BY <1>2, <1>5 DEF CountsInv
  <1>6. CASE /\ ~Loop!LimitError(c) /\ rows' = rows + 1 /\ dispatched' = dispatched + 1
             /\ \/ UNCHANGED seen
                \/ c.tool = "view_image" /\ seen' = seen + 1
    <2>1. rows + 1 <= MaxToolCalls /\ (c.tool = "view_image" => seen < MaxVisualCalls)
      BY <1>6, LoopBounds DEF Loop!LimitError, CountsInv
    <2> QED
      BY <1>2, <1>3, <1>6, <2>1, LoopBounds DEF CountsInv
  <1> QED
    BY <1>1, <1>4, <1>5, <1>6 DEF Loop!RunTool, Loop!budgets

LEMMA RepliesCount ==
    ASSUME CountsInv, Loop!Receive
    PROVE  CountsInv'
  <1>1. PICK r \in Loop!Replies : Loop!Reply(r)
    BY DEF Loop!Receive
  <1>2. /\ turn = "calling"
        /\ UNCHANGED <<now, open, noDocuments, mayAsk, rows, dispatched, seen>>
    BY <1>1 DEF Loop!Receive, Loop!Reply, Loop!setting, Loop!budgets
  <1>3. turn' \in LoopPlaces /\ (turn' = "tools" => open)
    BY <1>1 DEF Loop!Reply, Loop!Answered, Loop!Ends, Loop!Works, LoopPlaces
  <1>4. size' \in {size, size + 1} /\ checks' \in {checks, checks + 1}
    BY <1>1 DEF Loop!Reply, Loop!Answered
  <1>5. retried' \in {retried, TRUE} /\ readTurn' \in {readTurn, TRUE}
    BY <1>1 DEF Loop!Reply, Loop!Answered
  <1>6. size' \in Nat /\ checks' \in Nat
    BY <1>4 DEF CountsInv
  <1>7. retried' \in BOOLEAN /\ readTurn' \in BOOLEAN
    BY <1>5, Zenon DEF CountsInv
  <1> QED
    BY <1>2, <1>3, <1>6, <1>7 DEF CountsInv

LEMMA Narrower ==
    ASSUME NEW a \in BOOLEAN, NEW b, b = a \/ b = FALSE
    PROVE  b \in BOOLEAN /\ (b => a)
  <1>1. CASE b = a
    <2>1. b \in BOOLEAN
      BY <1>1
    <2>2. CASE a = TRUE
      BY <2>1, <2>2
    <2>3. CASE a = FALSE
      BY <1>1, <2>3
    <2> QED
      BY <2>1, <2>2, <2>3
  <1>2. CASE b = FALSE
    BY <1>2
  <1> QED
    BY <1>1, <1>2

LEMMA TurnsCount ==
    ASSUME CountsInv, Loop!Turn \/ Loop!CallTimesOut
    PROVE  CountsInv'
  <1>1. /\ turn \in {"turn", "calling"}
        /\ UNCHANGED <<now, noDocuments, mayAsk, rows, dispatched, seen, checks, retried, readTurn>>
    BY DEF Loop!Turn, Loop!CallTimesOut, Loop!setting, Loop!budgets, Loop!turns
  <1>2. \A stays \in BOOLEAN, length \in Nat : Loop!TimedOut(stays, length) =>
            /\ turn' \in {"turn", "closing"} /\ size' \in {length, length + 1}
            /\ open' = stays \/ open' = FALSE
    BY DEF Loop!TimedOut, Loop!Ends
  <1>3. /\ turn' \in {"turn", "calling", "closing"} /\ open' \in BOOLEAN /\ (open' => open)
        /\ size' \in Nat
    <2>1. CASE Loop!CallTimesOut
      <3>1. open \in BOOLEAN /\ size \in Nat /\ Loop!TimedOut(open, size)
        BY <2>1 DEF Loop!CallTimesOut, CountsInv
      <3>2. /\ turn' \in {"turn", "closing"} /\ size' \in {size, size + 1}
            /\ open' = open \/ open' = FALSE
        BY <1>2, <3>1
      <3>3. open' \in BOOLEAN /\ (open' => open)
        BY <3>1, <3>2, Narrower
      <3>4. size' \in Nat /\ turn' \in {"turn", "calling", "closing"}
        BY <3>1, <3>2
      <3> QED
        BY <3>3, <3>4
    <2>2. CASE Loop!Turn
      <3> DEFINE stays == open /\ rows < MaxToolCalls /\ now < Loop!ResearchOver /\ size <= Room
                 length == IF open /\ ~stays THEN size + 1 ELSE size
      <3>1. stays \in BOOLEAN /\ (stays => open) /\ length \in Nat
        BY DEF CountsInv
      <3>2. \/ turn' = "calling" /\ open' = stays /\ size' = length
            \/ Loop!TimedOut(stays, length)
        BY <2>2 DEF Loop!Turn
      <3> HIDE DEF stays, length
      <3>3. CASE turn' = "calling" /\ open' = stays /\ size' = length
        BY <3>1, <3>3
      <3>4. CASE Loop!TimedOut(stays, length)
        <4>1. /\ turn' \in {"turn", "closing"} /\ size' \in {length, length + 1}
              /\ open' = stays \/ open' = FALSE
          BY <1>2, <3>1, <3>4
        <4>2. open' \in BOOLEAN /\ (open' => open)
          BY <3>1, <4>1, Narrower
        <4>3. size' \in Nat /\ turn' \in {"turn", "calling", "closing"}
          BY <3>1, <4>1
        <4> QED
          BY <4>2, <4>3
      <3> QED
        BY <3>2, <3>3, <3>4
    <2> QED
      BY <2>1, <2>2
  <1> QED
    BY <1>1, <1>3 DEF CountsInv, LoopPlaces

LEMMA CountsStep ==
    ASSUME CountsInv, Loop!Next
    PROVE  CountsInv'
  <1>1. CASE Loop!Begin
    BY <1>1 DEF Loop!Begin, Loop!setting, Loop!budgets, Loop!turns, CountsInv, LoopPlaces
  <1>2. CASE Loop!ToolsReturned
    BY <1>2 DEF Loop!ToolsReturned, Loop!setting, Loop!budgets, Loop!turns, CountsInv, LoopPlaces
  <1>3. CASE Loop!CallFails \/ Loop!RunStopped
    BY <1>3 DEF Loop!CallFails, Loop!RunStopped, Loop!Ends, Loop!setting, Loop!budgets, Loop!turns,
                CountsInv, LoopPlaces
  <1>4. CASE Loop!Close \/ Loop!CheckAccess
    BY <1>4 DEF Loop!Close, Loop!CheckAccess, Loop!Settle, Loop!setting, Loop!budgets, Loop!turns,
                CountsInv, LoopPlaces
  <1>5. ASSUME NEW t \in Loop!Texts, Loop!Correct(t)
        PROVE  CountsInv'
    BY <1>5 DEF Loop!Correct, Loop!Corrected, Loop!Settle, Loop!setting, Loop!budgets, Loop!turns,
                CountsInv, LoopPlaces
  <1>6. CASE Loop!Tick
    BY <1>6 DEF Loop!Tick, Loop!Over, Loop!setting, Loop!budgets, Loop!turns, CountsInv, LoopPlaces
  <1>7. CASE Loop!Done
    BY <1>7 DEF Loop!Done, Loop!vars, Loop!setting, Loop!budgets, Loop!turns, CountsInv
  <1> QED
    BY <1>1, <1>2, <1>3, <1>4, <1>5, <1>6, <1>7, ToolsCount, RepliesCount, TurnsCount
       DEF Loop!Next, Loop!Step

-----------------------------------------------------------------------------
(* The research loop: what an ID names *)

LEMMA OneMore ==
    ASSUME NEW S, NEW seq \in Seq(S), NEW e \in S, NEW longer, longer = Append(seq, e)
    PROVE  /\ longer \in Seq(S) /\ Len(longer) = Len(seq) + 1 /\ longer[Len(seq) + 1] = e
           /\ \A i \in 1 .. Len(seq) : longer[i] = seq[i]
  BY AppendProperties

\* The list without its element at i.
LEMMA WithoutOne ==
    ASSUME NEW S, NEW seq \in Seq(S), NEW i \in 1 .. Len(seq)
    PROVE  LET others == SubSeq(seq, 1, i - 1) \o SubSeq(seq, i + 1, Len(seq))
           IN /\ others \in Seq(S) /\ Len(others) = Len(seq) - 1
              /\ \A j \in 1 .. Len(seq) - 1 : others[j] = IF j < i THEN seq[j] ELSE seq[j + 1]
  <1> DEFINE n == Len(seq)
             before == SubSeq(seq, 1, i - 1)
             after  == SubSeq(seq, i + 1, n)
             others == before \o after
  <1>1. n \in Nat /\ i \in Int /\ 1 <= i /\ i <= n /\ \A j \in 1 .. n : seq[j] \in S
    BY LenProperties, ElementOfSeq
  <1>2. /\ before \in Seq(S) /\ Len(before) = i - 1
        /\ \A j \in 1 .. i - 1 : before[j] = seq[j]
    <2>1. \A j \in 1 .. i - 1 : seq[j] \in S
      BY <1>1
    <2>2. i - 1 \in Int
      BY <1>1
    <2>3. /\ before \in Seq(S) /\ Len(before) = IF 1 <= i - 1 THEN (i - 1) - 1 + 1 ELSE 0
          /\ \A j \in 1 .. (i - 1) - 1 + 1 : before[j] = seq[1 + j - 1]
      BY <2>1, <2>2, SubSeqProperties
    <2> HIDE DEF before
    <2> QED
      BY <1>1, <2>3
  <1>3. /\ after \in Seq(S) /\ Len(after) = n - i
        /\ \A j \in 1 .. n - i : after[j] = seq[i + j]
    <2>1. \A j \in i + 1 .. n : seq[j] \in S
      BY <1>1
    <2>2. i + 1 \in Int /\ n \in Int
      BY <1>1
    <2>3. /\ after \in Seq(S) /\ Len(after) = IF i + 1 <= n THEN n - (i + 1) + 1 ELSE 0
          /\ \A j \in 1 .. n - (i + 1) + 1 : after[j] = seq[i + 1 + j - 1]
      BY <2>1, <2>2, SubSeqProperties
    <2>4. Len(after) = n - i
      <3> HIDE DEF after, n
      <3> QED
        BY <1>1, <2>3
    <2>5. ASSUME NEW j \in 1 .. n - i
          PROVE  after[j] = seq[i + j]
      <3>1. j \in 1 .. n - (i + 1) + 1 /\ i + 1 + j - 1 = i + j
        BY <1>1
      <3> HIDE DEF after, n
      <3> QED
        BY <2>3, <3>1
    <2> QED
      BY <2>3, <2>4, <2>5
  <1>4. /\ others \in Seq(S) /\ Len(others) = n - 1
        /\ \A j \in 1 .. n - 1 : others[j] = IF j < i THEN seq[j] ELSE seq[j + 1]
    <2> HIDE DEF before, after
    <2>1. /\ others \in Seq(S) /\ Len(others) = Len(before) + Len(after)
          /\ \A j \in 1 .. Len(before) + Len(after) :
                 others[j] = IF j <= Len(before) THEN before[j] ELSE after[j - Len(before)]
      BY <1>2, <1>3, ConcatProperties
    <2> HIDE DEF others
    <2>2. Len(before) + Len(after) = n - 1
      BY <1>1, <1>2, <1>3
    <2>3. ASSUME NEW j \in 1 .. n - 1
          PROVE  others[j] = IF j < i THEN seq[j] ELSE seq[j + 1]
      <3>1. CASE j < i
        BY <1>1, <1>2, <2>1, <2>2, <3>1
      <3>2. CASE j >= i
        <4> HIDE DEF n
        <4>1. others[j] = after[j - (i - 1)] /\ j - (i - 1) \in 1 .. n - i
          <5>1. j \in 1 .. Len(before) + Len(after) /\ ~(j <= i - 1) /\ j - (i - 1) \in 1 .. n - i
            BY <1>1, <2>2, <3>2
          <5> QED
            BY <1>2, <2>1, <5>1
        <4>2. i + (j - (i - 1)) = j + 1
          BY <1>1
        <4> QED
          BY <1>1, <1>3, <3>2, <4>1, <4>2
      <3> QED
        BY <1>1, <3>1, <3>2
    <2> QED
      BY <2>1, <2>2, <2>3
  <1> QED
    BY <1>1, <1>4

\* Where the element at j of a list of n comes from when the one at i goes to the end.
From(n, i, j) == IF j < i THEN j ELSE IF j < n THEN j + 1 ELSE i

\* The element at i moved to the end.
LEMMA MovedToEnd ==
    ASSUME NEW S, NEW seq \in Seq(S), NEW i \in 1 .. Len(seq)
    PROVE  LET moved == Append(SubSeq(seq, 1, i - 1) \o SubSeq(seq, i + 1, Len(seq)), seq[i])
           IN /\ moved \in Seq(S) /\ Len(moved) = Len(seq)
              /\ \A j \in 1 .. Len(seq) : moved[j] = seq[From(Len(seq), i, j)]
  <1>1. PICK others : others = SubSeq(seq, 1, i - 1) \o SubSeq(seq, i + 1, Len(seq))
    OBVIOUS
  <1>2. PICK n, e, moved : n = Len(seq) /\ e = seq[i] /\ moved = Append(others, e)
    OBVIOUS
  <1>3. n \in Nat /\ i \in 1 .. n /\ seq[i] \in S
    BY <1>2, LenProperties, ElementOfSeq
  <1>4. /\ others \in Seq(S) /\ Len(others) = n - 1
        /\ \A j \in 1 .. n - 1 : others[j] = IF j < i THEN seq[j] ELSE seq[j + 1]
    BY <1>1, <1>2, WithoutOne
  <1>5. others \in Seq(S) /\ Len(others) = n - 1
    BY <1>4
  <1>6. /\ moved \in Seq(S) /\ Len(moved) = (n - 1) + 1 /\ moved[(n - 1) + 1] = seq[i]
        /\ \A j \in 1 .. n - 1 : moved[j] = others[j]
    <2>1. e \in S
      BY <1>2, <1>3
    <2>2. /\ moved \in Seq(S) /\ Len(moved) = Len(others) + 1 /\ moved[Len(others) + 1] = e
          /\ \A j \in 1 .. Len(others) : moved[j] = others[j]
      BY <1>2, <1>5, <2>1, OneMore
    <2> QED
      BY <1>2, <1>5, <2>2
  <1>7. (n - 1) + 1 = n
    BY <1>3
  <1>8. ASSUME NEW j \in 1 .. n
        PROVE  moved[j] = seq[From(n, i, j)]
    <2>1. CASE j = n
      <3>1. From(n, i, j) = i
        BY <1>3, <2>1 DEF From
      <3> QED
        BY <1>6, <1>7, <2>1, <3>1
    <2>2. CASE j < n
      <3>1. j \in 1 .. n - 1
        BY <1>3, <2>2
      <3>2. moved[j] = IF j < i THEN seq[j] ELSE seq[j + 1]
        BY <1>4, <1>6, <3>1
      <3> QED
        BY <2>2, <3>2 DEF From
    <2>3. j = n \/ j < n
      BY <1>3
    <2> QED
      BY <2>1, <2>2, <2>3
  <1> QED
    BY <1>1, <1>2, <1>6, <1>7, <1>8

\* These positions are a permutation.
Permutes(n, i, g) ==
    /\ g \in [1 .. n -> 1 .. n]
    /\ \A j \in 1 .. n : g[j] = From(n, i, j)
    /\ \A j, k \in 1 .. n : j # k => g[j] # g[k]
    /\ \A k \in 1 .. n : \E j \in 1 .. n : g[j] = k

LEMMA Rotation ==
    ASSUME NEW n \in Nat, NEW i \in 1 .. n
    PROVE  \E g : Permutes(n, i, g)
  <1> DEFINE g == [j \in 1 .. n |-> From(n, i, j)]
  <1>1. g \in [1 .. n -> 1 .. n]
    BY DEF From
  <1>2. \A j \in 1 .. n : g[j] = From(n, i, j)
    OBVIOUS
  <1> HIDE DEF g
  <1>3. \A j, k \in 1 .. n : j # k => g[j] # g[k]
    BY <1>2 DEF From
  <1>4. ASSUME NEW k \in 1 .. n PROVE \E j \in 1 .. n : g[j] = k
    <2>1. CASE k < i
      BY <1>2, <2>1 DEF From
    <2>2. CASE k = i
      <3>1. n \in 1 .. n /\ From(n, i, n) = i
        BY DEF From
      <3>2. g[n] = i
        BY <1>2, <3>1
      <3> QED
        BY <2>2, <3>1, <3>2
    <2>3. CASE k > i
      <3>1. k - 1 \in 1 .. n /\ From(n, i, k - 1) = k
        BY <2>3 DEF From
      <3>2. g[k - 1] = k
        BY <1>2, <3>1
      <3> QED
        BY <3>1, <3>2
    <2> QED
      BY <2>1, <2>2, <2>3
  <1> QED
    BY <1>1, <1>2, <1>3, <1>4 DEF Permutes

\* The evidence is numbered from First, in some order, each piece once.
Entries == [id: Loop!Ids, piece: Pieces]

Numbered(list) ==
    /\ list \in Seq(Entries)
    /\ \A i \in 1 .. Len(list) : list[i].id \in First .. (First + Len(list) - 1)
    /\ \A i, j \in 1 .. Len(list) :
           i # j => list[i].id # list[j].id /\ list[i].piece # list[j].piece

\* What list names, longer names too.
Keeps(list, longer) == \A e \in Loop!Range(list) : e \in Loop!Range(longer)

LEMMA RangeKeeps ==
    ASSUME NEW S, NEW T, NEW list \in Seq(S), NEW longer \in Seq(T),
           \A i \in 1 .. Len(list) : \E j \in 1 .. Len(longer) : longer[j] = list[i]
    PROVE  Keeps(list, longer)
  <1>1. DOMAIN list = 1 .. Len(list) /\ DOMAIN longer = 1 .. Len(longer)
    BY LenProperties
  <1> QED
    BY <1>1, SameRange DEF Keeps

\* The list moved is list in another order.
Reordered(list, moved) ==
    /\ moved \in Seq(Entries) /\ Len(moved) = Len(list)
    /\ \E g \in [1 .. Len(list) -> 1 .. Len(list)] :
           /\ \A j \in 1 .. Len(list) : moved[j] = list[g[j]]
           /\ \A j, k \in 1 .. Len(list) : j # k => g[j] # g[k]
           /\ \A k \in 1 .. Len(list) : \E j \in 1 .. Len(list) : g[j] = k

LEMMA ReorderedKeeps ==
    ASSUME NEW list, Numbered(list), NEW moved, Reordered(list, moved)
    PROVE  Numbered(moved) /\ Keeps(list, moved)
  <1>1. PICK g \in [1 .. Len(list) -> 1 .. Len(list)] :
           /\ \A j \in 1 .. Len(list) : moved[j] = list[g[j]]
           /\ \A j, k \in 1 .. Len(list) : j # k => g[j] # g[k]
           /\ \A k \in 1 .. Len(list) : \E j \in 1 .. Len(list) : g[j] = k
    BY DEF Reordered
  <1>2. moved \in Seq(Entries) /\ Len(moved) = Len(list) /\ list \in Seq(Entries)
    BY DEF Reordered, Numbered
  <1>3. Numbered(moved)
    <2>1. \A j \in 1 .. Len(list) : moved[j].id \in First .. (First + Len(list) - 1)
      BY <1>1 DEF Numbered
    <2>2. ASSUME NEW j \in 1 .. Len(list), NEW k \in 1 .. Len(list), j # k
          PROVE  moved[j].id # moved[k].id /\ moved[j].piece # moved[k].piece
      <3>1. g[j] \in 1 .. Len(list) /\ g[k] \in 1 .. Len(list) /\ g[j] # g[k]
        BY <1>1, <2>2
      <3>2. moved[j] = list[g[j]] /\ moved[k] = list[g[k]]
        BY <1>1
      <3> QED
        BY <3>1, <3>2 DEF Numbered
    <2> QED
      BY <1>2, <2>1, <2>2 DEF Numbered
  <1>4. ASSUME NEW i \in 1 .. Len(list)
        PROVE  \E j \in 1 .. Len(moved) : moved[j] = list[i]
    <2>1. PICK j \in 1 .. Len(list) : g[j] = i
      BY <1>1
    <2>2. moved[j] = list[i] /\ j \in 1 .. Len(moved)
      BY <1>1, <1>2, <2>1
    <2> QED
      BY <2>2
  <1> QED
    BY <1>2, <1>3, <1>4, RangeKeeps

\* A piece that was read again keeps its number.
LEMMA TouchKeeps ==
    ASSUME NEW list, Numbered(list), NEW i \in 1 .. Len(list),
           NEW moved, moved = Append(Loop!RemoveAt(list, i), list[i])
    PROVE  Numbered(moved) /\ Keeps(list, moved)
  <1>1. list \in Seq(Entries) /\ Len(list) \in Nat
    BY LenProperties DEF Numbered
  <1>2. moved = Append(SubSeq(list, 1, i - 1) \o SubSeq(list, i + 1, Len(list)), list[i])
    BY SameRemoval
  <1>3. /\ moved \in Seq(Entries) /\ Len(moved) = Len(list)
        /\ \A j \in 1 .. Len(list) : moved[j] = list[From(Len(list), i, j)]
    BY <1>1, <1>2, MovedToEnd
  <1>4. PICK g : Permutes(Len(list), i, g)
    BY <1>1, Rotation
  <1>5. \A j \in 1 .. Len(list) : moved[j] = list[g[j]]
    BY <1>3, <1>4 DEF Permutes
  <1>6. Reordered(list, moved)
    BY <1>3, <1>4, <1>5 DEF Reordered, Permutes
  <1> QED
    BY <1>6, ReorderedKeeps

\* While a piece is missing in the list, there is a number left for it.
LEMMA NumberLeft ==
    ASSUME NEW list, Numbered(list), NEW p \in Pieces,
           \A i \in 1 .. Len(list) : list[i].piece # p
    PROVE  Len(list) < Cardinality(Pieces)
  <1>1. /\ list \in Seq(Entries) /\ Len(list) \in Nat
        /\ \A i \in 1 .. Len(list) : list[i] \in Entries
    BY LenProperties, ElementOfSeq DEF Numbered
  <1> SUFFICES ASSUME Len(list) >= Cardinality(Pieces) PROVE FALSE
    BY <1>1, LoopBounds
  <1>2. /\ IsFiniteSet(Pieces \ {p}) /\ Cardinality(Pieces \ {p}) = Cardinality(Pieces) - 1
    BY LoopBounds, FS_RemoveElement
  <1>3. IsFiniteSet(1 .. Len(list)) /\ Cardinality(1 .. Len(list)) = Len(list)
    <2>1. 1 \in Int /\ Len(list) \in Int
      BY <1>1
    <2>2. /\ IsFiniteSet(1 .. Len(list))
          /\ Cardinality(1 .. Len(list)) = IF 1 > Len(list) THEN 0 ELSE Len(list) - 1 + 1
      BY <2>1, FS_Interval
    <2> QED
      BY <1>1, <2>2
  <1>4. Cardinality(Pieces \ {p}) < Cardinality(1 .. Len(list))
    BY <1>1, <1>2, <1>3, LoopBounds
  <1> DEFINE f == [i \in 1 .. Len(list) |-> list[i].piece]
  <1>5. f \in [1 .. Len(list) -> Pieces \ {p}]
    BY <1>1 DEF Entries
  <1>6. \A i \in 1 .. Len(list) : f[i] = list[i].piece
    OBVIOUS
  <1> HIDE DEF f
  <1>7. \E i, j \in 1 .. Len(list) : i # j /\ f[i] = f[j]
    BY <1>2, <1>3, <1>4, <1>5, FS_PigeonHole
  <1> QED
    BY <1>6, <1>7 DEF Numbered

\* A piece read for the first time gets the next number.
LEMMA NewSourceKeeps ==
    ASSUME NEW list, Numbered(list), NEW p \in Pieces,
           \A i \in 1 .. Len(list) : list[i].piece # p,
           NEW longer, longer = Append(list, [id |-> First + Len(list), piece |-> p])
    PROVE  Numbered(longer) /\ Keeps(list, longer)
  <1>1. list \in Seq(Entries) /\ Len(list) \in Nat
    BY LenProperties DEF Numbered
  <1>2. First + Len(list) \in Loop!Ids
    BY <1>1, NumberLeft, LoopBounds, SameCardinality DEF Loop!Ids
  <1>3. [id |-> First + Len(list), piece |-> p] \in Entries
    BY <1>2 DEF Entries
  <1>4. /\ longer \in Seq(Entries) /\ Len(longer) = Len(list) + 1
        /\ longer[Len(list) + 1] = [id |-> First + Len(list), piece |-> p]
        /\ \A i \in 1 .. Len(list) : longer[i] = list[i]
    BY <1>1, <1>3, OneMore
  <1>5. /\ longer[Len(list) + 1].id = First + Len(list)
        /\ longer[Len(list) + 1].piece = p
    BY <1>4
  <1>6. /\ \A i \in 1 .. Len(longer) : i \in 1 .. Len(list) \/ i = Len(list) + 1
        /\ \A i \in 1 .. Len(list) : i \in 1 .. Len(longer)
    BY <1>1, <1>4
  <1>7. Numbered(longer)
    <2>1. ASSUME NEW i \in 1 .. Len(longer)
          PROVE  longer[i].id \in First .. (First + Len(longer) - 1)
      <3>1. CASE i \in 1 .. Len(list)
        <4>1. list[i].id \in First .. (First + Len(list) - 1)
          BY <3>1 DEF Numbered
        <4> QED
          BY <1>1, <1>4, <3>1, <4>1, LoopBounds
      <3>2. CASE i = Len(list) + 1
        BY <1>1, <1>4, <1>5, <3>2, LoopBounds
      <3> QED
        BY <1>6, <3>1, <3>2
    <2>2. ASSUME NEW i \in 1 .. Len(list)
          PROVE  /\ longer[i].id # longer[Len(list) + 1].id
                 /\ longer[i].piece # longer[Len(list) + 1].piece
      <3>1. list[i].id \in First .. (First + Len(list) - 1)
        BY DEF Numbered
      <3>2. list[i].id # First + Len(list)
        BY <1>1, <3>1, LoopBounds
      <3> QED
        BY <1>4, <1>5, <3>2
    <2>3. ASSUME NEW i \in 1 .. Len(list), NEW j \in 1 .. Len(list), i # j
          PROVE  longer[i].id # longer[j].id /\ longer[i].piece # longer[j].piece
      BY <1>4, <2>3 DEF Numbered
    <2>4. ASSUME NEW i \in 1 .. Len(longer), NEW j \in 1 .. Len(longer), i # j
          PROVE  longer[i].id # longer[j].id /\ longer[i].piece # longer[j].piece
      BY <1>6, <2>2, <2>3, <2>4
    <2> QED
      BY <1>4, <2>1, <2>4 DEF Numbered
  <1>8. \A i \in 1 .. Len(list) : \E j \in 1 .. Len(longer) : longer[j] = list[i]
    BY <1>4, <1>6
  <1> QED
    BY <1>1, <1>4, <1>7, <1>8, RangeKeeps

LEMMA AddingKeeps ==
    ASSUME Numbered(evidence), NEW p \in Pieces
    PROVE  Numbered(Loop!AddEvidence(p)) /\ Keeps(evidence, Loop!AddEvidence(p))
  <1>1. /\ DOMAIN evidence = 1 .. Len(evidence)
        /\ Loop!Range(evidence) = {evidence[i] : i \in DOMAIN evidence}
    BY LenProperties, SameRange DEF Numbered
  <1>2. CASE \E e \in Loop!Range(evidence) : e.piece = p
    <2> DEFINE i == CHOOSE i \in DOMAIN evidence : evidence[i].piece = p
    <2>1. i \in 1 .. Len(evidence)
      BY <1>1, <1>2
    <2>2. Loop!AddEvidence(p) = Append(Loop!RemoveAt(evidence, i), evidence[i])
      BY <1>2 DEF Loop!AddEvidence
    <2> HIDE DEF i
    <2> QED
      BY <2>1, <2>2, TouchKeeps
  <1>3. CASE ~\E e \in Loop!Range(evidence) : e.piece = p
    <2>1. \A i \in 1 .. Len(evidence) : evidence[i].piece # p
      BY <1>1, <1>3
    <2>2. Loop!AddEvidence(p) = Append(evidence, [id |-> First + Len(evidence), piece |-> p])
      BY <1>3 DEF Loop!AddEvidence
    <2> QED
      BY <2>1, <2>2, NewSourceKeeps
  <1> QED
    BY <1>2, <1>3

\* What the loop has gathered and still has to execute.
SourcesInv == Numbered(evidence) /\ pending \in Seq(Loop!Calls)

LEMMA SourcesInit == Loop!Init => SourcesInv
  <1> SUFFICES ASSUME Loop!Init PROVE SourcesInv
    OBVIOUS
  <1>1. evidence = <<>> /\ pending = <<>>
    BY DEF Loop!Init
  <1>2. <<>> \in Seq(Entries) /\ <<>> \in Seq(Loop!Calls) /\ Len(<<>>) = 0
    BY EmptySeq
  <1>3. \A i \in 1 .. Len(<<>>) : FALSE
    BY <1>2
  <1> QED
    BY <1>1, <1>2, <1>3, Zenon DEF SourcesInv, Numbered

LEMMA ToolsRead ==
    ASSUME SourcesInv, Loop!RunTool
    PROVE  SourcesInv' /\ Loop!KeepsIds
  <1>1. PICK c : c = Head(pending)
    OBVIOUS
  <1>2. pending \in Seq(Loop!Calls) /\ pending # <<>> /\ pending' = Tail(pending)
    BY DEF SourcesInv, Loop!RunTool
  <1>3. c \in Loop!Calls /\ pending' \in Seq(Loop!Calls)
    BY <1>1, <1>2, HeadTailProperties
  <1>4. c.of = Nothing \/ c.of \in Pieces
    BY <1>3 DEF Loop!Calls
  <1>5. \/ evidence' = evidence
        \/ c.of # Nothing /\ evidence' = Loop!AddEvidence(c.of)
    BY <1>1 DEF Loop!RunTool
  <1>6. CASE evidence' = evidence
    BY <1>3, <1>6 DEF SourcesInv, Loop!KeepsIds, Numbered
  <1>7. CASE c.of # Nothing /\ evidence' = Loop!AddEvidence(c.of)
    <2>1. Numbered(evidence') /\ Keeps(evidence, evidence')
      BY <1>4, <1>7, AddingKeeps DEF SourcesInv
    <2>2. SourcesInv'
      BY <1>3, <2>1 DEF SourcesInv, Numbered
    <2> QED
      BY <2>1, <2>2, SameRange DEF Keeps, Loop!KeepsIds
  <1> QED
    BY <1>5, <1>6, <1>7

LEMMA RepliesPend ==
    ASSUME SourcesInv, Loop!Receive
    PROVE  SourcesInv' /\ evidence' = evidence
  <1>1. PICK r \in Loop!Replies : Loop!Reply(r)
    BY DEF Loop!Receive
  <1>2. r.calls \in Seq(Loop!Calls)
    <2>1. r.calls = <<>> \/ r.calls \in Loop!ToolTurns
      BY DEF Loop!Replies
    <2>2. \A c, d \in Loop!Calls : <<c>> \in Seq(Loop!Calls) /\ <<c, d>> \in Seq(Loop!Calls)
      OBVIOUS
    <2>3. <<>> \in Seq(Loop!Calls)
      BY EmptySeq
    <2>4. ASSUME r.calls \in Loop!ToolTurns PROVE r.calls \in Seq(Loop!Calls)
      <3>1. \/ \E c \in Loop!Calls : r.calls = <<c>>
            \/ \E c, d \in Loop!Calls : r.calls = <<c, d>>
        BY <2>4 DEF Loop!ToolTurns
      <3> QED
        BY <2>2, <3>1
    <2> QED
      BY <2>1, <2>3, <2>4
  <1>3. evidence' = evidence /\ (pending' = pending \/ pending' = r.calls)
    BY <1>1 DEF Loop!Reply, Loop!Answered
  <1> QED
    BY <1>2, <1>3 DEF SourcesInv, Numbered

LEMMA SourcesStep ==
    ASSUME SourcesInv, Loop!Next
    PROVE  SourcesInv' /\ Loop!KeepsIds
  <1>1. CASE UNCHANGED <<evidence, pending>>
    BY <1>1 DEF SourcesInv, Numbered, Loop!KeepsIds
  <1>2. CASE Loop!Receive
    BY <1>2, RepliesPend DEF Loop!KeepsIds
  <1>3. CASE Loop!RunTool
    BY <1>3, ToolsRead
  <1>4. CASE Loop!Begin \/ Loop!Turn \/ Loop!ToolsReturned \/ Loop!CallTimesOut \/ Loop!CallFails
    BY <1>1, <1>4 DEF Loop!Begin, Loop!Turn, Loop!ToolsReturned, Loop!CallTimesOut, Loop!CallFails
  <1>5. CASE Loop!Close \/ Loop!CheckAccess \/ Loop!RunStopped \/ Loop!Tick \/ Loop!Done
    BY <1>1, <1>5 DEF Loop!Close, Loop!CheckAccess, Loop!RunStopped, Loop!Tick, Loop!Done, Loop!vars
  <1>6. CASE \E t \in Loop!Texts : Loop!Correct(t)
    BY <1>1, <1>6 DEF Loop!Correct
  <1> QED
    BY <1>2, <1>3, <1>4, <1>5, <1>6 DEF Loop!Next, Loop!Step

-----------------------------------------------------------------------------
(* The research loop: the answer *)

\* The loop ended with an answer that may stand as it is.
Good == Loop!Usable(offered) /\ offered.cited \subseteq Loop!Permitted

\* Until the loop ends there is no answer; what is closed is what it ended with, what
\* is corrected is that with its references repaired, and what was settled cites
\* permitted IDs and replaced no good answer.
TextInv ==
    /\ answer \in Loop!Text /\ stop \in Loop!Stops /\ partial \in BOOLEAN
    /\ unchecked \in Loop!Text \cup {Loop!NoText} /\ offered \in Loop!Text \cup {Loop!NoText}
    /\ turn \in {"start", "turn", "calling", "tools"} => answer = Loop!Empty /\ partial = FALSE
    /\ turn = "closing" => offered = answer /\ partial = FALSE
    /\ turn = "correcting" => /\ offered \in Loop!Text /\ answer = Loop!Repaired(offered)
                              /\ partial = FALSE
    /\ turn \in {"checking", "done"} =>
           answer.cited \subseteq Loop!Permitted /\ (partial = FALSE \/ ~Good)

LEMMA TextFacts ==
    /\ Loop!Empty \in Loop!Text /\ Loop!Empty.cited = {} /\ Loop!Empty.kind = "empty"
    /\ \A c \in SUBSET Loop!Ids : /\ Loop!Prose(c, Loop!NoOdd) \in Loop!Text
                                  /\ Loop!Prose(c, Loop!NoOdd).cited = c
    /\ Loop!Texts \subseteq Loop!Text
    /\ Loop!NoText \notin Loop!Text
  <1>1. /\ Loop!Empty \in Loop!Text /\ Loop!Empty.cited = {} /\ Loop!Empty.kind = "empty"
    BY DEF Loop!Empty, Loop!Plain, Loop!Text
  <1>2. ASSUME NEW c \in SUBSET Loop!Ids, NEW o \in Loop!Ids \cup {0, Loop!NoOdd}
        PROVE  Loop!Prose(c, o) \in Loop!Text /\ Loop!Prose(c, o).cited = c
    BY DEF Loop!Prose, Loop!Text
  <1>3. Loop!Plain("markup") \in Loop!Text /\ Loop!Plain("done") \in Loop!Text
    BY DEF Loop!Plain, Loop!Text
  <1>4. First \in Loop!Ids \cup {0, Loop!NoOdd}
    BY LoopBounds, SameCardinality DEF Loop!Ids, Loop!NoOdd
  <1>5. ASSUME NEW c \in {{}} \cup {{i} : i \in Loop!Ids}, NEW o \in {Loop!NoOdd, First}
        PROVE  Loop!Prose(c, o) \in Loop!Text
    <2>1. c \in SUBSET Loop!Ids
      OBVIOUS
    <2>2. o \in Loop!Ids \cup {0, Loop!NoOdd}
      BY <1>4
    <2> QED
      BY <1>2, <2>1, <2>2
  <1>6. Loop!Texts \subseteq Loop!Text
    BY <1>1, <1>3, <1>5 DEF Loop!Texts
  <1>7. Loop!NoText \notin Loop!Text
    <2>1. Loop!NoText.kind = "none"
      BY DEF Loop!NoText, Loop!Plain
    <2>2. \A t \in Loop!Text : t.kind \in {"empty", "markup", "done", "prose"}
      BY DEF Loop!Text
    <2> QED
      BY <2>1, <2>2
  <1> QED
    BY <1>1, <1>2, <1>6, <1>7

LEMMA PermittedFacts ==
    ASSUME Numbered(evidence)
    PROVE  /\ Loop!Found \subseteq Loop!Ids /\ Loop!Permitted \subseteq Loop!Ids
           /\ Loop!Found \subseteq Loop!Permitted
  <1>1. \A e \in Loop!Range(evidence) : e \in Entries
    BY SameRange, LenProperties DEF Numbered
  <1>2. Loop!Found \subseteq Loop!Ids
    BY <1>1 DEF Loop!Found, Entries
  <1> QED
    BY <1>2 DEF Loop!Permitted, Loop!Ids

LEMMA RepairFacts ==
    ASSUME Numbered(evidence), NEW t \in Loop!Text
    PROVE  /\ Loop!Repaired(t) \in Loop!Text /\ Loop!Repaired(t).kind = t.kind
           /\ t.cited \subseteq Loop!Permitted => Loop!Repaired(t).cited \subseteq Loop!Permitted
  <1>1. CASE t.odd \in Loop!Permitted
    <2>1. Loop!Repaired(t) = [t EXCEPT !.cited = @ \cup {t.odd}, !.odd = Loop!NoOdd]
      BY <1>1 DEF Loop!Repaired
    <2>2. t.odd \in Loop!Ids
      BY <1>1, PermittedFacts
    <2> HIDE DEF Loop!NoOdd
    <2>3. /\ Loop!Repaired(t) \in Loop!Text /\ Loop!Repaired(t).kind = t.kind
          /\ Loop!Repaired(t).cited = t.cited \cup {t.odd}
      BY <2>1, <2>2 DEF Loop!Text
    <2> QED
      BY <1>1, <2>3
  <1>2. CASE t.odd \notin Loop!Permitted
    BY <1>2 DEF Loop!Repaired
  <1> QED
    BY <1>1, <1>2

LEMMA SamePermitted ==
    ASSUME evidence' = evidence
    PROVE  Loop!Permitted' = Loop!Permitted /\ Loop!Found' = Loop!Found
  BY DEF Loop!Permitted, Loop!Found, Loop!Range

LEMMA TextInit == Loop!Init => TextInv
  <1> SUFFICES ASSUME Loop!Init PROVE TextInv
    OBVIOUS
  <1>1. /\ turn = "start" /\ answer = Loop!Empty /\ stop = "budget_exhausted" /\ partial = FALSE
        /\ unchecked = Loop!NoText /\ offered = Loop!NoText
    BY DEF Loop!Init
  <1> QED
    BY <1>1, TextFacts DEF TextInv, Loop!Stops

\* What is settled is usable and cites permitted IDs, or is a list of the pages read
\* that replaces no good answer.
LEMMA SettlesWell ==
    ASSUME Numbered(evidence), TextInv, evidence' = evidence, partial = FALSE,
           UNCHANGED <<offered, unchecked>>,
           NEW t \in Loop!Text, NEW why \in Loop!Stops, Loop!Settle(t, why),
           Loop!Usable(t) => t.cited \subseteq Loop!Permitted,
           Loop!Usable(t) \/ ~Good
    PROVE  TextInv'
  <1>1. Loop!Permitted' = Loop!Permitted /\ Good' = Good
    BY SamePermitted DEF Good, Loop!Usable
  <1>2. turn' = "checking"
    BY DEF Loop!Settle
  <1>3. CASE Loop!Usable(t)
    <2>1. answer' = t /\ stop' = why /\ partial' = FALSE
      BY <1>3 DEF Loop!Settle
    <2> QED
      BY <1>1, <1>2, <1>3, <2>1 DEF TextInv
  <1>4. CASE ~Loop!Usable(t)
    <2>1. /\ answer' = Loop!Prose(Loop!Found, Loop!NoOdd) /\ partial' = TRUE
          /\ stop' = "no_answer" \/ stop' = why
      BY <1>4 DEF Loop!Settle
    <2>2. answer' \in Loop!Text /\ answer'.cited = Loop!Found
      BY <2>1, PermittedFacts, TextFacts
    <2>3. stop' \in Loop!Stops
      BY <2>1 DEF Loop!Stops
    <2>4. Loop!Found \subseteq Loop!Permitted
      BY PermittedFacts
    <2> QED
      BY <1>1, <1>2, <1>4, <2>1, <2>2, <2>3, <2>4 DEF TextInv
  <1> QED
    BY <1>3, <1>4

LEMMA CloseTexts ==
    ASSUME Numbered(evidence), TextInv, Loop!Close
    PROVE  TextInv'
  <1> DEFINE t == Loop!Repaired(answer)
  <1>1. /\ turn = "closing" /\ offered = answer /\ partial = FALSE /\ answer \in Loop!Text
        /\ stop \in Loop!Stops
    BY DEF Loop!Close, TextInv
  <1>2. evidence' = evidence /\ UNCHANGED <<offered, unchecked>>
    BY DEF Loop!Close, Loop!turns
  <1>3. /\ t \in Loop!Text /\ t.kind = answer.kind
        /\ answer.cited \subseteq Loop!Permitted => t.cited \subseteq Loop!Permitted
    BY <1>1, RepairFacts
  <1>4. \/ turn' = "correcting" /\ answer' = t /\ stop' = stop /\ partial' = partial
        \/ /\ Loop!Settle(t, stop)
           /\ t.kind = "empty" \/ t.cited \subseteq Loop!Permitted
    BY DEF Loop!Close
  <1> HIDE DEF t
  <1>5. CASE turn' = "correcting" /\ answer' = t /\ stop' = stop /\ partial' = partial
    <2>1. answer' = Loop!Repaired(offered)'
      BY <1>1, <1>2, <1>5, SamePermitted DEF t, Loop!Repaired
    <2> QED
      BY <1>1, <1>2, <1>3, <1>5, <2>1 DEF TextInv
  <1>6. CASE Loop!Settle(t, stop) /\ (t.kind = "empty" \/ t.cited \subseteq Loop!Permitted)
    <2>1. Loop!Usable(t) => t.cited \subseteq Loop!Permitted
      BY <1>6 DEF Loop!Usable
    <2>2. Loop!Usable(t) \/ ~Good
      BY <1>1, <1>3 DEF Loop!Usable, Good
    <2> QED
      BY <1>1, <1>2, <1>3, <1>6, <2>1, <2>2, SettlesWell
  <1> QED
    BY <1>4, <1>5, <1>6

\* A correction replaces the answer only with permitted IDs, and a good answer stands.
LEMMA CorrectTexts ==
    ASSUME Numbered(evidence), TextInv, NEW t \in Loop!Texts, Loop!Correct(t)
    PROVE  TextInv'
  <1>1. /\ turn = "correcting" /\ partial = FALSE /\ offered \in Loop!Text
        /\ answer = Loop!Repaired(offered) /\ answer \in Loop!Text /\ stop \in Loop!Stops
    BY DEF Loop!Correct, TextInv
  <1>2. evidence' = evidence /\ UNCHANGED <<offered, unchecked>>
    BY DEF Loop!Correct, Loop!turns
  <1>3. /\ answer.kind = offered.kind
        /\ offered.cited \subseteq Loop!Permitted => answer.cited \subseteq Loop!Permitted
    BY <1>1, RepairFacts
  <1>4. t \in Loop!Text
    BY TextFacts
  <1>5. PICK text, why :
            /\ Loop!Settle(text, why)
            /\ \/ text = t /\ Loop!Usable(t) /\ t.cited \subseteq Loop!Permitted
               \/ text = answer /\ answer.cited \subseteq Loop!Permitted
               \/ text = Loop!Empty /\ ~(answer.cited \subseteq Loop!Permitted)
            /\ why = stop \/ why = "invalid_evidence_ids"
    BY DEF Loop!Correct, Loop!Corrected
  <1>6. why \in Loop!Stops
    BY <1>1, <1>5 DEF Loop!Stops
  <1>7. text \in Loop!Text
    BY <1>1, <1>4, <1>5, TextFacts
  <1>8. Loop!Usable(text) => text.cited \subseteq Loop!Permitted
    BY <1>5, TextFacts DEF Loop!Usable
  <1>9. Loop!Usable(text) \/ ~Good
    BY <1>1, <1>3, <1>5 DEF Loop!Usable, Good
  <1> QED
    BY <1>1, <1>2, <1>5, <1>6, <1>7, <1>8, <1>9, SettlesWell

\* The loop ends with a text of the model, or without an answer.
LEMMA EndTexts ==
    ASSUME TextInv, NEW text \in Loop!Text, NEW why \in Loop!Stops, Loop!Ends(text, why),
           partial' = FALSE, unchecked' \in Loop!Text \cup {Loop!NoText}
    PROVE  TextInv'
  BY DEF TextInv, Loop!Ends

LEMMA CallsTexts ==
    ASSUME TextInv, Loop!Turn \/ Loop!CallTimesOut \/ Loop!CallFails
    PROVE  TextInv'
  <1>1. /\ turn \in {"turn", "calling"} /\ unchecked' = unchecked
        /\ answer \in Loop!Text /\ partial = FALSE /\ unchecked \in Loop!Text \cup {Loop!NoText}
        /\ Loop!checking => unchecked \in Loop!Text
    BY DEF Loop!Turn, Loop!CallTimesOut, Loop!CallFails, Loop!turns, Loop!checking, TextInv
  <1>2. {"finished", "deadline_exceeded", "model_unavailable"} \subseteq Loop!Stops
    BY DEF Loop!Stops
  <1>3. \/ turn' \in {"turn", "calling"} /\ UNCHANGED <<answer, stop, partial, offered>>
        \/ /\ \/ Loop!checking /\ Loop!Ends(unchecked, "finished")
              \/ Loop!Ends(answer, "deadline_exceeded")
              \/ Loop!Ends(answer, "model_unavailable")
           /\ UNCHANGED partial
    BY DEF Loop!Turn, Loop!CallTimesOut, Loop!CallFails, Loop!TimedOut, Loop!result
  <1>4. CASE turn' \in {"turn", "calling"} /\ UNCHANGED <<answer, stop, partial, offered>>
    BY <1>1, <1>4 DEF TextInv
  <1>5. CASE UNCHANGED partial /\ Loop!checking /\ Loop!Ends(unchecked, "finished")
    BY <1>1, <1>2, <1>5, EndTexts
  <1>6. ASSUME UNCHANGED partial, NEW why \in Loop!Stops, Loop!Ends(answer, why)
        PROVE  TextInv'
    BY <1>1, <1>6, EndTexts
  <1> QED
    BY <1>2, <1>3, <1>4, <1>5, <1>6

LEMMA RepliesText ==
    ASSUME TextInv, Loop!Receive
    PROVE  TextInv'
  <1>1. PICK r \in Loop!Replies : Loop!Reply(r)
    BY DEF Loop!Receive
  <1>2. r.text \in Loop!Text
    <2>1. r.text \in Loop!Texts \/ r.text \in {Loop!Empty, Loop!Prose({}, Loop!NoOdd)}
      BY DEF Loop!Replies
    <2> QED
      BY <2>1, TextFacts
  <1>3. /\ turn = "calling" /\ evidence' = evidence
        /\ answer \in Loop!Text /\ answer = Loop!Empty /\ partial = FALSE /\ stop \in Loop!Stops
        /\ unchecked \in Loop!Text \cup {Loop!NoText}
        /\ Loop!checking => unchecked \in Loop!Text
    BY <1>1 DEF Loop!Receive, Loop!Reply, Loop!checking, TextInv
  <1>4. {"finished", "no_documents", "budget_exhausted", "clarification"} \subseteq Loop!Stops
    BY DEF Loop!Stops
  <1>5. /\ unchecked' \in {unchecked, Loop!NoText, r.text}
        /\ \/ turn' \in {"turn", "tools"} /\ UNCHANGED <<answer, stop, partial, offered>>
           \/ turn' = "done" /\ stop' = "clarification" /\ UNCHANGED <<answer, partial, offered>>
           \/ Loop!checking /\ Loop!Ends(unchecked, "finished") /\ UNCHANGED partial
           \/ Loop!Ends(r.text, Loop!FinishedAs) /\ UNCHANGED partial
    BY <1>1 DEF Loop!Reply, Loop!Answered, Loop!Keeps, Loop!result
  <1>6. unchecked' \in Loop!Text \cup {Loop!NoText}
    BY <1>2, <1>3, <1>5
  <1>7. CASE turn' \in {"turn", "tools"} /\ UNCHANGED <<answer, stop, partial, offered>>
    BY <1>3, <1>6, <1>7 DEF TextInv
  <1>8. CASE turn' = "done" /\ stop' = "clarification" /\ UNCHANGED <<answer, partial, offered>>
    BY <1>3, <1>4, <1>6, <1>8, TextFacts DEF TextInv
  <1>9. CASE Loop!checking /\ Loop!Ends(unchecked, "finished") /\ UNCHANGED partial
    BY <1>3, <1>4, <1>6, <1>9, EndTexts
  <1>10. CASE Loop!Ends(r.text, Loop!FinishedAs) /\ UNCHANGED partial
    <2>1. Loop!FinishedAs \in Loop!Stops
      BY <1>4 DEF Loop!FinishedAs
    <2> QED
      BY <1>2, <1>3, <1>6, <1>10, <2>1, EndTexts
  <1> QED
    BY <1>5, <1>7, <1>8, <1>9, <1>10

LEMMA TextStep ==
    ASSUME Numbered(evidence), TextInv, Loop!Next
    PROVE  TextInv'
  <1>1. CASE /\ turn \in {"start", "tools"} /\ turn' \in {"turn", "tools"}
             /\ UNCHANGED <<unchecked, answer, stop, partial, offered>>
    BY <1>1 DEF TextInv
  <1>2. CASE Loop!Begin \/ Loop!RunTool \/ Loop!ToolsReturned
    BY <1>1, <1>2 DEF Loop!Begin, Loop!RunTool, Loop!ToolsReturned, Loop!turns, Loop!result
  <1>3. CASE turn' = "stopped" /\ UNCHANGED <<unchecked, answer, stop, partial, offered>>
    BY <1>3 DEF TextInv
  <1>4. CASE Loop!RunStopped
    BY <1>3, <1>4 DEF Loop!RunStopped, Loop!turns, Loop!result
  <1>5. CASE UNCHANGED <<turn, evidence, unchecked, answer, stop, partial, offered>>
    <2>1. Loop!Permitted' = Loop!Permitted /\ Good' = Good
      BY <1>5, SamePermitted DEF Good, Loop!Usable
    <2>2. turn = "correcting" => Loop!Repaired(offered)' = Loop!Repaired(offered)
      BY <1>5, <2>1 DEF Loop!Repaired
    <2> QED
      BY <1>5, <2>1, <2>2 DEF TextInv
  <1>6. CASE Loop!Tick \/ Loop!Done
    BY <1>5, <1>6 DEF Loop!Tick, Loop!Done, Loop!turns, Loop!result, Loop!vars
  <1>7. CASE Loop!CheckAccess
    <2>1. /\ turn = "checking" /\ turn' = "done" /\ evidence' = evidence
          /\ UNCHANGED <<unchecked, partial, offered>>
          /\ \/ UNCHANGED <<answer, stop>>
             \/ answer' = Loop!Empty /\ stop' = "access_revoked"
      BY <1>7 DEF Loop!CheckAccess, Loop!turns, Loop!result
    <2>2. Loop!Permitted' = Loop!Permitted /\ Good' = Good
      BY <2>1, SamePermitted DEF Good, Loop!Usable
    <2>3. CASE UNCHANGED <<answer, stop>>
      BY <2>1, <2>2, <2>3 DEF TextInv
    <2>4. CASE answer' = Loop!Empty /\ stop' = "access_revoked"
      BY <2>1, <2>2, <2>4, TextFacts DEF TextInv, Loop!Stops
    <2> QED
      BY <2>1, <2>3, <2>4
  <1> QED
    BY <1>2, <1>4, <1>6, <1>7, CloseTexts, CorrectTexts, CallsTexts, RepliesText
       DEF Loop!Next, Loop!Step

-----------------------------------------------------------------------------
(* The research loop: the theorem *)

LoopInv == CountsInv /\ SourcesInv /\ TextInv

LEMMA LoopMovesAlone ==
    ASSUME [Next]_vars
    PROVE  \/ part = "loop" /\ Loop!Next
           \/ UNCHANGED loopVars
  BY DEF Next, CourseMoves, RulesMove, AccountsMove, HistoryMoves, LoopMoves, SearchMoves, vars

LEMMA LoopStays ==
    ASSUME LoopInv, UNCHANGED loopVars
    PROVE  LoopInv'
  <1>1. CountsInv'
    BY DEF loopVars, LoopInv, CountsInv
  <1>2. SourcesInv'
    BY DEF loopVars, LoopInv, SourcesInv, Numbered
  <1>3. Loop!Permitted' = Loop!Permitted /\ Good' = Good
    BY SamePermitted DEF loopVars, Good, Loop!Usable
  <1>4. turn = "correcting" => Loop!Repaired(offered)' = Loop!Repaired(offered)
    BY <1>3 DEF loopVars, Loop!Repaired
  <1>5. TextInv'
    BY <1>3, <1>4 DEF loopVars, LoopInv, TextInv
  <1> QED
    BY <1>1, <1>2, <1>5 DEF LoopInv

LEMMA LoopAlways == Spec => []LoopInv
  <1>1. Init => LoopInv
    BY CountsInit, SourcesInit, TextInit DEF Init, LoopInv
  <1>2. LoopInv /\ [Next]_vars => LoopInv'
    <2>1. ASSUME LoopInv, Loop!Next PROVE LoopInv'
      BY <2>1, CountsStep, SourcesStep, TextStep DEF LoopInv, SourcesInv
    <2> QED
      BY <2>1, LoopMovesAlone, LoopStays
  <1> QED
    BY <1>1, <1>2, PTL DEF Spec

\* Of any documents, budgets and replies of the model: a run stays in its budgets, an
\* ID names one source, an answer cites only what was read or earlier sources,
\* and a good answer is not lost.
THEOREM AnswersHaveSources == Spec => []AnswersStandOnEvidence
  <1>1. ASSUME LoopInv PROVE AnswersStandOnEvidence
    <2>1. Loop!TypeOK
      BY <1>1 DEF LoopInv, CountsInv, SourcesInv, TextInv, Numbered, Entries, LoopPlaces,
                  Loop!TypeOK
    <2>2. Loop!BudgetsHold
      BY <1>1 DEF LoopInv, CountsInv, Loop!BudgetsHold
    <2>3. Loop!IdsNameOneSource
      <3>1. DOMAIN evidence = 1 .. Len(evidence) /\ Len(evidence) \in Nat
        BY <1>1, LenProperties DEF LoopInv, SourcesInv, Numbered
      <3>2. \A e \in Loop!Range(evidence) : e.id >= First
        BY <1>1, <3>1, SameRange, LoopBounds DEF LoopInv, SourcesInv, Numbered
      <3>3. \A id \in Loop!Found : id >= First
        BY <3>2 DEF Loop!Found
      <3>4. \A id \in Earlier : ~(id >= First)
        BY LoopBounds
      <3>5. Loop!Found \cap Earlier = {}
        BY <3>3, <3>4
      <3> QED
        BY <1>1, <3>1, <3>5 DEF LoopInv, SourcesInv, Numbered, Loop!IdsNameOneSource
    <2>4. Loop!CitesOnlySources /\ Loop!GoodAnswersArrive
      BY <1>1 DEF LoopInv, TextInv, Good, Loop!CitesOnlySources, Loop!GoodAnswersArrive
    <2> QED
      BY <2>1, <2>2, <2>3, <2>4 DEF AnswersStandOnEvidence
  <1> QED
    BY <1>1, LoopAlways, PTL

-----------------------------------------------------------------------------
(* What a new prompt repeats of a conversation *)

Read == History!Sources

AnswerRows ==
    [by : {"model"}, kind : {"legacy", "answer", "asked"}, number : Nat, cites : SUBSET Read,
     snapshot : SUBSET Read, tells : SUBSET Read]
MessageRows == {History!Question(n) : n \in Nat} \cup AnswerRows

LEMMA QuestionsAreRows ==
    ASSUME NEW n
    PROVE  /\ History!Question(n).by = "student" /\ History!Question(n).number = n
           /\ History!Question(n).tells = {} /\ History!Question(n).cites = {}
           /\ History!Question(n).snapshot = {}
           /\ n \in Nat => History!Question(n) \in MessageRows
  BY DEF History!Question, MessageRows

LEMMA RowsAreOfSomebody ==
    ASSUME NEW m \in MessageRows
    PROVE  /\ m.by \in {"student", "model"} /\ m.number \in Nat
           /\ m.by = "student" => m = History!Question(m.number)
           /\ m.by = "model" => m \in AnswerRows
           /\ m.cites \subseteq Read /\ m.tells \subseteq Read /\ m.snapshot \subseteq Read
  <1>1. CASE m \in AnswerRows
    BY <1>1 DEF AnswerRows
  <1>2. CASE m \in {History!Question(n) : n \in Nat}
    <2>1. PICK n \in Nat : m = History!Question(n)
      BY <1>2
    <2> QED
      BY <2>1, QuestionsAreRows
  <1> QED
    BY <1>1, <1>2 DEF MessageRows

\* Questions are numbered, each answer follows its question.
Ordered(chats) ==
    /\ chats \in Seq(MessageRows)
    /\ \A i, j \in DOMAIN chats :
           chats[i].by = "student" /\ chats[j].by = "student" /\ i # j => chats[i].number # chats[j].number

AfterTheirQuestions(chats) ==
    \A i \in DOMAIN chats : i > 1 /\ chats[i].by = "model" => chats[i - 1] = History!Question(chats[i].number)

\* What the answers that cite may have passed on beside their citations.
Passed(chats) ==
    {s \in Read : \E i \in DOMAIN chats : chats[i].cites # {} /\ s \in chats[i].tells \ chats[i].cites}

\* An answer without citations tells what students read when its scope was taken, and
\* what was passed on to it; a question back tells nothing.
Honest(m, chats) ==
    m.kind # "legacy" /\ m.cites = {} =>
        m.tells \subseteq IF m.kind = "asked" THEN {} ELSE m.snapshot \cup Passed(chats)

AllHonest(chats) == \A i \in DOMAIN chats : Honest(chats[i], chats)

\* What was passed on stays so.
LEMMA PassedGrows ==
    ASSUME NEW chats \in Seq(MessageRows), NEW m \in MessageRows
    PROVE  Passed(chats) \subseteq Passed(Append(chats, m))
  <1>1. \A i \in DOMAIN chats : i \in DOMAIN Append(chats, m) /\ Append(chats, m)[i] = chats[i]
    OBVIOUS
  <1> QED
    BY <1>1 DEF Passed

LEMMA HonestGrows ==
    ASSUME NEW chats \in Seq(MessageRows), NEW m \in MessageRows, AllHonest(chats), Honest(m, chats)
    PROVE  AllHonest(Append(chats, m))
  <1>1. PICK longer : longer = Append(chats, m)
    OBVIOUS
  <1>2. \A i \in DOMAIN longer : (i \in DOMAIN chats /\ longer[i] = chats[i]) \/ longer[i] = m
    BY <1>1
  <1>3. Passed(chats) \subseteq Passed(longer)
    BY <1>1, PassedGrows
  <1>4. \A n : Honest(n, chats) => Honest(n, longer)
    BY <1>3 DEF Honest
  <1>5. AllHonest(longer)
    BY <1>2, <1>4 DEF AllHonest
  <1> QED
    BY <1>1, <1>5

\* What an answer tells that may be repeated.
LEMMA KeptIsReadable ==
    ASSUME NEW snapshot, NEW chats \in Seq(MessageRows), NEW i \in DOMAIN chats, AllHonest(chats),
           NEW m \in MessageRows, m = chats[i], m.by = "student" \/ History!Kept(m, snapshot)
    PROVE  /\ m.cites \subseteq History!In(snapshot)
           /\ m.tells \subseteq History!In(snapshot) \cup Passed(chats)
  <1>1. CASE m.by = "student"
    BY <1>1, RowsAreOfSomebody, QuestionsAreRows
  <1>2. CASE m.by # "student"
    <2>1. /\ m.kind # "legacy" /\ m.cites \subseteq History!In(snapshot)
          /\ m.cites = {} /\ m.kind # "asked" => m.snapshot \subseteq History!In(snapshot)
      BY <1>2 DEF History!Kept
    <2>2. CASE m.cites = {}
      BY <2>1, <2>2 DEF AllHonest, Honest
    <2>3. CASE m.cites # {}
      <3>1. m.tells \ m.cites \subseteq Passed(chats)
        BY <2>3, RowsAreOfSomebody DEF Passed
      <3> QED
        BY <2>1, <3>1
    <2> QED
      BY <2>2, <2>3
  <1> QED
    BY <1>1, <1>2

LEMMA UnnamedIsPassed == History!Unnamed = Passed(messages)
  BY DEF History!Unnamed, Passed, Read, History!ToSet

\* What the history is after some of the loaded messages, of which the last is m:
\* turns of a question and the answer to it, and a question at the end if m is one.
Turned(h, snapshot) ==
    /\ h \in Seq(MessageRows)
    /\ \A j \in DOMAIN h : /\ h[j].by = (IF j % 2 = 1 THEN "student" ELSE "model")
                           /\ j % 2 = 0 => h[j - 1] = History!Question(h[j].number) /\ History!Kept(h[j], snapshot)

LEMMA OpenMeans ==
    ASSUME NEW h \in Seq(MessageRows)
    PROVE  /\ History!Open(h) <=> Len(h) > 0 /\ h[Len(h)].by = "student"
           /\ History!Open(h) => /\ History!WithoutOpen(h) \in Seq(MessageRows)
                                 /\ Len(History!WithoutOpen(h)) = Len(h) - 1
                                 /\ \A j \in 1 .. (Len(h) - 1) : History!WithoutOpen(h)[j] = h[j]
           /\ ~History!Open(h) => History!WithoutOpen(h) = h
  <1>1. Len(h) \in Nat /\ (h # <<>> <=> Len(h) > 0) /\ DOMAIN h = 1 .. Len(h)
    OBVIOUS
  <1>2. History!Open(h) <=> Len(h) > 0 /\ h[Len(h)].by = "student"
    BY <1>1 DEF History!Open, History!Last
  <1>3. ASSUME Len(h) > 0
        PROVE  /\ SubSeq(h, 1, Len(h) - 1) \in Seq(MessageRows)
               /\ Len(SubSeq(h, 1, Len(h) - 1)) = Len(h) - 1
               /\ \A j \in 1 .. (Len(h) - 1) : SubSeq(h, 1, Len(h) - 1)[j] = h[j]
    <2>0. Len(h) - 1 \in Nat
      BY <1>1, <1>3
    <2>1. PICK n \in Nat : n = Len(h) - 1
      BY <2>0
    <2>2. \A i \in 1 .. n : h[i] \in MessageRows
      BY <1>1, <2>1
    <2>3. /\ SubSeq(h, 1, n) \in Seq(MessageRows)
          /\ Len(SubSeq(h, 1, n)) = IF 1 <= n THEN n - 1 + 1 ELSE 0
          /\ \A i \in 1 .. n - 1 + 1 : SubSeq(h, 1, n)[i] = h[1 + i - 1]
      BY <2>2, SubSeqProperties
    <2>4. Len(SubSeq(h, 1, n)) = n /\ \A i \in 1 .. n : SubSeq(h, 1, n)[i] = h[i]
      BY <2>3
    <2> QED
      BY <2>1, <2>3, <2>4
  <1> QED
    BY <1>2, <1>3 DEF History!WithoutOpen, History!Front

LEMMA Parity ==
    \A n \in Nat : /\ n % 2 = 0 \/ n % 2 = 1
                   /\ n % 2 = 1 => n - 1 \in Nat /\ (n - 1) % 2 = 0
                   /\ n % 2 = 0 => (n + 1) % 2 = 1
                   /\ n % 2 = 1 => (n + 1) % 2 = 0
  OBVIOUS

\* Without an open question a history is pairs.
LEMMA WithoutOpenTurned ==
    ASSUME NEW snapshot, NEW h, Turned(h, snapshot)
    PROVE  /\ Turned(History!WithoutOpen(h), snapshot)
           /\ ~History!Open(History!WithoutOpen(h))
           /\ Len(History!WithoutOpen(h)) % 2 = 0
           /\ History!Open(h) <=> Len(h) % 2 = 1
           /\ \A j \in DOMAIN h : h[j].by = "model" => \E k \in DOMAIN History!WithoutOpen(h) :
                                                           History!WithoutOpen(h)[k] = h[j]
  <1>1. h \in Seq(MessageRows) /\ Len(h) \in Nat /\ DOMAIN h = 1 .. Len(h)
    BY DEF Turned
  <1>2. History!Open(h) <=> Len(h) % 2 = 1
    BY <1>1, OpenMeans DEF Turned
  <1>3. CASE History!Open(h)
    <2>1. PICK w : w = History!WithoutOpen(h)
      OBVIOUS
    <2>2. /\ w \in Seq(MessageRows) /\ Len(w) = Len(h) - 1 /\ Len(w) \in Nat /\ DOMAIN w = 1 .. Len(w)
          /\ \A j \in 1 .. (Len(h) - 1) : w[j] = h[j]
      <3>1. w \in Seq(MessageRows) /\ Len(w) = Len(h) - 1 /\ \A j \in 1 .. (Len(h) - 1) : w[j] = h[j]
        BY <1>1, <1>3, <2>1, OpenMeans
      <3> QED
        BY <3>1
    <2>3. ASSUME NEW j \in DOMAIN w
          PROVE  /\ w[j].by = (IF j % 2 = 1 THEN "student" ELSE "model")
                 /\ j % 2 = 0 => w[j - 1] = History!Question(w[j].number) /\ History!Kept(w[j], snapshot)
      <3>1. j \in DOMAIN h /\ w[j] = h[j] /\ (j % 2 = 0 => w[j - 1] = h[j - 1])
        BY <1>1, <2>2
      <3> QED
        BY <3>1 DEF Turned
    <2>4. Turned(w, snapshot)
      BY <2>2, <2>3 DEF Turned
    <2>5. Len(w) % 2 = 0
      BY <1>1, <1>2, <1>3, <2>2, Parity
    <2>6. ~History!Open(w)
      <3>1. Len(w) > 0 => Len(w) \in DOMAIN w
        BY <2>2
      <3>2. Len(w) > 0 => w[Len(w)].by = "model"
        BY <2>4, <2>5, <3>1 DEF Turned
      <3> QED
        BY <2>2, <3>2, OpenMeans
    <2>7. ASSUME NEW j \in DOMAIN h, h[j].by = "model"
          PROVE  \E k \in DOMAIN w : w[k] = h[j]
      <3>1. j # Len(h)
        BY <1>1, <1>3, <2>7, OpenMeans
      <3>2. j \in DOMAIN w /\ w[j] = h[j]
        BY <1>1, <2>2, <3>1
      <3> QED
        BY <3>2
    <2> QED
      BY <1>2, <2>1, <2>4, <2>5, <2>6, <2>7
  <1>4. CASE ~History!Open(h)
    <2>1. History!WithoutOpen(h) = h
      BY <1>1, <1>4, OpenMeans
    <2>2. Len(h) % 2 = 0
      BY <1>1, <1>2, <1>4
    <2> QED
      BY <1>2, <1>4, <2>1, <2>2
  <1> QED
    BY <1>3, <1>4

LEMMA OneLonger ==
    ASSUME NEW X, NEW s \in Seq(X), NEW x \in X
    PROVE  /\ Append(s, x) \in Seq(X) /\ Len(Append(s, x)) = Len(s) + 1
           /\ Append(s, x)[Len(s) + 1] = x /\ \A i \in 1 .. Len(s) : Append(s, x)[i] = s[i]
           /\ Len(s) \in Nat /\ DOMAIN s = 1 .. Len(s) /\ DOMAIN Append(s, x) = 1 .. (Len(s) + 1)
  OBVIOUS

LEMMA TurnTyped ==
    ASSUME NEW snapshot, NEW h \in Seq(MessageRows), NEW m \in MessageRows
    PROVE  History!Turn(h, m, snapshot) \in Seq(MessageRows)
  <1>1. History!WithoutOpen(h) \in Seq(MessageRows)
    BY OpenMeans
  <1> QED
    BY <1>1, OneLonger DEF History!Turn

\* One message more: an answer goes on the history only right after its question.
LEMMA TurnKeeps ==
    ASSUME NEW snapshot, NEW h, Turned(h, snapshot), NEW m \in MessageRows,
           m.by = "model" /\ History!Open(h) => h[Len(h)] = History!Question(m.number),
           NEW t, t = History!Turn(h, m, snapshot)
    PROVE  /\ Turned(t, snapshot)
           /\ m.by = "student" => History!Open(t) /\ t[Len(t)] = m
           /\ m.by = "model" => ~History!Open(t)
           /\ m.by = "model" /\ History!Kept(m, snapshot) /\ History!Open(h) => \E k \in DOMAIN t : t[k] = m
           /\ \A j \in DOMAIN h : h[j].by = "model" => \E k \in DOMAIN t : t[k] = h[j]
  <1>1. h \in Seq(MessageRows) /\ Len(h) \in Nat /\ DOMAIN h = 1 .. Len(h)
    BY DEF Turned
  <1>2. PICK w : w = History!WithoutOpen(h)
    OBVIOUS
  <1>3. /\ Turned(w, snapshot) /\ ~History!Open(w) /\ Len(w) % 2 = 0
        /\ History!Open(h) <=> Len(h) % 2 = 1
        /\ \A j \in DOMAIN h : h[j].by = "model" => \E k \in DOMAIN w : w[k] = h[j]
    <2>1. /\ Turned(History!WithoutOpen(h), snapshot)
          /\ ~History!Open(History!WithoutOpen(h))
          /\ Len(History!WithoutOpen(h)) % 2 = 0
          /\ History!Open(h) <=> Len(h) % 2 = 1
          /\ \A j \in DOMAIN h : h[j].by = "model" => \E k \in DOMAIN History!WithoutOpen(h) :
                                                          History!WithoutOpen(h)[k] = h[j]
      BY WithoutOpenTurned
    <2> QED
      BY ONLY <1>2, <2>1
  <1>4. w \in Seq(MessageRows) /\ Len(w) \in Nat /\ DOMAIN w = 1 .. Len(w)
    BY <1>3 DEF Turned
  <1>5. CASE m.by = "student"
    <2>1. t = Append(w, m)
      BY <1>2, <1>5 DEF History!Turn
    <2>2. /\ t \in Seq(MessageRows) /\ Len(t) = Len(w) + 1 /\ t[Len(w) + 1] = m
          /\ \A i \in 1 .. Len(w) : t[i] = w[i]
          /\ DOMAIN t = 1 .. (Len(w) + 1)
      BY <1>4, <2>1, OneLonger
    <2>3. (Len(w) + 1) % 2 = 1
      BY <1>3, <1>4, Parity
    <2>4. ASSUME NEW j \in DOMAIN t
          PROVE  /\ t[j].by = (IF j % 2 = 1 THEN "student" ELSE "model")
                 /\ j % 2 = 0 => t[j - 1] = History!Question(t[j].number) /\ History!Kept(t[j], snapshot)
      <3>1. CASE j = Len(w) + 1
        BY <1>5, <2>2, <2>3, <3>1
      <3>2. CASE j # Len(w) + 1
        <4>1. j \in DOMAIN w /\ t[j] = w[j] /\ (j % 2 = 0 => t[j - 1] = w[j - 1])
          BY <1>4, <2>2, <3>2
        <4> QED
          BY <1>3, <4>1 DEF Turned
      <3> QED
        BY <3>1, <3>2
    <2>5. Turned(t, snapshot)
      BY <2>2, <2>4 DEF Turned
    <2>6. \A j \in DOMAIN h : h[j].by = "model" => \E k \in DOMAIN t : t[k] = h[j]
      BY <1>3, <1>4, <2>2
    <2>7. History!Open(t)
      BY <1>4, <1>5, <2>2, OpenMeans
    <2> QED
      BY <1>5, <2>2, <2>5, <2>6, <2>7
  <1>6. CASE m.by = "model" /\ History!Open(h) /\ History!Kept(m, snapshot)
    <2>1. t = Append(h, m)
      BY <1>6 DEF History!Turn
    <2>2. /\ t \in Seq(MessageRows) /\ Len(t) = Len(h) + 1 /\ t[Len(h) + 1] = m
          /\ \A i \in 1 .. Len(h) : t[i] = h[i]
          /\ DOMAIN t = 1 .. (Len(h) + 1)
      BY <1>1, <2>1, OneLonger
    <2>3. (Len(h) + 1) % 2 = 0 /\ Len(h) > 0
      BY <1>1, <1>3, <1>6, Parity, OpenMeans
    <2>4. ASSUME NEW j \in DOMAIN t
          PROVE  /\ t[j].by = (IF j % 2 = 1 THEN "student" ELSE "model")
                 /\ j % 2 = 0 => t[j - 1] = History!Question(t[j].number) /\ History!Kept(t[j], snapshot)
      <3>1. CASE j = Len(h) + 1
        <4>1. t[j] = m /\ t[j - 1] = h[Len(h)]
          BY <1>1, <2>2, <2>3, <3>1
        <4> QED
          BY <1>6, <2>3, <3>1, <4>1
      <3>2. CASE j # Len(h) + 1
        <4>1. j \in DOMAIN h /\ t[j] = h[j] /\ (j % 2 = 0 => t[j - 1] = h[j - 1])
          BY <1>1, <2>2, <3>2
        <4> QED
          BY <4>1 DEF Turned
      <3> QED
        BY <3>1, <3>2
    <2>5. Turned(t, snapshot)
      BY <2>2, <2>4 DEF Turned
    <2>6. ~History!Open(t)
      BY <1>1, <1>6, <2>2, OpenMeans
    <2>7. \A j \in DOMAIN h : \E k \in DOMAIN t : t[k] = h[j]
      BY <1>1, <2>2
    <2>8. Len(h) + 1 \in DOMAIN t
      BY <1>1, <2>2
    <2> QED
      BY <1>6, <2>2, <2>5, <2>6, <2>7, <2>8
  <1>7. CASE m.by = "model" /\ ~(History!Open(h) /\ History!Kept(m, snapshot))
    <2>1. t = w
      BY <1>2, <1>7 DEF History!Turn
    <2> QED
      BY <1>3, <1>7, <2>1
  <1> QED
    BY <1>5, <1>6, <1>7, RowsAreOfSomebody

\* The history is what the last of these turns leaves: one for each loaded message.
LEMMA HistoryIsTurns ==
    ASSUME NEW snapshot, History!Loaded \in Seq(MessageRows)
    PROVE  \E h \in [0 .. Len(History!Loaded) -> Seq(MessageRows)] :
               /\ h[0] = <<>>
               /\ \A k \in 1 .. Len(History!Loaded) :
                      h[k] = History!Turn(h[k - 1], History!Loaded[k], snapshot)
               /\ History!History(snapshot) = History!WithoutOpen(h[Len(History!Loaded)])
  <1>1. PICK loaded \in Seq(MessageRows) : loaded = History!Loaded
    OBVIOUS
  <1> DEFINE R == Seq(MessageRows)
             step == [p \in R \X MessageRows |-> History!Turn(p[1], p[2], snapshot)]
             Turns(g) == g = [s \in SUBSET (DOMAIN loaded) |->
                                  IF s = {} THEN <<>>
                                  ELSE History!Turn(g[s \ {Max(s)}], loaded[Max(s)], snapshot)]
  <1>2. History!History(snapshot) = History!WithoutOpen((CHOOSE g : Turns(g))[DOMAIN loaded])
    BY <1>1 DEF History!History, History!FoldLeft, History!MapThenFoldSet, History!Max, Max
  <1>3. <<>> \in R
    OBVIOUS
  <1>4. step \in [R \X MessageRows -> R]
    BY TurnTyped
  <1>5. DOMAIN loaded = 1 .. Len(loaded) /\ Len(loaded) \in Nat /\ \A i \in DOMAIN loaded : loaded[i] \in MessageRows
    OBVIOUS
  <1>6. \E g : Turns(g)
    <2>1. PICK g \in [SUBSET (DOMAIN loaded) -> R] : Folds(g, <<>>, loaded, step, SUBSET (DOMAIN loaded))
      <3> HIDE DEF R, step, Turns
      <3> QED
        BY <1>3, <1>4, FoldExists
    <2>2. ASSUME NEW s \in SUBSET (DOMAIN loaded), s # {}
          PROVE  g[s] = History!Turn(g[s \ {Max(s)}], loaded[Max(s)], snapshot)
      <3>1. Max(s) \in DOMAIN loaded
        BY <1>1, <2>2, LastPlaceOf
      <3>2. g[s \ {Max(s)}] \in R
        BY <2>1
      <3>3. loaded[Max(s)] \in MessageRows
        BY <1>5, <3>1
      <3>4. <<g[s \ {Max(s)}], loaded[Max(s)]>> \in R \X MessageRows
        BY <3>2, <3>3
      <3>5. step[<<g[s \ {Max(s)}], loaded[Max(s)]>>] = History!Turn(g[s \ {Max(s)}], loaded[Max(s)], snapshot)
        BY <3>4
      <3>6. g[s] = step[<<g[s \ {Max(s)}], loaded[Max(s)]>>]
        BY <2>1, <2>2 DEF Folds
      <3> QED
        BY <3>5, <3>6
    <2>3. g[{}] = <<>>
      BY <2>1 DEF Folds
    <2>4. Turns(g)
      BY <2>1, <2>2, <2>3
    <2> QED
      BY <2>4
  <1>7. PICK g : Turns(g) /\ History!History(snapshot) = History!WithoutOpen(g[DOMAIN loaded])
    BY <1>2, <1>6
  <1>8. Follows(g, <<>>, loaded, step, R, MessageRows)
    <2>1. g[{}] = <<>>
      BY <1>7
    <2>2. ASSUME NEW s \in SUBSET (DOMAIN loaded), s # {}, g[s \ {Max(s)}] \in R
          PROVE  g[s] = step[<<g[s \ {Max(s)}], loaded[Max(s)]>>]
      <3>1. loaded[Max(s)] \in MessageRows
        BY <1>5, <2>2, LastPlaceOf
      <3>2. g[s] = History!Turn(g[s \ {Max(s)}], loaded[Max(s)], snapshot)
        BY <1>7, <2>2
      <3>3. <<g[s \ {Max(s)}], loaded[Max(s)]>> \in R \X MessageRows
        BY <2>2, <3>1
      <3> QED
        BY <3>2, <3>3
    <2> HIDE DEF step
    <2> QED
      BY <1>1, <1>3, <1>4, <2>1, <2>2 DEF Follows
  <1> HIDE DEF Turns
  <1>9. PICK h : FoldSteps(h, <<>>, loaded, step, R) /\ g[DOMAIN loaded] = h[Len(loaded)]
    BY <1>8, FoldWalks
  <1>10. /\ h \in [0 .. Len(loaded) -> R] /\ h[0] = <<>>
         /\ \A k \in 1 .. Len(loaded) : h[k] = step[<<h[k - 1], loaded[k]>>]
    BY <1>9 DEF FoldSteps
  <1>11. ASSUME NEW k \in 1 .. Len(loaded)
         PROVE  h[k] = History!Turn(h[k - 1], loaded[k], snapshot)
    <2>1. k - 1 \in 0 .. Len(loaded) /\ loaded[k] \in MessageRows
      BY <1>5
    <2>2. <<h[k - 1], loaded[k]>> \in R \X MessageRows /\ h[k] = step[<<h[k - 1], loaded[k]>>]
      BY <1>10, <2>1
    <2> QED
      BY <2>2
  <1> QED
    BY <1>1, <1>7, <1>9, <1>10, <1>11

\* What is loaded is an end of the messages.
LEMMA LoadedRows ==
    ASSUME Ordered(messages), AfterTheirQuestions(messages), HistoryAssumption
    PROVE  \E f \in 1 .. Len(messages) + 1 :
               /\ Len(History!Loaded) = Len(messages) - f + 1
               /\ \A i \in 1 .. Len(History!Loaded) : f + i - 1 \in DOMAIN messages /\ History!Loaded[i] = messages[f + i - 1]
               /\ Ordered(History!Loaded) /\ AfterTheirQuestions(History!Loaded)
  <1>1. /\ messages \in Seq(MessageRows) /\ Len(messages) \in Nat /\ DOMAIN messages = 1 .. Len(messages)
        /\ Limit \in Nat
    BY DEF Ordered, HistoryAssumption, History!HistoryBounds
  <1>2. PICK f : f = Max({1, Len(messages) - Limit + 1})
    OBVIOUS
  <1>3. f \in {1, Len(messages) - Limit + 1} /\ f >= 1
    <2>1. \E x \in {1, Len(messages) - Limit + 1} : \A y \in {1, Len(messages) - Limit + 1} : x >= y
      BY <1>1
    <2> QED
      BY <1>1, <1>2, <2>1 DEF Max
  <1>4. f \in Nat /\ f \in 1 .. Len(messages) + 1
    BY <1>1, <1>3
  <1>5. PICK loaded : loaded = History!Loaded
    OBVIOUS
  <1>6. loaded = SubSeq(messages, f, Len(messages))
    BY <1>2, <1>5 DEF History!Loaded, History!Max, Max
  <1>7. /\ loaded \in Seq(MessageRows)
        /\ Len(loaded) = Len(messages) - f + 1 /\ Len(loaded) \in Nat
        /\ \A i \in 1 .. Len(loaded) : loaded[i] = messages[f + i - 1]
    <2>1. PICK n \in Nat : n = Len(messages)
      BY <1>1
    <2>2. \A i \in f .. n : messages[i] \in MessageRows
      BY <1>1, <1>4, <2>1
    <2>3. /\ SubSeq(messages, f, n) \in Seq(MessageRows)
          /\ Len(SubSeq(messages, f, n)) = IF f <= n THEN n - f + 1 ELSE 0
          /\ \A i \in 1 .. n - f + 1 : SubSeq(messages, f, n)[i] = messages[f + i - 1]
      BY <1>4, <2>1, <2>2, SubSeqProperties
    <2>4. Len(SubSeq(messages, f, n)) = n - f + 1 /\ n - f + 1 \in Nat
      BY <1>4, <2>1, <2>3
    <2> QED
      BY <1>6, <2>1, <2>3, <2>4
  <1>8. DOMAIN loaded = 1 .. Len(loaded)
    BY <1>7
  <1>9. \A i \in 1 .. Len(loaded) : f + i - 1 \in DOMAIN messages /\ (i > 1 => f + (i - 1) - 1 = (f + i - 1) - 1 /\ f + i - 1 > 1)
    BY <1>1, <1>4, <1>7
  <1>10. Ordered(loaded)
    <2>1. ASSUME NEW i \in DOMAIN loaded, NEW j \in DOMAIN loaded, i # j, loaded[i].by = "student", loaded[j].by = "student"
          PROVE  loaded[i].number # loaded[j].number
      <3>1. f + i - 1 # f + j - 1
        BY <1>4, <1>7, <1>8, <2>1
      <3>2. f + i - 1 \in DOMAIN messages /\ f + j - 1 \in DOMAIN messages
        BY <1>8, <1>9
      <3>3. loaded[i] = messages[f + i - 1] /\ loaded[j] = messages[f + j - 1]
        BY <1>7, <1>8
      <3> QED
        BY <2>1, <3>1, <3>2, <3>3 DEF Ordered
    <2> QED
      BY <1>7, <2>1 DEF Ordered
  <1>11. AfterTheirQuestions(loaded)
    <2>1. ASSUME NEW i \in DOMAIN loaded, i > 1, loaded[i].by = "model"
          PROVE  loaded[i - 1] = History!Question(loaded[i].number)
      <3>1. i - 1 \in 1 .. Len(loaded)
        BY <1>7, <1>8, <2>1
      <3>2. loaded[i] = messages[f + i - 1] /\ loaded[i - 1] = messages[(f + i - 1) - 1]
        BY <1>7, <1>8, <1>9, <2>1, <3>1
      <3>3. f + i - 1 \in DOMAIN messages /\ f + i - 1 > 1
        BY <1>8, <1>9, <2>1
      <3> QED
        BY <2>1, <3>2, <3>3 DEF AfterTheirQuestions
    <2> QED
      BY <2>1 DEF AfterTheirQuestions
  <1> QED
    BY <1>4, <1>5, <1>7, <1>9, <1>10, <1>11

\* All of a history was loaded.
Holds(t, loaded, k) == \A j \in DOMAIN t : \E i \in 1 .. k : t[j] = loaded[i]

LEMMA WithoutOpenHolds ==
    ASSUME NEW loaded, NEW k \in Nat, NEW h \in Seq(MessageRows), Holds(h, loaded, k)
    PROVE  Holds(History!WithoutOpen(h), loaded, k)
  <1>1. CASE History!Open(h)
    <2>1. PICK w : w = History!WithoutOpen(h)
      OBVIOUS
    <2>2. w \in Seq(MessageRows) /\ Len(w) = Len(h) - 1 /\ \A j \in 1 .. (Len(h) - 1) : w[j] = h[j]
      BY <1>1, <2>1, OpenMeans
    <2>3. \A j \in DOMAIN w : j \in DOMAIN h /\ w[j] = h[j]
      BY <2>2
    <2> QED
      BY <2>1, <2>3 DEF Holds
  <1>2. CASE ~History!Open(h)
    BY <1>2, OpenMeans
  <1> QED
    BY <1>1, <1>2

LEMMA TurnHolds ==
    ASSUME NEW snapshot, NEW loaded, NEW k \in Nat, k > 0, NEW h \in Seq(MessageRows),
           NEW m \in MessageRows, m = loaded[k], Holds(h, loaded, k - 1),
           NEW t, t = History!Turn(h, m, snapshot)
    PROVE  Holds(t, loaded, k)
  <1>1. k - 1 \in Nat /\ k \in 1 .. k /\ 1 .. (k - 1) \subseteq 1 .. k
    OBVIOUS
  <1>2. PICK w : w = History!WithoutOpen(h)
    OBVIOUS
  <1>3. w \in Seq(MessageRows) /\ Holds(w, loaded, k - 1)
    BY <1>1, <1>2, OpenMeans, WithoutOpenHolds
  <1>4. Holds(w, loaded, k) /\ Holds(h, loaded, k)
    BY <1>1, <1>3 DEF Holds
  <1>5. ASSUME NEW s \in Seq(MessageRows), Holds(s, loaded, k)
        PROVE  Holds(Append(s, m), loaded, k)
    <2>1. \A j \in DOMAIN Append(s, m) : Append(s, m)[j] = m \/ (j \in DOMAIN s /\ Append(s, m)[j] = s[j])
      OBVIOUS
    <2> QED
      BY <1>1, <1>5, <2>1 DEF Holds
  <1> QED
    BY <1>2, <1>3, <1>4, <1>5 DEF History!Turn

\* After each loaded message: what the history is, and what it holds.
Walks(loaded, h, snapshot, k) ==
    /\ Turned(h[k], snapshot)
    /\ Holds(h[k], loaded, k)
    /\ History!Open(h[k]) => k > 0 /\ h[k][Len(h[k])] = loaded[k]
    /\ k > 0 /\ loaded[k].by = "student" => History!Open(h[k])
    /\ \A i \in 2 .. k : loaded[i].by = "model" /\ History!Kept(loaded[i], snapshot) =>
                             \E j \in DOMAIN h[k] : h[k][j] = loaded[i]

LEMMA TurnsWalk ==
    ASSUME NEW snapshot, NEW loaded, Ordered(loaded), AfterTheirQuestions(loaded),
           NEW h \in [0 .. Len(loaded) -> Seq(MessageRows)], h[0] = <<>>,
           \A k \in 1 .. Len(loaded) : h[k] = History!Turn(h[k - 1], loaded[k], snapshot)
    PROVE  \A k \in 0 .. Len(loaded) : Walks(loaded, h, snapshot, k)
  <1>1. /\ Len(loaded) \in Nat /\ DOMAIN loaded = 1 .. Len(loaded)
        /\ \A i \in DOMAIN loaded : loaded[i] \in MessageRows
    BY DEF Ordered
  <1>2. Walks(loaded, h, snapshot, 0)
    <2>1. <<>> \in Seq(MessageRows) /\ DOMAIN <<>> = {} /\ Len(<<>>) = 0
      OBVIOUS
    <2>2. ~History!Open(<<>>)
      BY <2>1, OpenMeans
    <2>3. 2 .. 0 = {} /\ ~(0 > 0)
      OBVIOUS
    <2> QED
      BY <2>1, <2>2, <2>3 DEF Walks, Turned, Holds
  <1>3. ASSUME NEW k \in 1 .. Len(loaded), Walks(loaded, h, snapshot, k - 1)
        PROVE  Walks(loaded, h, snapshot, k)
    <2>1. /\ k \in Nat /\ k > 0 /\ k \in DOMAIN loaded /\ k - 1 \in Nat /\ (k > 1 => k - 1 \in DOMAIN loaded)
          /\ (k - 1 > 0 => k > 1)
      BY <1>1
    <2>2. PICK before, t, m : before = h[k - 1] /\ t = h[k] /\ m = loaded[k]
      OBVIOUS
    <2>3. m \in MessageRows /\ Turned(before, snapshot) /\ t = History!Turn(before, m, snapshot)
      BY <1>1, <1>3, <2>1, <2>2 DEF Walks
    <2>4. m.by = "model" /\ k > 1 => loaded[k - 1] = History!Question(m.number)
      BY <2>1, <2>2 DEF AfterTheirQuestions
    <2>5. m.by = "model" /\ History!Open(before) => before[Len(before)] = History!Question(m.number)
      BY <1>3, <2>1, <2>2, <2>4 DEF Walks
    <2>6. /\ Turned(t, snapshot)
          /\ m.by = "student" => History!Open(t) /\ t[Len(t)] = m
          /\ m.by = "model" => ~History!Open(t)
          /\ m.by = "model" /\ History!Kept(m, snapshot) /\ History!Open(before) => \E j \in DOMAIN t : t[j] = m
          /\ \A j \in DOMAIN before : before[j].by = "model" => \E i \in DOMAIN t : t[i] = before[j]
      BY <2>3, <2>5, TurnKeeps
    <2>7. ASSUME NEW i \in 2 .. k, loaded[i].by = "model", History!Kept(loaded[i], snapshot)
          PROVE  \E j \in DOMAIN t : t[j] = loaded[i]
      <3>1. CASE i = k
        <4>1. k > 1 /\ loaded[k - 1].by = "student" /\ k - 1 > 0
          BY <2>1, <2>2, <2>4, <2>7, <3>1, QuestionsAreRows
        <4>2. History!Open(before)
          BY <1>3, <2>2, <4>1 DEF Walks
        <4> QED
          BY <2>2, <2>6, <2>7, <3>1, <4>2
      <3>2. CASE i # k
        <4>1. i \in 2 .. (k - 1)
          BY <2>1, <3>2
        <4>2. PICK j \in DOMAIN before : before[j] = loaded[i]
          BY <1>3, <2>2, <2>7, <4>1 DEF Walks
        <4>3. before[j].by = "model"
          BY <2>7, <4>2
        <4>4. \E l \in DOMAIN t : t[l] = before[j]
          BY <2>6, <4>3
        <4> QED
          BY <4>2, <4>4
      <3> QED
        BY <3>1, <3>2
    <2>8. History!Open(t) => t[Len(t)] = m
      BY <2>3, <2>6, RowsAreOfSomebody
    <2>9. Holds(t, loaded, k)
      <3>1. before \in Seq(MessageRows) /\ Holds(before, loaded, k - 1)
        BY <1>3, <2>2, <2>3 DEF Walks, Turned
      <3> QED
        BY <2>1, <2>2, <2>3, <3>1, TurnHolds
    <2> QED
      BY <2>1, <2>2, <2>6, <2>7, <2>8, <2>9 DEF Walks
  <1> DEFINE bad == {k \in 0 .. Len(loaded) : ~Walks(loaded, h, snapshot, k)}
  <1>4. SUFFICES ASSUME bad # {}  PROVE FALSE
    OBVIOUS
  <1>5. bad \subseteq Nat /\ \A k \in 0 .. Len(loaded) : k \in bad <=> ~Walks(loaded, h, snapshot, k)
    OBVIOUS
  <1>6. \A k \in bad : k \in 0 .. Len(loaded)
    OBVIOUS
  <1> HIDE DEF bad
  <1>7. PICK k \in bad : \A j \in bad : ~(j < k)
    BY <1>4, <1>5, SmallestNumber
  <1>8. k # 0
    BY <1>2, <1>5, <1>6
  <1>9. k \in 1 .. Len(loaded) /\ k - 1 \in 0 .. Len(loaded) /\ k - 1 < k
    BY <1>1, <1>6, <1>8
  <1>10. Walks(loaded, h, snapshot, k - 1)
    BY <1>5, <1>7, <1>9
  <1> QED
    BY <1>3, <1>5, <1>6, <1>9, <1>10

\* The history: whole turns, and every answer that may be repeated.
LEMMA HistoryIsTurned ==
    ASSUME NEW snapshot, Ordered(messages), AfterTheirQuestions(messages), HistoryAssumption
    PROVE  /\ Turned(History!History(snapshot), snapshot)
           /\ Holds(History!History(snapshot), History!Loaded, Len(History!Loaded))
           /\ Len(History!History(snapshot)) % 2 = 0
           /\ \A i \in 2 .. Len(History!Loaded) :
                  History!Loaded[i].by = "model" /\ History!Kept(History!Loaded[i], snapshot) =>
                      \E j \in DOMAIN History!History(snapshot) : History!History(snapshot)[j] = History!Loaded[i]
  <1>1. PICK loaded : loaded = History!Loaded
    OBVIOUS
  <1>2. Ordered(loaded) /\ AfterTheirQuestions(loaded) /\ loaded \in Seq(MessageRows)
    BY <1>1, LoadedRows DEF Ordered
  <1>3. PICK h \in [0 .. Len(loaded) -> Seq(MessageRows)] :
               /\ h[0] = <<>>
               /\ \A k \in 1 .. Len(loaded) : h[k] = History!Turn(h[k - 1], loaded[k], snapshot)
               /\ History!History(snapshot) = History!WithoutOpen(h[Len(loaded)])
    BY <1>1, <1>2, HistoryIsTurns
  <1>4. Len(loaded) \in 0 .. Len(loaded) /\ Len(loaded) \in Nat
    BY <1>2
  <1>5. Walks(loaded, h, snapshot, Len(loaded))
    BY <1>2, <1>3, <1>4, TurnsWalk
  <1>6. PICK t : t = h[Len(loaded)]
    OBVIOUS
  <1>7. /\ Turned(t, snapshot) /\ Holds(t, loaded, Len(loaded))
        /\ \A i \in 2 .. Len(loaded) : loaded[i].by = "model" /\ History!Kept(loaded[i], snapshot) =>
                                          \E j \in DOMAIN t : t[j] = loaded[i]
    BY <1>5, <1>6 DEF Walks
  <1>8. /\ Turned(History!WithoutOpen(t), snapshot)
        /\ Len(History!WithoutOpen(t)) % 2 = 0
        /\ \A j \in DOMAIN t : t[j].by = "model" => \E k \in DOMAIN History!WithoutOpen(t) :
                                                        History!WithoutOpen(t)[k] = t[j]
    <2>1. Turned(t, snapshot)
      BY <1>7
    <2>2. /\ Turned(History!WithoutOpen(t), snapshot)
          /\ ~History!Open(History!WithoutOpen(t))
          /\ Len(History!WithoutOpen(t)) % 2 = 0
          /\ History!Open(t) <=> Len(t) % 2 = 1
          /\ \A j \in DOMAIN t : t[j].by = "model" => \E k \in DOMAIN History!WithoutOpen(t) :
                                                          History!WithoutOpen(t)[k] = t[j]
      BY ONLY <2>1, WithoutOpenTurned
    <2> QED
      BY ONLY <2>2
  <1>9. ASSUME NEW i \in 2 .. Len(loaded), loaded[i].by = "model", History!Kept(loaded[i], snapshot)
        PROVE  \E k \in DOMAIN History!WithoutOpen(t) : History!WithoutOpen(t)[k] = loaded[i]
    <2>1. PICK j \in DOMAIN t : t[j] = loaded[i]
      BY <1>7, <1>9
    <2>2. t[j].by = "model"
      BY <1>9, <2>1
    <2>3. PICK k \in DOMAIN History!WithoutOpen(t) : History!WithoutOpen(t)[k] = t[j]
      BY <1>8, <2>2
    <2> QED
      BY <2>1, <2>3
  <1>10. Holds(History!WithoutOpen(t), loaded, Len(loaded))
    BY <1>4, <1>7, WithoutOpenHolds DEF Turned
  <1> QED
    BY <1>1, <1>3, <1>6, <1>8, <1>9, <1>10

\* The properties, from what the messages are.
QuestionsOf(chats) == {i \in DOMAIN chats : chats[i].by = "student"}

WholeChat(chats) ==
    /\ Ordered(chats) /\ AfterTheirQuestions(chats)
    /\ chats # <<>> => chats[1].by = "student"
    /\ \A i \in QuestionsOf(chats) : chats[i].number \in 1 .. Cardinality(QuestionsOf(chats))

LEMMA ChatIsReadable ==
    ASSUME NEW snapshot, WholeChat(messages), AllHonest(messages), HistoryAssumption,
           NEW m \in History!ToSet(History!History(snapshot))
    PROVE  /\ m.cites \subseteq History!In(snapshot)
           /\ m.tells \subseteq History!In(snapshot) \cup Passed(messages)
  <1>1. PICK h : h = History!History(snapshot)
    OBVIOUS
  <1>2. Turned(h, snapshot)
    BY <1>1, HistoryIsTurned DEF WholeChat
  <1>3. PICK j \in DOMAIN h : h[j] = m
    BY <1>1 DEF History!ToSet
  <1>4. j \in Nat /\ m \in MessageRows
    BY <1>2, <1>3 DEF Turned
  <1>5. j % 2 = 0 \/ j % 2 = 1
    BY <1>4, Parity
  <1>6. m.by = "student" \/ History!Kept(m, snapshot)
    BY <1>2, <1>3, <1>5 DEF Turned
  <1>7. PICK i \in DOMAIN messages : messages[i] = m
    <2>1. Holds(h, History!Loaded, Len(History!Loaded))
      BY <1>1, HistoryIsTurned DEF WholeChat
    <2>2. PICK i \in 1 .. Len(History!Loaded) : h[j] = History!Loaded[i]
      BY <1>3, <2>1 DEF Holds
    <2>3. PICK f \in 1 .. Len(messages) + 1 :
              \A k \in 1 .. Len(History!Loaded) : f + k - 1 \in DOMAIN messages
                                                  /\ History!Loaded[k] = messages[f + k - 1]
      BY LoadedRows DEF WholeChat
    <2> QED
      BY <1>3, <2>2, <2>3
  <1>8. messages \in Seq(MessageRows)
    BY DEF WholeChat, Ordered
  <1> QED
    BY <1>4, <1>6, <1>7, <1>8, KeptIsReadable

LEMMA OddStart ==
    ASSUME NEW b \in Nat, b % 2 = 1, NEW k \in Nat, k > 0
    PROVE  /\ k % 2 = 0 => (b + k - 1) % 2 = 0
           /\ k % 2 = 1 => (b + k - 1) % 2 = 1
           /\ k % 2 = 0 => k > 1 /\ b + k - 1 > 1
  OBVIOUS

LEMMA TrimmedIsTurned ==
    ASSUME NEW snapshot, NEW h, Turned(h, snapshot), Len(h) % 2 = 0, NEW i \in 1 .. Len(h) + 1,
           NEW k \in DOMAIN History!Trimmed(h, i)
    PROVE  /\ History!Trimmed(h, i)[k].by = (IF k % 2 = 1 THEN "student" ELSE "model")
           /\ k % 2 = 0 => History!Trimmed(h, i)[k - 1] = History!Question(History!Trimmed(h, i)[k].number)
  <1>1. h \in Seq(MessageRows) /\ Len(h) \in Nat /\ DOMAIN h = 1 .. Len(h) /\ i \in Nat
    BY DEF Turned
  <1>2. PICK b : b = IF i <= Len(h) /\ h[i].by = "model" THEN i + 1 ELSE i
    OBVIOUS
  <1>3. History!Trimmed(h, i) = SubSeq(h, b, Len(h))
    BY <1>2 DEF History!Trimmed
  <1>4. b \in 1 .. Len(h) + 1 /\ b \in Nat
    BY <1>1, <1>2
  <1>5. b % 2 = 1
    <2>1. CASE i = Len(h) + 1
      <3>1. i % 2 = 1
        BY <1>1, <2>1, Parity
      <3>2. ~(i <= Len(h))
        BY <1>1, <2>1
      <3>3. b = i
        BY ONLY <1>2, <3>2
      <3> QED
        BY ONLY <3>1, <3>3
    <2>2. CASE i # Len(h) + 1
      <3>1. i \in DOMAIN h
        BY <1>1, <2>2
      <3>2. h[i].by = (IF i % 2 = 1 THEN "student" ELSE "model")
        BY <3>1 DEF Turned
      <3>3. (i % 2 = 0 \/ i % 2 = 1) /\ (i % 2 = 0 => (i + 1) % 2 = 1)
        BY <1>1, Parity
      <3>4. CASE i % 2 = 0
        <4>1. b = i + 1
          BY <1>1, <1>2, <3>1, <3>2, <3>4
        <4> QED
          BY <3>3, <3>4, <4>1
      <3>5. CASE i % 2 = 1
        <4>1. b = i
          BY <1>2, <3>2, <3>5
        <4> QED
          BY <3>5, <4>1
      <3> QED
        BY <3>3, <3>4, <3>5
    <2> QED
      BY <2>1, <2>2
  <1>6. PICK t : t = History!Trimmed(h, i)
    OBVIOUS
  <1>7. /\ t \in Seq(MessageRows) /\ DOMAIN t = 1 .. (Len(h) - b + 1)
        /\ \A j \in DOMAIN t : t[j] = h[b + j - 1]
    <2>1. PICK n \in Nat : n = Len(h)
      BY <1>1
    <2>2. \A j \in b .. n : h[j] \in MessageRows
      BY <1>1, <1>4, <2>1
    <2>3. /\ SubSeq(h, b, n) \in Seq(MessageRows)
          /\ Len(SubSeq(h, b, n)) = IF b <= n THEN n - b + 1 ELSE 0
          /\ \A j \in 1 .. n - b + 1 : SubSeq(h, b, n)[j] = h[b + j - 1]
      BY <1>4, <2>1, <2>2, SubSeqProperties
    <2>4. Len(SubSeq(h, b, n)) = n - b + 1
      BY <1>4, <2>1, <2>3
    <2>5. DOMAIN SubSeq(h, b, n) = 1 .. (n - b + 1)
      BY <2>3, <2>4
    <2> QED
      BY <1>3, <1>6, <2>1, <2>3, <2>5
  <1>8. k \in Nat /\ k > 0 /\ b + k - 1 \in DOMAIN h /\ k \in DOMAIN t /\ t[k] = h[b + k - 1]
    <2>1. k \in DOMAIN t /\ k \in 1 .. (Len(h) - b + 1)
      BY <1>6, <1>7
    <2>2. t[k] = h[b + k - 1]
      BY <1>7, <2>1
    <2>3. k \in Nat /\ k > 0 /\ b + k - 1 \in 1 .. Len(h)
      BY ONLY <1>1, <1>4, <2>1
    <2> QED
      BY <1>1, <2>1, <2>2, <2>3
  <1>9. /\ k % 2 = 0 \/ k % 2 = 1
        /\ k % 2 = 0 => (b + k - 1) % 2 = 0 /\ b + k - 1 > 1 /\ k > 1
        /\ k % 2 = 1 => (b + k - 1) % 2 = 1
    BY <1>4, <1>5, <1>8, OddStart, Parity
  <1>10. CASE k % 2 = 1
    BY <1>6, <1>8, <1>9, <1>10 DEF Turned
  <1>11. CASE k % 2 = 0
    <2>1. k > 1 /\ k - 1 \in DOMAIN t /\ t[k - 1] = h[(b + k - 1) - 1]
      <3>1. k > 1 /\ k \in 1 .. (Len(h) - b + 1)
        BY <1>7, <1>8, <1>9, <1>11
      <3>2. k - 1 \in 1 .. (Len(h) - b + 1) /\ b + (k - 1) - 1 = (b + k - 1) - 1
        BY ONLY <1>1, <1>4, <1>8, <3>1
      <3>3. t[k - 1] = h[b + (k - 1) - 1]
        BY <1>7, <3>2
      <3> QED
        BY <1>7, <3>1, <3>2, <3>3
    <2>2. h[b + k - 1].by = "model" /\ h[(b + k - 1) - 1] = History!Question(h[b + k - 1].number)
      BY <1>8, <1>9, <1>11 DEF Turned
    <2> QED
      BY <1>6, <1>8, <1>11, <2>1, <2>2
  <1> QED
    BY <1>9, <1>10, <1>11

LEMMA ChatIsWhole ==
    ASSUME NEW snapshot, WholeChat(messages), HistoryAssumption, NEW m \in History!ToSet(History!Loaded),
           m.by = "model", History!Kept(m, snapshot), History!Question(m.number) \in History!ToSet(History!Loaded)
    PROVE  m \in History!ToSet(History!History(snapshot))
  <1>1. PICK loaded : loaded = History!Loaded
    OBVIOUS
  <1>2. PICK f \in 1 .. Len(messages) + 1 :
               /\ Len(loaded) = Len(messages) - f + 1
               /\ \A i \in 1 .. Len(loaded) : f + i - 1 \in DOMAIN messages /\ loaded[i] = messages[f + i - 1]
               /\ Ordered(loaded) /\ AfterTheirQuestions(loaded)
    BY <1>1, LoadedRows DEF WholeChat
  <1>3. /\ DOMAIN loaded = 1 .. Len(loaded) /\ Len(loaded) \in Nat
        /\ messages \in Seq(MessageRows) /\ Len(messages) \in Nat /\ DOMAIN messages = 1 .. Len(messages)
        /\ f \in Nat
    BY <1>2 DEF Ordered, WholeChat
  <1>4. PICK i \in DOMAIN loaded : m = loaded[i]
    BY <1>1 DEF History!ToSet
  <1>5. PICK q \in DOMAIN loaded : loaded[q] = History!Question(m.number)
    BY <1>1 DEF History!ToSet
  <1>6. i > 1
    <2>1. SUFFICES ASSUME i = 1  PROVE FALSE
      BY <1>3
    <2>2. m = messages[f] /\ f \in DOMAIN messages /\ messages # <<>>
      BY <1>2, <1>3, <1>4, <2>1
    <2>3. f # 1
      BY <2>2, QuestionsAreRows DEF WholeChat
    <2>4. messages[f - 1] = History!Question(m.number)
      BY <1>3, <2>2, <2>3 DEF WholeChat, AfterTheirQuestions
    <2>5. messages[f + q - 1] = History!Question(m.number) /\ f + q - 1 \in DOMAIN messages
      BY <1>2, <1>3, <1>5
    <2>6. f - 1 \in DOMAIN messages /\ f - 1 # f + q - 1
      BY <1>3, <2>2, <2>3
    <2> QED
      BY <2>4, <2>5, <2>6, QuestionsAreRows DEF WholeChat, Ordered
  <1>7. i \in 2 .. Len(loaded)
    BY <1>3, <1>6
  <1>8. \E j \in DOMAIN History!History(snapshot) : History!History(snapshot)[j] = m
    BY <1>1, <1>4, <1>7, HistoryIsTurned DEF WholeChat
  <1> QED
    BY <1>8 DEF History!ToSet

LEMMA QuestionsAreFew ==
    ASSUME NEW chats \in Seq(MessageRows)
    PROVE  IsFiniteSet(QuestionsOf(chats)) /\ Cardinality(QuestionsOf(chats)) \in Nat
  <1>1. Len(chats) \in Nat /\ DOMAIN chats = 1 .. Len(chats)
    OBVIOUS
  <1>2. IsFiniteSet(1 .. Len(chats))
    BY <1>1, FS_Interval
  <1>3. IsFiniteSet(QuestionsOf(chats))
    BY <1>1, <1>2, FS_Subset DEF QuestionsOf
  <1> QED
    BY <1>3, FS_CardinalityType

\* The next question is numbered after all others.
LEMMA QuestionGoesOn ==
    ASSUME NEW chats, WholeChat(chats), NEW longer,
           longer = Append(chats, History!Question(Cardinality(QuestionsOf(chats)) + 1))
    PROVE  WholeChat(longer)
  <1>1. PICK c, m : c = Cardinality(QuestionsOf(chats)) /\ m = History!Question(c + 1)
    OBVIOUS
  <1>2. /\ chats \in Seq(MessageRows) /\ Len(chats) \in Nat /\ DOMAIN chats = 1 .. Len(chats)
        /\ (chats # <<>> => 1 \in DOMAIN chats)
    BY DEF WholeChat, Ordered
  <1>3. c \in Nat /\ IsFiniteSet(QuestionsOf(chats))
    BY <1>1, <1>2, QuestionsAreFew
  <1>4. m \in MessageRows /\ m.by = "student" /\ m.number = c + 1
    BY <1>1, <1>3, QuestionsAreRows
  <1>5. /\ longer \in Seq(MessageRows) /\ Len(longer) = Len(chats) + 1 /\ longer[Len(chats) + 1] = m
        /\ \A i \in 1 .. Len(chats) : longer[i] = chats[i]
        /\ DOMAIN longer = 1 .. (Len(chats) + 1)
    BY <1>1, <1>2, <1>4, OneLonger
  <1>6. \A i \in DOMAIN longer : i \in DOMAIN chats \/ i = Len(chats) + 1
    BY <1>2, <1>5
  <1>7. QuestionsOf(longer) = QuestionsOf(chats) \cup {Len(chats) + 1}
    <2>1. \A i \in DOMAIN chats : i \in DOMAIN longer /\ longer[i] = chats[i]
      BY <1>2, <1>5
    <2>2. Len(chats) + 1 \in DOMAIN longer
      BY <1>2, <1>5
    <2>3. ASSUME NEW i \in QuestionsOf(longer)  PROVE  i \in QuestionsOf(chats) \cup {Len(chats) + 1}
      BY <1>6, <2>1 DEF QuestionsOf
    <2>4. QuestionsOf(chats) \cup {Len(chats) + 1} \subseteq QuestionsOf(longer)
      BY <1>4, <1>5, <2>1, <2>2 DEF QuestionsOf
    <2> QED
      BY <2>3, <2>4
  <1>8. Len(chats) + 1 \notin QuestionsOf(chats)
    BY <1>2 DEF QuestionsOf
  <1>9. Cardinality(QuestionsOf(longer)) = c + 1
    BY <1>1, <1>3, <1>7, <1>8, FS_AddElement
  <1>10. \A i \in QuestionsOf(chats) : chats[i].number \in 1 .. c
    BY <1>1 DEF WholeChat
  <1>11. \A i \in QuestionsOf(longer) : longer[i].number \in 1 .. (c + 1)
    <2> TAKE i \in QuestionsOf(longer)
    <2>1. CASE i = Len(chats) + 1
      BY <1>3, <1>4, <1>5, <2>1
    <2>2. CASE i # Len(chats) + 1
      <3>1. i \in QuestionsOf(chats) /\ longer[i] = chats[i]
        BY <1>2, <1>5, <1>7, <2>2 DEF QuestionsOf
      <3> QED
        <4>1. 1 .. c \subseteq 1 .. (c + 1)
          BY <1>3
        <4> QED
          BY <1>10, <3>1, <4>1
    <2> QED
      BY <2>1, <2>2
  <1>12. Ordered(longer)
    <2>1. ASSUME NEW i \in DOMAIN chats, chats[i].by = "student"
          PROVE  chats[i].number # c + 1
      BY <1>3, <1>10, <2>1 DEF QuestionsOf
    <2>2. ASSUME NEW i \in DOMAIN longer, NEW j \in DOMAIN longer, i # j,
                 longer[i].by = "student", longer[j].by = "student"
          PROVE  longer[i].number # longer[j].number
      <3>1. CASE i \in DOMAIN chats /\ j \in DOMAIN chats
        BY <1>2, <1>5, <2>2, <3>1 DEF WholeChat, Ordered
      <3>2. CASE i \in DOMAIN chats /\ j = Len(chats) + 1
        BY <1>2, <1>4, <1>5, <2>1, <2>2, <3>2
      <3>3. CASE i = Len(chats) + 1 /\ j \in DOMAIN chats
        BY <1>2, <1>4, <1>5, <2>1, <2>2, <3>3
      <3> QED
        BY <1>6, <2>2, <3>1, <3>2, <3>3
    <2> QED
      BY <1>5, <2>2 DEF Ordered
  <1>13. AfterTheirQuestions(longer)
    <2>1. ASSUME NEW i \in DOMAIN longer, i > 1, longer[i].by = "model"
          PROVE  longer[i - 1] = History!Question(longer[i].number)
      <3>1. i \in DOMAIN chats /\ i - 1 \in 1 .. Len(chats)
        BY <1>2, <1>4, <1>5, <1>6, <2>1
      <3> QED
        BY <1>2, <1>5, <2>1, <3>1 DEF WholeChat, AfterTheirQuestions
    <2> QED
      BY <2>1 DEF AfterTheirQuestions
  <1>14. longer[1].by = "student"
    <2>1. CASE chats = <<>>
      BY <1>4, <1>5, <2>1
    <2>2. CASE chats # <<>>
      BY <1>2, <1>5, <2>2 DEF WholeChat
    <2> QED
      BY <2>1, <2>2
  <1> QED
    BY <1>9, <1>11, <1>12, <1>13, <1>14 DEF WholeChat

\* An answer goes right after its question.
LEMMA AnswerGoesOn ==
    ASSUME NEW chats, WholeChat(chats), chats # <<>>, NEW m \in AnswerRows,
           chats[Len(chats)] = History!Question(m.number), NEW longer, longer = Append(chats, m)
    PROVE  WholeChat(longer)
  <1>1. /\ chats \in Seq(MessageRows) /\ Len(chats) \in Nat /\ DOMAIN chats = 1 .. Len(chats)
        /\ 1 \in DOMAIN chats
    BY DEF WholeChat, Ordered
  <1>2. m \in MessageRows /\ m.by = "model"
    BY DEF MessageRows, AnswerRows
  <1>3. /\ longer \in Seq(MessageRows) /\ Len(longer) = Len(chats) + 1 /\ longer[Len(chats) + 1] = m
        /\ \A i \in 1 .. Len(chats) : longer[i] = chats[i]
        /\ DOMAIN longer = 1 .. (Len(chats) + 1)
    BY <1>1, <1>2, OneLonger
  <1>4. \A i \in DOMAIN longer : i \in DOMAIN chats \/ i = Len(chats) + 1
    BY <1>1, <1>3
  <1>5. QuestionsOf(longer) = QuestionsOf(chats)
    BY <1>1, <1>2, <1>3, <1>4 DEF QuestionsOf
  <1>6. \A i \in QuestionsOf(longer) : longer[i] = chats[i]
    BY <1>1, <1>3, <1>5 DEF QuestionsOf
  <1>7. \A i \in QuestionsOf(longer) : longer[i].number \in 1 .. Cardinality(QuestionsOf(longer))
    BY <1>5, <1>6 DEF WholeChat
  <1>8. Ordered(longer)
    <2>1. ASSUME NEW i \in DOMAIN longer, NEW j \in DOMAIN longer, i # j,
                 longer[i].by = "student", longer[j].by = "student"
          PROVE  longer[i].number # longer[j].number
      <3>1. i \in DOMAIN chats /\ j \in DOMAIN chats
        BY <1>2, <1>3, <1>4, <2>1
      <3> QED
        BY <1>1, <1>3, <2>1, <3>1 DEF WholeChat, Ordered
    <2> QED
      BY <1>3, <2>1 DEF Ordered
  <1>9. AfterTheirQuestions(longer)
    <2>1. ASSUME NEW i \in DOMAIN longer, i > 1, longer[i].by = "model"
          PROVE  longer[i - 1] = History!Question(longer[i].number)
      <3>1. CASE i \in DOMAIN chats
        <4>1. i - 1 \in 1 .. Len(chats)
          BY <1>1, <2>1, <3>1
        <4> QED
          BY <1>1, <1>3, <2>1, <3>1, <4>1 DEF WholeChat, AfterTheirQuestions
      <3>2. CASE i = Len(chats) + 1
        <4>1. i - 1 = Len(chats) /\ Len(chats) \in 1 .. Len(chats)
          BY <1>1, <2>1, <3>2
        <4> QED
          BY <1>3, <3>2, <4>1
      <3> QED
        BY <1>4, <3>1, <3>2
    <2> QED
      BY <2>1 DEF AfterTheirQuestions
  <1>10. longer[1].by = "student"
    BY <1>1, <1>3 DEF WholeChat
  <1> QED
    BY <1>7, <1>8, <1>9, <1>10 DEF WholeChat

-----------------------------------------------------------------------------
(* What a new prompt repeats: rows and requests *)

Revisions == 0 .. MaxRevision
LectureRows == [life : {"active", "archived", "deleted"}, current : Revisions]
AskRows == [at : {"idle", "scoped", "loaded", "working", "written"}, number : Nat,
            snapshot : [Lectures -> Revisions], told : SUBSET Read, earlier : SUBSET Read,
            read : SUBSET Read, answer : Seq(AnswerRows)]

Busy(a) == a.at \in {"working", "written"}

\* What a request was told and read, students read when its scope was taken, or it was
\* passed on to it; while it works its question is the last message, and its answer is
\* one to it.
AskOk(a, chats) ==
    /\ a.told \cup a.read \subseteq History!In(a.snapshot) \cup Passed(chats)
    /\ Busy(a) => chats # <<>> /\ chats[Len(chats)] = History!Question(a.number)
    /\ a.at = "written" => /\ a.answer # <<>> /\ a.answer[1].number = a.number
                           /\ Honest(a.answer[1], chats)

AsksOk ==
    /\ asking \in [Inquiries -> AskRows]
    /\ \A q \in Inquiries : AskOk(asking[q], messages)
    /\ \A p, q \in Inquiries : Busy(asking[p]) /\ Busy(asking[q]) => p = q

HistoryInv ==
    /\ document \in [Lectures -> LectureRows]
    /\ WholeChat(messages) /\ AllHonest(messages)
    /\ AsksOk

LEMMA SnapshotIsRead ==
    ASSUME NEW snapshot \in [Lectures -> Revisions]
    PROVE  History!In(snapshot) \subseteq Read
  <1>1. MaxRevision \in Nat
    BY HistoryAssumption DEF History!HistoryBounds
  <1> QED
    BY <1>1 DEF Revisions, Read, History!Sources, History!In

LEMMA IdleIsOk ==
    ASSUME NEW chats
    PROVE  /\ History!Idle \in AskRows /\ AskOk(History!Idle, chats) /\ ~Busy(History!Idle)
           /\ History!Idle.at = "idle"
  <1>1. 0 \in Revisions /\ 0 \in Nat
    BY HistoryAssumption DEF History!HistoryBounds, Revisions
  <1>2. History!NoSnapshot \in [Lectures -> Revisions]
    BY <1>1 DEF History!NoSnapshot
  <1>3. <<>> \in Seq(AnswerRows)
    OBVIOUS
  <1>4. History!Idle \in AskRows
    BY <1>1, <1>2, <1>3 DEF History!Idle, AskRows
  <1> QED
    BY <1>4 DEF History!Idle, AskOk, Busy

LEMMA TwoRows ==
    ASSUME NEW X, NEW x \in X, NEW y \in X
    PROVE  Append(<<x>>, y) = <<x, y>>
  <1>1. <<x>> \in Seq(X) /\ <<x, y>> \in Seq(X) /\ Len(<<x>>) = 1 /\ Len(<<x, y>>) = 2
    OBVIOUS
  <1>2. Append(<<x>>, y) \in Seq(X) /\ Len(Append(<<x>>, y)) = 2
    BY <1>1
  <1>3. \A i \in 1 .. 2 : Append(<<x>>, y)[i] = <<x, y>>[i]
    BY <1>1
  <1> QED
    BY <1>1, <1>2, <1>3, SeqEqual

LEMMA HistoryStarts == History!Init => HistoryInv
  <1> SUFFICES ASSUME History!Init PROVE HistoryInv
    OBVIOUS
  <1>1. MaxRevision \in Nat /\ MaxRevision # 0
    BY HistoryAssumption DEF History!HistoryBounds
  <1>2. document \in [Lectures -> LectureRows]
    BY <1>1 DEF History!Init, LectureRows, Revisions
  <1>3. WholeChat(<<>>)
    <2>1. <<>> \in Seq(MessageRows) /\ DOMAIN <<>> = {}
      OBVIOUS
    <2>2. QuestionsOf(<<>>) = {}
      BY <2>1 DEF QuestionsOf
    <2> QED
      BY <2>1, <2>2 DEF WholeChat, Ordered, AfterTheirQuestions
  <1>4. WholeChat(<<History!Question(1), History!Answer(1, "legacy", {}, {}, History!Sources)>>)
    <2>1. PICK s : s = Append(<<>>, History!Question(1))
      OBVIOUS
    <2>2. Cardinality(QuestionsOf(<<>>)) = 0
      <3>1. QuestionsOf(<<>>) = {}
        BY DEF QuestionsOf
      <3> QED
        BY <3>1, FS_EmptySet
    <2>3. WholeChat(s)
      <3>1. s = Append(<<>>, History!Question(Cardinality(QuestionsOf(<<>>)) + 1))
        BY <2>1, <2>2
      <3> QED
        BY <1>3, <3>1, QuestionGoesOn
    <2>4. PICK m : m = History!Answer(1, "legacy", {}, {}, History!Sources)
      OBVIOUS
    <2>5. m \in AnswerRows /\ m.number = 1
      BY <2>4 DEF History!Answer, AnswerRows, Read
    <2>6. s = <<History!Question(1)>> /\ s # <<>> /\ s[Len(s)] = History!Question(1)
      BY <2>1
    <2>7. WholeChat(Append(s, m))
      BY <2>3, <2>5, <2>6, AnswerGoesOn
    <2>8. Append(s, m) = <<History!Question(1), m>>
      <3>1. History!Question(1) \in MessageRows /\ m \in MessageRows
        BY <2>5, QuestionsAreRows DEF MessageRows
      <3> QED
        BY <2>6, <3>1, TwoRows
    <2> QED
      BY <2>4, <2>7, <2>8
  <1>5. WholeChat(messages)
    BY <1>3, <1>4 DEF History!Init
  <1>6. AsksOk
    BY IdleIsOk DEF History!Init, AsksOk
  <1>7. AllHonest(messages)
    <2>1. messages = <<>> => AllHonest(messages)
      BY DEF AllHonest
    <2>2. /\ History!Question(1).tells = {}
          /\ History!Answer(1, "legacy", {}, {}, History!Sources).kind = "legacy"
      BY DEF History!Question, History!Answer
    <2>3. \A chats : /\ Honest(History!Question(1), chats)
                     /\ Honest(History!Answer(1, "legacy", {}, {}, History!Sources), chats)
      BY <2>2 DEF Honest
    <2> QED
      BY <2>1, <2>3 DEF AllHonest, History!Init
  <1> QED
    BY <1>2, <1>5, <1>6, <1>7 DEF HistoryInv

\* One request moves on while the conversation stays.
LEMMA AskMoves ==
    ASSUME HistoryInv, NEW q \in Inquiries, NEW next \in AskRows, History!To(q, next),
           UNCHANGED messages, AskOk(next, messages),
           Busy(next) => Busy(asking[q]) \/ \A p \in Inquiries : ~Busy(asking[p])
    PROVE  HistoryInv'
  <1>1. asking \in [Inquiries -> AskRows] /\ asking' = [asking EXCEPT ![q] = next] /\ document' = document
    BY DEF HistoryInv, AsksOk, History!To
  <1>2. /\ asking' \in [Inquiries -> AskRows] /\ asking'[q] = next
        /\ \A p \in Inquiries : p # q => asking'[p] = asking[p]
    BY <1>1
  <1>3. \A p \in Inquiries : AskOk(asking'[p], messages)
    BY <1>2 DEF HistoryInv, AsksOk
  <1>4. \A p, r \in Inquiries : Busy(asking'[p]) /\ Busy(asking'[r]) => p = r
    BY <1>2 DEF HistoryInv, AsksOk
  <1>5. AsksOk'
    BY <1>2, <1>3, <1>4 DEF AsksOk
  <1> QED
    BY <1>1, <1>5 DEF HistoryInv

\* The request at work writes to the conversation, all others stay.
LEMMA AskWrites ==
    ASSUME HistoryInv, NEW q \in Inquiries, NEW next \in AskRows, History!To(q, next),
           WholeChat(messages'), AllHonest(messages'), Passed(messages) \subseteq Passed(messages'),
           AskOk(next, messages'),
           Busy(asking[q]) \/ \A p \in Inquiries : ~Busy(asking[p])
    PROVE  HistoryInv'
  <1>1. asking \in [Inquiries -> AskRows] /\ asking' = [asking EXCEPT ![q] = next] /\ document' = document
    BY DEF HistoryInv, AsksOk, History!To
  <1>2. /\ asking' \in [Inquiries -> AskRows] /\ asking'[q] = next
        /\ \A p \in Inquiries : p # q => asking'[p] = asking[p] /\ ~Busy(asking[p])
    BY <1>1 DEF HistoryInv, AsksOk
  <1>3. \A p \in Inquiries : AskOk(asking'[p], messages')
    <2> TAKE p \in Inquiries
    <2>1. CASE p = q
      BY <1>2, <2>1
    <2>2. CASE p # q
      BY <1>2, <2>2 DEF HistoryInv, AsksOk, AskOk, Busy
    <2> QED
      BY <2>1, <2>2
  <1>4. \A p, r \in Inquiries : Busy(asking'[p]) /\ Busy(asking'[r]) => p = r
    BY <1>2
  <1>5. AsksOk'
    BY <1>2, <1>3, <1>4 DEF AsksOk
  <1> QED
    BY <1>1, <1>5 DEF HistoryInv

LEMMA AskTyped ==
    ASSUME HistoryInv, NEW q \in Inquiries
    PROVE  /\ asking[q] \in AskRows /\ AskOk(asking[q], messages)
           /\ asking[q].snapshot \in [Lectures -> Revisions]
           /\ asking[q].number \in Nat /\ asking[q].answer \in Seq(AnswerRows)
           /\ asking[q].told \subseteq Read /\ asking[q].earlier \subseteq Read /\ asking[q].read \subseteq Read
  BY DEF HistoryInv, AsksOk, AskRows

LEMMA LecturesChange ==
    ASSUME HistoryInv, NEW d \in Lectures,
           History!Publish(d) \/ History!Archive(d) \/ History!Restore(d) \/ History!Delete(d)
    PROVE  HistoryInv'
  <1>1. document \in [Lectures -> LectureRows] /\ document[d] \in LectureRows /\ MaxRevision \in Nat
    BY HistoryAssumption DEF HistoryInv, History!HistoryBounds
  <1>2. \E row \in LectureRows : document' = [document EXCEPT ![d] = row] /\ UNCHANGED <<messages, asking>>
    <2>1. CASE History!Publish(d)
      <3>1. [document[d] EXCEPT !.current = @ + 1] \in LectureRows
        BY <1>1, <2>1 DEF History!Publish, LectureRows, Revisions
      <3> QED
        BY <2>1, <3>1 DEF History!Publish, History!Changed
    <2>2. CASE History!Archive(d)
      <3>1. [document[d] EXCEPT !.life = "archived"] \in LectureRows
        BY <1>1 DEF LectureRows
      <3> QED
        BY <2>2, <3>1 DEF History!Archive, History!Changed
    <2>3. CASE History!Restore(d)
      <3>1. [document[d] EXCEPT !.life = "active"] \in LectureRows
        BY <1>1 DEF LectureRows
      <3> QED
        BY <2>3, <3>1 DEF History!Restore, History!Changed
    <2>4. CASE History!Delete(d)
      <3>1. [life |-> "deleted", current |-> 0] \in LectureRows
        BY <1>1 DEF LectureRows, Revisions
      <3> QED
        BY <2>4, <3>1 DEF History!Delete, History!Changed
    <2> QED
      BY <2>1, <2>2, <2>3, <2>4
  <1>3. document' \in [Lectures -> LectureRows]
    BY <1>1, <1>2
  <1>4. AsksOk'
    BY <1>2 DEF HistoryInv, AsksOk
  <1> QED
    BY <1>2, <1>3, <1>4 DEF HistoryInv

LEMMA ScopeKeeps ==
    ASSUME HistoryInv, NEW q \in Inquiries, History!CreateScope(q)
    PROVE  HistoryInv'
  <1>1. PICK next : next = [History!Idle EXCEPT !.at = "scoped", !.snapshot = History!Snapshot]
    OBVIOUS
  <1>2. History!Snapshot \in [Lectures -> Revisions]
    <2>1. 0 \in Revisions
      BY HistoryAssumption DEF History!HistoryBounds, Revisions
    <2> QED
      BY <2>1 DEF History!Snapshot, HistoryInv, LectureRows
  <1>3. next \in AskRows /\ next.at = "scoped" /\ next.told = {} /\ next.read = {}
    BY <1>1, <1>2, IdleIsOk DEF AskRows, History!Idle
  <1>4. AskOk(next, messages) /\ ~Busy(next)
    BY <1>3 DEF AskOk, Busy
  <1> QED
    BY <1>1, <1>3, <1>4, AskMoves DEF History!CreateScope

LEMMA TrimmedIsPart ==
    ASSUME NEW h \in Seq(MessageRows), NEW i \in 1 .. Len(h) + 1, NEW m \in History!ToSet(History!Trimmed(h, i))
    PROVE  m \in History!ToSet(h)
  <1>1. Len(h) \in Nat /\ DOMAIN h = 1 .. Len(h) /\ i \in Nat
    OBVIOUS
  <1>2. PICK n \in Nat, b \in Nat : n = Len(h) /\ b > 0 /\ b <= n + 1 /\ History!Trimmed(h, i) = SubSeq(h, b, n)
    <2>1. CASE i <= Len(h) /\ h[i].by = "model"
      <3>1. History!Trimmed(h, i) = SubSeq(h, i + 1, Len(h))
        BY <2>1 DEF History!Trimmed
      <3>2. i + 1 \in Nat /\ i + 1 > 0 /\ i + 1 <= Len(h) + 1
        BY <1>1, <2>1
      <3> QED
        BY <1>1, <3>1, <3>2
    <2>2. CASE ~(i <= Len(h) /\ h[i].by = "model")
      <3>1. History!Trimmed(h, i) = SubSeq(h, i, Len(h))
        BY <2>2 DEF History!Trimmed
      <3>2. i > 0 /\ i <= Len(h) + 1
        BY <1>1
      <3> QED
        BY <1>1, <3>1, <3>2
    <2> QED
      BY <2>1, <2>2
  <1>3. \A j \in b .. n : h[j] \in MessageRows
    BY <1>1, <1>2
  <1>4. /\ SubSeq(h, b, n) \in Seq(MessageRows)
        /\ Len(SubSeq(h, b, n)) = IF b <= n THEN n - b + 1 ELSE 0
        /\ \A j \in 1 .. n - b + 1 : SubSeq(h, b, n)[j] = h[b + j - 1]
    BY <1>2, <1>3, SubSeqProperties
  <1>5. PICK j \in DOMAIN SubSeq(h, b, n) : m = SubSeq(h, b, n)[j]
    BY <1>2 DEF History!ToSet
  <1>6. j \in 1 .. n - b + 1
    BY <1>2, <1>4, <1>5
  <1>7. b + j - 1 \in DOMAIN h
    BY <1>1, <1>2, <1>6
  <1> QED
    BY <1>4, <1>5, <1>6, <1>7 DEF History!ToSet

LEMMA LoadKeeps ==
    ASSUME HistoryInv, NEW q \in Inquiries, History!LoadSafeContext(q)
    PROVE  HistoryInv'
  <1>1. PICK snapshot : snapshot = asking[q].snapshot
    OBVIOUS
  <1>2. PICK history : history = History!History(snapshot)
    OBVIOUS
  <1>3. PICK i \in 1 .. Len(history) + 1 :
               History!To(q, [asking[q] EXCEPT !.at = "loaded",
                                  !.told = UNION {m.tells : m \in History!ToSet(History!Trimmed(history, i))},
                                  !.earlier = UNION {m.cites : m \in History!ToSet(history)}])
    BY <1>1, <1>2 DEF History!LoadSafeContext
  <1>4. PICK told : told = UNION {m.tells : m \in History!ToSet(History!Trimmed(history, i))}
    OBVIOUS
  <1>5. PICK earlier : earlier = UNION {m.cites : m \in History!ToSet(history)}
    OBVIOUS
  <1>6. PICK next : next = [asking[q] EXCEPT !.at = "loaded", !.told = told, !.earlier = earlier]
    OBVIOUS
  <1>7. Turned(history, snapshot) /\ history \in Seq(MessageRows)
    BY <1>2, HistoryIsTurned, HistoryAssumption DEF HistoryInv, WholeChat, Turned
  <1>8. earlier \subseteq Read
    <2>1. \A m \in History!ToSet(history) : m \in MessageRows
      BY <1>7 DEF History!ToSet
    <2> QED
      BY <1>5, <2>1, RowsAreOfSomebody
  <1>9. told \subseteq History!In(snapshot) \cup Passed(messages)
    <2>1. \A m \in History!ToSet(History!Trimmed(history, i)) : m \in History!ToSet(history)
      BY <1>7, TrimmedIsPart
    <2>2. \A m \in History!ToSet(history) :
              m.tells \subseteq History!In(snapshot) \cup Passed(messages)
      BY <1>2, ChatIsReadable, HistoryAssumption DEF HistoryInv
    <2> QED
      BY <1>4, <2>1, <2>2
  <1>10. told \subseteq Read
    BY <1>1, <1>9, AskTyped, SnapshotIsRead DEF Passed
  <1>11. /\ next \in AskRows /\ next.at = "loaded" /\ next.told = told /\ next.read = asking[q].read
         /\ next.snapshot = snapshot
    BY <1>1, <1>6, <1>8, <1>10, AskTyped DEF AskRows
  <1>12. AskOk(next, messages) /\ ~Busy(next)
    BY <1>1, <1>9, <1>11, AskTyped DEF AskOk, Busy
  <1>13. History!To(q, next) /\ UNCHANGED messages
    BY <1>3, <1>4, <1>5, <1>6 DEF History!LoadSafeContext
  <1> QED
    BY <1>11, <1>12, <1>13, AskMoves

LEMMA BeginRunKeeps ==
    ASSUME HistoryInv, NEW q \in Inquiries, History!BeginRun(q)
    PROVE  HistoryInv'
  <1>1. CASE ~History!Free
    BY <1>1, IdleIsOk, AskMoves DEF History!BeginRun
  <1>2. CASE History!Free
    <2>1. PICK n : n = Cardinality(QuestionsOf(messages)) + 1
      OBVIOUS
    <2>2. n = History!Cardinality(History!Questions) + 1
      BY <2>1 DEF QuestionsOf, History!Questions, History!Cardinality, Cardinality
    <2>3. PICK next : next = [asking[q] EXCEPT !.at = "working", !.number = n]
      OBVIOUS
    <2>4. messages' = Append(messages, History!Question(n)) /\ History!To(q, next)
      BY <1>2, <2>2, <2>3 DEF History!BeginRun
    <2>5. messages \in Seq(MessageRows) /\ WholeChat(messages)
      BY DEF HistoryInv, WholeChat, Ordered
    <2>6. n \in Nat
      BY <2>1, <2>5, QuestionsAreFew
    <2>7. WholeChat(messages')
      BY <2>1, <2>4, <2>5, QuestionGoesOn
    <2>8. messages' # <<>> /\ messages'[Len(messages')] = History!Question(n)
      <3>1. History!Question(n) \in MessageRows
        BY <2>6, QuestionsAreRows
      <3>2. PICK longer : longer = Append(messages, History!Question(n))
        OBVIOUS
      <3>3. Len(longer) = Len(messages) + 1 /\ longer[Len(messages) + 1] = History!Question(n) /\ longer # <<>>
        BY <2>5, <3>1, <3>2, OneLonger
      <3> QED
        BY <2>4, <3>2, <3>3
    <2>9. /\ next \in AskRows /\ next.at = "working" /\ next.number = n /\ next.told = asking[q].told
          /\ next.read = asking[q].read /\ next.snapshot = asking[q].snapshot
      BY <2>3, <2>6, AskTyped DEF AskRows
    <2>12. Passed(messages) \subseteq Passed(messages') /\ AllHonest(messages')
      <3>1. History!Question(n) \in MessageRows
        BY <2>6, QuestionsAreRows
      <3>2. Honest(History!Question(n), messages)
        BY QuestionsAreRows DEF Honest
      <3> QED
        BY <2>4, <2>5, <3>1, <3>2, PassedGrows, HonestGrows DEF HistoryInv
    <2>10. AskOk(next, messages')
      BY <2>8, <2>9, <2>12, AskTyped DEF AskOk
    <2>11. \A p \in Inquiries : ~Busy(asking[p])
      BY <1>2 DEF History!Free, Busy
    <2> QED
      BY <2>4, <2>7, <2>9, <2>10, <2>11, <2>12, AskWrites
  <1> QED
    BY <1>1, <1>2

LEMMA ReadKeeps ==
    ASSUME HistoryInv, NEW q \in Inquiries, NEW source \in Read, History!ReadPage(q, source)
    PROVE  HistoryInv'
  <1>1. PICK next : next = [asking[q] EXCEPT !.read = @ \cup {source}]
    OBVIOUS
  <1>2. /\ next \in AskRows /\ next.at = asking[q].at /\ next.told = asking[q].told
        /\ next.read = asking[q].read \cup {source} /\ next.snapshot = asking[q].snapshot
        /\ next.number = asking[q].number /\ next.answer = asking[q].answer
    BY <1>1, AskTyped DEF AskRows
  <1>3. source \in History!In(asking[q].snapshot) /\ asking[q].at = "working"
    BY DEF History!ReadPage
  <1>4. AskOk(next, messages) /\ Busy(asking[q])
    BY <1>2, <1>3, AskTyped DEF AskOk, Busy
  <1> QED
    BY <1>1, <1>2, <1>4, AskMoves DEF History!ReadPage

LEMMA WriteKeeps ==
    ASSUME HistoryInv, NEW q \in Inquiries, History!Write(q)
    PROVE  HistoryInv'
  <1>1. PICK r : r = asking[q]
    OBVIOUS
  <1>2. /\ r \in AskRows /\ AskOk(r, messages) /\ r.at = "working" /\ r.snapshot \in [Lectures -> Revisions]
        /\ r.number \in Nat /\ r.told \subseteq Read /\ r.earlier \subseteq Read /\ r.read \subseteq Read
    BY <1>1, AskTyped DEF History!Write
  <1>3. PICK kind \in {"answer", "asked"}, cited \in SUBSET (r.read \cup r.earlier) :
            \E cites \in {{}, cited}, known \in {{}, r.read \cup r.told} :
                History!To(q, [r EXCEPT !.at = "written",
                    !.answer = <<History!Answer(r.number, kind, cites, History!In(r.snapshot), known)>>])
    <2>1. PICK kind \in {"answer", "asked"}, cited \in SUBSET (r.read \cup r.earlier) :
              LET revoked == \E source \in cited : ~History!Readable(source)
              IN History!To(q, [r EXCEPT !.at = "written",
                    !.answer = <<History!Answer(r.number, kind, IF revoked THEN {} ELSE cited,
                                     History!In(r.snapshot), IF revoked THEN {} ELSE r.read \cup r.told)>>])
      BY <1>1 DEF History!Write
    <2> QED
      BY <2>1
  <1>4. PICK cites \in {{}, cited}, known \in {{}, r.read \cup r.told} :
                History!To(q, [r EXCEPT !.at = "written",
                    !.answer = <<History!Answer(r.number, kind, cites, History!In(r.snapshot), known)>>])
    BY <1>3
  <1>5. PICK a : a = History!Answer(r.number, kind, cites, History!In(r.snapshot), known)
    OBVIOUS
  <1>6. PICK shows : shows = History!In(r.snapshot)
    OBVIOUS
  <1>7. /\ cites \subseteq Read /\ shows \subseteq Read /\ known \subseteq Read
        /\ known \subseteq shows \cup Passed(messages)
    BY <1>2, <1>6, SnapshotIsRead DEF AskOk
  <1>8. a \in AnswerRows /\ a.number = r.number /\ Honest(a, messages)
    <2>1. a = [by |-> "model", kind |-> kind, number |-> r.number, cites |-> cites, snapshot |-> shows,
               tells |-> IF kind = "asked" THEN {} ELSE cites \cup known]
      BY <1>5, <1>6 DEF History!Answer
    <2>2. a \in AnswerRows /\ a.number = r.number
      BY <1>2, <1>7, <2>1 DEF AnswerRows
    <2>3. Honest(a, messages)
      BY <1>7, <2>1 DEF Honest
    <2> QED
      BY <2>2, <2>3
  <1>9. PICK next : next = [r EXCEPT !.at = "written", !.answer = <<a>>]
    OBVIOUS
  <1>10. <<a>> \in Seq(AnswerRows) /\ <<a>> # <<>> /\ <<a>>[1] = a
    BY <1>8
  <1>11. /\ next \in AskRows /\ next.at = "written" /\ next.told = r.told /\ next.read = r.read
         /\ next.snapshot = r.snapshot /\ next.number = r.number /\ next.answer = <<a>>
    BY <1>2, <1>9, <1>10 DEF AskRows
  <1>12. AskOk(next, messages) /\ Busy(asking[q])
    BY <1>1, <1>2, <1>8, <1>10, <1>11 DEF AskOk, Busy
  <1>13. History!To(q, next) /\ UNCHANGED messages
    BY <1>4, <1>5, <1>9 DEF History!Write
  <1> QED
    BY <1>11, <1>12, <1>13, AskMoves

LEMMA FinishKeeps ==
    ASSUME HistoryInv, NEW q \in Inquiries, History!FinishRun(q)
    PROVE  HistoryInv'
  <1>1. PICK a : a = asking[q].answer[1]
    OBVIOUS
  <1>2. /\ asking[q].at = "written" /\ History!To(q, History!Idle)
        /\ messages' \in {Append(messages, a), messages}
    BY <1>1 DEF History!FinishRun
  <1>3. /\ Busy(asking[q]) /\ asking[q].answer # <<>> /\ a.number = asking[q].number /\ messages # <<>>
        /\ messages[Len(messages)] = History!Question(a.number)
    BY <1>1, <1>2, AskTyped DEF AskOk, Busy
  <1>4. a \in AnswerRows /\ a \in MessageRows /\ Honest(a, messages)
    BY <1>1, <1>2, <1>3, AskTyped DEF AskOk, MessageRows
  <1>5. WholeChat(messages) /\ WholeChat(Append(messages, a))
    BY <1>3, <1>4, AnswerGoesOn DEF HistoryInv
  <1>6. WholeChat(messages')
    BY <1>2, <1>5
  <1>7. Passed(messages) \subseteq Passed(messages') /\ AllHonest(messages')
    <2>1. messages \in Seq(MessageRows) /\ AllHonest(messages)
      BY DEF HistoryInv, WholeChat, Ordered
    <2> QED
      BY <1>2, <1>4, <2>1, PassedGrows, HonestGrows
  <1> QED
    BY <1>2, <1>3, <1>6, <1>7, IdleIsOk, AskWrites

LEMMA HistoryStep ==
    ASSUME HistoryInv, History!Next
    PROVE  HistoryInv'
  <1>1. ASSUME NEW q \in Inquiries, History!Stop(q)  PROVE HistoryInv'
    BY <1>1, IdleIsOk, AskMoves DEF History!Stop
  <1> QED
    BY <1>1, LecturesChange, ScopeKeeps, LoadKeeps, BeginRunKeeps, ReadKeeps, WriteKeeps, FinishKeeps
       DEF History!Next, Read

LEMMA HistoryAlways == Spec => []HistoryInv
  <1>1. Init => HistoryInv
    BY HistoryStarts DEF Init
  <1>2. HistoryInv /\ [Next]_vars => HistoryInv'
    <2>1. ASSUME [Next]_vars
          PROVE  History!Next \/ UNCHANGED historyVars
      BY <2>1 DEF Next, CourseMoves, RulesMove, AccountsMove, HistoryMoves, LoopMoves, SearchMoves, vars
    <2>2. ASSUME HistoryInv, UNCHANGED historyVars  PROVE HistoryInv'
      BY <2>2 DEF historyVars, HistoryInv, AsksOk
    <2> QED
      BY <2>1, <2>2, HistoryStep
  <1> QED
    BY <1>1, <1>2, PTL DEF Spec

\* Of any documents, requests and limits: what a new prompt repeats, students could
\* read when its scope was taken, all but what an answer that cites other sources had
\* passed on without naming it; it is in pairs of question and answer, and has every
\* answer that may be repeated.
THEOREM HistoryIsKept == Spec => []HistoryIsWholeAndReadable
  <1>1. ASSUME HistoryInv  PROVE HistoryIsWholeAndReadable
    <2>1. messages \in Seq(MessageRows) /\ Len(messages) \in Nat /\ DOMAIN messages = 1 .. Len(messages)
      BY <1>1 DEF HistoryInv, WholeChat, Ordered
    <2>2. History!TypeOK
      <3>1. \A d \in Lectures : document[d] \in [life : {"active", "archived", "deleted"}, current : 0 .. MaxRevision]
        BY <1>1 DEF HistoryInv, LectureRows, Revisions
      <3>2. ASSUME NEW i \in DOMAIN messages
            PROVE  messages[i].cites \cup messages[i].tells \cup messages[i].snapshot \subseteq Read
        BY <2>1, RowsAreOfSomebody
      <3>3. ASSUME NEW i \in DOMAIN messages, messages[i].by = "model"
            PROVE  \E j \in 1 .. i - 1 : messages[j] = History!Question(messages[i].number)
        <4>1. i > 1
          BY <1>1, <2>1, <3>3 DEF HistoryInv, WholeChat
        <4>2. messages[i - 1] = History!Question(messages[i].number)
          BY <1>1, <3>3, <4>1 DEF HistoryInv, WholeChat, AfterTheirQuestions
        <4>3. i - 1 \in 1 .. i - 1
          BY <2>1, <4>1
        <4> QED
          BY <4>2, <4>3
      <3>4. ASSUME NEW q \in Inquiries
            PROVE  /\ asking[q].at \in {"idle", "scoped", "loaded", "working", "written"}
                   /\ asking[q].told \cup asking[q].earlier \cup asking[q].read \subseteq Read
        BY <1>1, AskTyped DEF AskRows
      <3> QED
        BY <3>1, <3>2, <3>3, <3>4 DEF History!TypeOK, Read
    <2>3. WholeChat(messages) /\ AllHonest(messages)
      BY <1>1 DEF HistoryInv
    <2>4. History!HistoryIsReadable
      BY <2>3, ChatIsReadable, UnnamedIsPassed, HistoryAssumption DEF History!HistoryIsReadable
    <2>5. History!TurnsPair
      <3>1. ASSUME NEW snapshot, NEW i \in 1 .. Len(History!History(snapshot)) + 1,
                   NEW k \in DOMAIN History!Trimmed(History!History(snapshot), i)
            PROVE  LET h == History!Trimmed(History!History(snapshot), i) IN
                   /\ h[k].by = (IF k % 2 = 1 THEN "student" ELSE "model")
                   /\ k % 2 = 0 => h[k - 1] = History!Question(h[k].number)
        <4>1. /\ Turned(History!History(snapshot), snapshot)
              /\ Len(History!History(snapshot)) % 2 = 0
          BY <2>3, HistoryIsTurned, HistoryAssumption DEF WholeChat
        <4> QED
          BY <4>1, TrimmedIsTurned
      <3> QED
        BY <3>1 DEF History!TurnsPair
    <2>6. History!AnswersStay
      BY <2>3, ChatIsWhole, HistoryAssumption DEF History!AnswersStay
    <2> QED
      BY <2>2, <2>4, <2>5, <2>6 DEF HistoryIsWholeAndReadable
  <1> QED
    BY <1>1, HistoryAlways, PTL

-----------------------------------------------------------------------------
(* What a step may not do *)

\* Of any rules, files and runs: a rule that was switched off stays off until a save
\* asks for it, a forced import saves all of its accepted rows or none, and what an
\* ID names does not change while the run reads.
THEOREM WordsAreKept == Spec => StepsKeepTheirWord
  <1>1. ASSUME RulesInv, AccountsInv, LoopInv, Next
        PROVE  /\ part = "rules" => Rules!OffUntilAsked
               /\ part = "accounts" => Accounts!ImportsWhole
               /\ part = "loop" => Loop!KeepsIds
    <2>1. CASE part = "rules" /\ Rules!Next
      BY <1>1, <2>1, RulesStep
    <2>2. CASE part = "accounts" /\ Accounts!Next
      BY <1>1, <2>2, AccountsStep
    <2>3. CASE part = "loop" /\ Loop!Next
      BY <1>1, <2>3, SourcesStep DEF LoopInv
    <2>4. CASE part \notin {"rules", "accounts", "loop"}
      BY <2>4
    <2> QED
      BY <1>1, <2>1, <2>2, <2>3, <2>4
         DEF Next, CourseMoves, RulesMove, AccountsMove, HistoryMoves, LoopMoves, SearchMoves
  <1>2. RulesInv /\ AccountsInv /\ LoopInv /\ [Next]_vars =>
            [/\ part = "rules" => Rules!OffUntilAsked
             /\ part = "accounts" => Accounts!ImportsWhole
             /\ part = "loop" => Loop!KeepsIds]_vars
    BY <1>1
  <1> QED
    BY <1>2, RulesAlways, AccountsAlways, LoopAlways, PTL DEF Spec, StepsKeepTheirWord

-----------------------------------------------------------------------------
(* A search: its candidates, its prompt and its answer                     *)

PagesIn(so) == {so[i] : i \in DOMAIN so}
EachOnce(so) == \A i, j \in DOMAIN so : so[i] = so[j] => i = j

\* What is merged of the pages that were found.
FoundRows(found) ==
    /\ DOMAIN found \subseteq Search!Pages
    /\ \A p \in DOMAIN found : found[p].score \in Nat /\ found[p].rank \in Nat /\ found[p].since \in Nat
    /\ \A p, q \in DOMAIN found : found[p].since = found[q].since => p = q

LEMMA SearchBounds ==
    /\ N \in Nat \ {0} /\ SizeOf \in [Search!Pages -> Nat \ {0}] /\ ContextChars \in Nat /\ MaxPages \in Nat
    /\ Scores \subseteq Nat /\ Rewrite \in BOOLEAN
    /\ First \in Nat \ {0} /\ Earlier \subseteq 1 .. (First - 1)
    /\ Search!Pages = 1 .. N /\ IsFiniteSet(Search!Pages) /\ Cardinality(Search!Pages) = N
  <1>1. IsFiniteSet(1 .. N) /\ Cardinality(1 .. N) = N /\ N \in Nat \ {0}
    <2>1. N \in Nat \ {0}
      BY SearchAssumption DEF Search!SearchConstants
    <2> QED
      BY <2>1, FS_Interval
  <1> QED
    BY <1>1, SearchAssumption DEF Search!SearchConstants, Search!Pages

LEMMA ResultsAreHits ==
    ASSUME NEW a \in Search!Results
    PROVE  DOMAIN a \subseteq 1 .. 2 /\ \A i \in DOMAIN a : a[i].page \in Search!Pages /\ a[i].score \in Nat
  <1>1. Scores \subseteq Nat
    BY SearchBounds
  <1>2. CASE a = <<>>
    BY <1>2
  <1>3. CASE a \in {<<h>> : h \in Search!Hits}
    <2>1. PICK h \in Search!Hits : a = <<h>>
      BY <1>3
    <2>2. h.page \in Search!Pages /\ h.score \in Scores /\ DOMAIN a = 1 .. 1 /\ a[1] = h
      BY <2>1 DEF Search!Hits
    <2>3. \A i \in 1 .. 1 : i = 1
      OBVIOUS
    <2>4. \A i \in DOMAIN a : a[i] = h
      BY <2>2, <2>3
    <2>5. DOMAIN a \subseteq 1 .. 2
      BY <2>2
    <2> QED
      BY <1>1, <2>2, <2>4, <2>5
  <1>4. CASE a \in Search!Hits \X Search!Hits
    <2>1. a[1] \in Search!Hits /\ a[2] \in Search!Hits /\ DOMAIN a = 1 .. 2
      BY <1>4
    <2>2. \A i \in 1 .. 2 : i = 1 \/ i = 2
      OBVIOUS
    <2>3. \A i \in 1 .. 2 : a[i] \in Search!Hits
      BY <2>1, <2>2
    <2> QED
      BY <1>1, <2>1, <2>3 DEF Search!Hits
  <1> QED
    BY <1>2, <1>3, <1>4 DEF Search!Results

LEMMA LeastIsThere ==
    ASSUME NEW S, S \subseteq Nat, S # {}
    PROVE  Search!LeastOf(S) \in S
  <1>1. PICK n \in S : \A m \in S : ~(m < n)
    BY SmallestNumber
  <1>2. \A m \in S : n <= m
    BY <1>1
  <1> QED
    BY <1>2 DEF Search!LeastOf

LEMMA LargestIsThere ==
    ASSUME NEW S, IsFiniteSet(S), S \subseteq Nat, S # {}
    PROVE  Search!LargestOf(S) \in S /\ \A y \in S : y <= Search!LargestOf(S)
  <1>1. Max(S) \in S /\ \A y \in S : y <= Max(S)
    BY MaxOfNumbers
  <1> QED
    BY <1>1 DEF Search!LargestOf

LEMMA FourAreFinite == \A a, b, c, d : IsFiniteSet({a, b, c, d})
  <1> TAKE a, b, c, d
  <1>1. IsFiniteSet({a})
    BY FS_Singleton
  <1>2. IsFiniteSet({a} \cup {b})
    BY <1>1, FS_AddElement
  <1>3. IsFiniteSet(({a} \cup {b}) \cup {c})
    BY <1>2, FS_AddElement
  <1>4. IsFiniteSet((({a} \cup {b}) \cup {c}) \cup {d})
    BY <1>3, FS_AddElement
  <1>5. (({a} \cup {b}) \cup {c}) \cup {d} = {a, b, c, d}
    OBVIOUS
  <1> QED
    BY <1>4, <1>5

LEMMA MergedRows ==
    ASSUME NEW lists, DOMAIN lists \subseteq 1 .. 2, \A i \in DOMAIN lists : lists[i] \in Search!Results,
           NEW found, found = Search!Merged(lists)
    PROVE  FoundRows(found)
  <1> DEFINE places(p) == {x \in (DOMAIN lists) \X (1 .. 2) :
                               x[2] \in DOMAIN lists[x[1]] /\ lists[x[1]][x[2]].page = p}
             ranks(p) == {x[2] : x \in places(p)}
             scores(p) == {lists[x[1]][x[2]].score : x \in places(p)}
             sinces(p) == {3 * x[1] + x[2] : x \in places(p)}
  <1>1. found = [p \in {q \in Search!Pages : places(q) # {}} |->
                    [rank |-> Search!LeastOf(ranks(p)), score |-> Search!LargestOf(scores(p)),
                     since |-> Search!LeastOf(sinces(p))]]
    BY DEF Search!Merged
  <1>2. ASSUME NEW p, NEW x \in places(p)
        PROVE  /\ x[1] \in DOMAIN lists /\ x[1] \in 1 .. 2 /\ x[2] \in 1 .. 2
               /\ lists[x[1]][x[2]].page = p /\ lists[x[1]][x[2]].score \in Nat
    <2>1. x \in (DOMAIN lists) \X (1 .. 2) /\ x[2] \in DOMAIN lists[x[1]] /\ lists[x[1]][x[2]].page = p
      OBVIOUS
    <2>2. x[1] \in DOMAIN lists /\ x[2] \in 1 .. 2
      BY <2>1
    <2>3. lists[x[1]] \in Search!Results
      BY <2>2
    <2> QED
      BY <2>1, <2>2, <2>3, ResultsAreHits
  <1>3. ASSUME NEW p, places(p) # {}
        PROVE  /\ ranks(p) \subseteq Nat /\ ranks(p) # {}
               /\ scores(p) \subseteq Nat /\ scores(p) # {} /\ IsFiniteSet(scores(p))
               /\ sinces(p) \subseteq Nat /\ sinces(p) # {}
    <2>1. ranks(p) # {} /\ scores(p) # {} /\ sinces(p) # {}
      BY <1>3
    <2> HIDE DEF places
    <2>2. ranks(p) \subseteq Nat
      BY <1>2
    <2>3. scores(p) \subseteq Nat
      BY <1>2
    <2>4. sinces(p) \subseteq Nat
      BY <1>2
    <2>5. IsFiniteSet(scores(p))
      <3> DEFINE all == {lists[1][1].score, lists[1][2].score, lists[2][1].score, lists[2][2].score}
      <3>1. \A i \in 1 .. 2 : i = 1 \/ i = 2
        OBVIOUS
      <3>2. \A x \in places(p) : lists[x[1]][x[2]].score \in all
        BY <1>2, <3>1
      <3>3. scores(p) \in SUBSET all
        BY <3>2
      <3>4. IsFiniteSet(all)
        BY FourAreFinite
      <3> HIDE DEF all, scores
      <3> QED
        BY <3>3, <3>4, FS_Subset
    <2> QED
      BY <2>1, <2>2, <2>3, <2>4, <2>5
  <1> HIDE DEF ranks, scores, places, sinces
  <1>4. \A p \in DOMAIN found : p \in Search!Pages /\ places(p) # {}
    BY <1>1
  <1>5. \A p \in DOMAIN found : /\ found[p].rank = Search!LeastOf(ranks(p))
                                /\ found[p].score = Search!LargestOf(scores(p))
                                /\ found[p].since = Search!LeastOf(sinces(p))
    BY <1>1
  <1>6. ASSUME NEW p \in DOMAIN found
        PROVE  /\ found[p].score \in Nat /\ found[p].rank \in Nat /\ found[p].since \in Nat
               /\ found[p].since \in sinces(p)
    <2>1. /\ ranks(p) \subseteq Nat /\ ranks(p) # {}
          /\ scores(p) \subseteq Nat /\ scores(p) # {} /\ IsFiniteSet(scores(p))
          /\ sinces(p) \subseteq Nat /\ sinces(p) # {}
      BY <1>3, <1>4
    <2>2. Search!LeastOf(ranks(p)) \in ranks(p) /\ Search!LeastOf(sinces(p)) \in sinces(p)
      BY <2>1, LeastIsThere
    <2>3. Search!LargestOf(scores(p)) \in scores(p)
      BY <2>1, LargestIsThere
    <2> QED
      BY <1>5, <2>1, <2>2, <2>3
  <1>7. ASSUME NEW p \in DOMAIN found, NEW q \in DOMAIN found, found[p].since = found[q].since
        PROVE  p = q
    <2>1. PICK x \in places(p) : found[p].since = 3 * x[1] + x[2]
      BY <1>6 DEF sinces
    <2>2. PICK y \in places(q) : found[q].since = 3 * y[1] + y[2]
      BY <1>6 DEF sinces
    <2>3. x[1] \in 1 .. 2 /\ x[2] \in 1 .. 2 /\ y[1] \in 1 .. 2 /\ y[2] \in 1 .. 2
      BY <1>2
    <2>4. PICK a \in 1 .. 2, b \in 1 .. 2, c \in 1 .. 2, d \in 1 .. 2 : a = x[1] /\ b = x[2] /\ c = y[1] /\ d = y[2]
      BY <2>3
    <2>5. 3 * a + b = 3 * c + d
      BY <1>7, <2>1, <2>2, <2>4
    <2>6. a = c /\ b = d
      BY <2>5
    <2>7. lists[a][b].page = p /\ lists[c][d].page = q
      BY <1>2, <2>4
    <2> QED
      BY <2>6, <2>7
  <1> QED
    BY <1>4, <1>6, <1>7 DEF FoundRows

LEMMA NumbersDiffer ==
    \A a \in Nat, b \in Nat, c \in Nat : ~(a > a \/ (a = a /\ (b < b \/ (b = b /\ c < c))))
  OBVIOUS

LEMMA NumbersCompare ==
    \A a \in Nat, b \in Nat, c \in Nat, d \in Nat, e \in Nat, f \in Nat :
        \/ a > d \/ (a = d /\ (b < e \/ (b = e /\ c < f)))
        \/ d > a \/ (d = a /\ (e < b \/ (e = b /\ f < c)))
        \/ c = f
  OBVIOUS

LEMMA NumbersChain ==
    \A a \in Nat, b \in Nat, c \in Nat, d \in Nat, e \in Nat, f \in Nat, g \in Nat, h \in Nat, i \in Nat :
        /\ a > d \/ (a = d /\ (b < e \/ (b = e /\ c < f)))
        /\ d > g \/ (d = g /\ (e < h \/ (e = h /\ f < i)))
        => a > g \/ (a = g /\ (b < h \/ (b = h /\ c < i)))
  OBVIOUS

LEMMA PagesAreOrdered ==
    ASSUME NEW found, FoundRows(found), NEW D, D = DOMAIN found,
           NEW less, less = {x \in D \X D : Search!Precedes(found[x[1]], found[x[2]])}
    PROVE  /\ Orders(less, D)
           /\ \A p \in D, q \in D : <<p, q>> \in less <=> Search!Precedes(found[p], found[q])
  <1>1. \A p \in D, q \in D : <<p, q>> \in less <=> Search!Precedes(found[p], found[q])
    <2> TAKE p \in D, q \in D
    <2>1. <<p, q>> \in D \X D /\ <<p, q>>[1] = p /\ <<p, q>>[2] = q
      OBVIOUS
    <2> QED
      BY <2>1
  <1>2. \A p \in D : found[p].score \in Nat /\ found[p].rank \in Nat /\ found[p].since \in Nat
    BY DEF FoundRows
  <1>3. \A x \in D : <<x, x>> \notin less
    <2> TAKE x \in D
    <2>1. ~Search!Precedes(found[x], found[x])
      BY <1>2, NumbersDiffer DEF Search!Precedes
    <2> QED
      BY <1>1, <2>1
  <1>4. ASSUME NEW x \in D, NEW y \in D, NEW z \in D, <<x, y>> \in less, <<y, z>> \in less
        PROVE  <<x, z>> \in less
    <2>1. Search!Precedes(found[x], found[y]) /\ Search!Precedes(found[y], found[z])
      BY <1>1, <1>4
    <2>2. PICK a \in Nat, b \in Nat, c \in Nat : found[x].score = a /\ found[x].rank = b /\ found[x].since = c
      BY <1>2
    <2>3. PICK d \in Nat, e \in Nat, f \in Nat : found[y].score = d /\ found[y].rank = e /\ found[y].since = f
      BY <1>2
    <2>4. PICK g \in Nat, h \in Nat, i \in Nat : found[z].score = g /\ found[z].rank = h /\ found[z].since = i
      BY <1>2
    <2>5. /\ a > d \/ (a = d /\ (b < e \/ (b = e /\ c < f)))
          /\ d > g \/ (d = g /\ (e < h \/ (e = h /\ f < i)))
      BY <2>1, <2>2, <2>3, <2>4 DEF Search!Precedes
    <2>6. a > g \/ (a = g /\ (b < h \/ (b = h /\ c < i)))
      BY <2>5, NumbersChain
    <2>7. Search!Precedes(found[x], found[z])
      BY <2>2, <2>4, <2>6 DEF Search!Precedes
    <2> QED
      BY <1>1, <2>7
  <1>5. ASSUME NEW x \in D, NEW y \in D, x # y
        PROVE  <<x, y>> \in less \/ <<y, x>> \in less
    <2>1. found[x].since # found[y].since
      BY <1>5 DEF FoundRows
    <2>2. Search!Precedes(found[x], found[y]) \/ Search!Precedes(found[y], found[x])
      BY <1>2, <2>1, NumbersCompare DEF Search!Precedes
    <2> QED
      BY <1>1, <2>2
  <1> QED
    BY <1>1, <1>3, <1>4, <1>5 DEF Orders

\* The pages that were found, each once, and the best one first.
OrderOf(t, found) ==
    /\ t \in Seq(Search!Pages) /\ PagesIn(t) = DOMAIN found /\ EachOnce(t)
    /\ \A i, j \in DOMAIN t : i < j => Search!Precedes(found[t[i]], found[t[j]])

LEMMA OrderedPages ==
    ASSUME NEW found, FoundRows(found)
    PROVE  OrderOf(Search!Ordered(found), found)
  <1>0. PICK t, D : t = Search!Ordered(found) /\ D = DOMAIN found
    OBVIOUS
  <1>1. PICK less : less = {x \in D \X D : Search!Precedes(found[x[1]], found[x[2]])}
    OBVIOUS
  <1>2. IsFiniteSet(D) /\ D \subseteq Search!Pages
    BY <1>0, SearchBounds, FS_Subset DEF FoundRows
  <1>3. /\ Orders(less, D)
        /\ \A p \in D, q \in D : <<p, q>> \in less <=> Search!Precedes(found[p], found[q])
    BY <1>0, <1>1, PagesAreOrdered
  <1>4. PICK n : n = Cardinality(D)
    OBVIOUS
  <1>5. Search!Cardinality(D) = n
    BY <1>4 DEF Search!Cardinality, Cardinality
  <1>6. t = CHOOSE so \in [1 .. n -> D] :
                /\ {so[i] : i \in DOMAIN so} = D
                /\ \A i, j \in DOMAIN so : i < j => Search!Precedes(found[so[i]], found[so[j]])
    BY <1>0, <1>5 DEF Search!Ordered, Search!InOrder, Search!Range
  <1>7. PICK l : Listed(l, D, less)
    BY <1>2, <1>3, ListedExists
  <1>8. l \in [1 .. n -> D] /\ {l[i] : i \in DOMAIN l} = D
        /\ \A i, j \in DOMAIN l : i < j => Search!Precedes(found[l[i]], found[l[j]])
    BY <1>3, <1>4, <1>7 DEF Listed
  <1>9. t \in [1 .. n -> D] /\ {t[i] : i \in DOMAIN t} = D
        /\ \A i, j \in DOMAIN t : i < j => Search!Precedes(found[t[i]], found[t[j]])
    BY ONLY <1>6, <1>8
  <1>9a. \A i, j \in DOMAIN t : i < j => <<t[i], t[j]>> \in less
    BY <1>3, <1>9
  <1>9b. Listed(t, D, less)
    BY <1>4, <1>9, <1>9a DEF Listed
  <1>9c. t \in Seq(D) /\ Len(t) = Cardinality(D) /\ \A i, j \in DOMAIN t : t[i] = t[j] => i = j
    BY <1>2, <1>3, <1>9b, ListedOnce
  <1>10. t \in Seq(Search!Pages) /\ \A i \in DOMAIN t : t[i] \in D
    BY <1>2, <1>9c
  <1> QED
    BY <1>0, <1>9, <1>9c, <1>10 DEF OrderOf, PagesIn, EachOnce

\* Pages in the order of the file.
InFileOrder(t, S) ==
    /\ t \in [1 .. Cardinality(S) -> S] /\ PagesIn(t) = S
    /\ \A i, j \in DOMAIN t : i < j => t[i] < t[j]

LEMMA SortedPages ==
    ASSUME NEW S \in SUBSET Search!Pages
    PROVE  IsFiniteSet(S) /\ \E t : InFileOrder(t, S)
  <1>1. IsFiniteSet(S) /\ S \subseteq Nat
    <2>1. Search!Pages = 1 .. N /\ N \in Nat /\ IsFiniteSet(Search!Pages)
      BY SearchBounds
    <2>2. 1 .. N \subseteq Nat
      BY <2>1
    <2> QED
      BY <2>1, <2>2, FS_Subset
  <1>2. PICK less : less = {x \in S \X S : x[1] < x[2]}
    OBVIOUS
  <1>3. \A p \in S, q \in S : <<p, q>> \in less <=> p < q
    <2> TAKE p \in S, q \in S
    <2>1. <<p, q>> \in S \X S /\ <<p, q>>[1] = p /\ <<p, q>>[2] = q
      OBVIOUS
    <2> QED
      BY <1>2, <2>1
  <1>4. Orders(less, S)
    <2>1. ASSUME NEW x \in S, NEW y \in S, NEW z \in S, <<x, y>> \in less, <<y, z>> \in less
          PROVE  <<x, z>> \in less
      <3>1. x \in Nat /\ y \in Nat /\ z \in Nat /\ x < y /\ y < z
        BY <1>1, <1>3, <2>1
      <3> QED
        BY <1>3, <3>1
    <2>2. \A x \in S : <<x, x>> \notin less
      BY <1>1, <1>3
    <2>3. ASSUME NEW x \in S, NEW y \in S, x # y
          PROVE  <<x, y>> \in less \/ <<y, x>> \in less
      <3>1. x \in Nat /\ y \in Nat
        BY <1>1
      <3> QED
        BY <1>3, <2>3, <3>1
    <2> QED
      BY <2>1, <2>2, <2>3 DEF Orders
  <1>5. PICK l : Listed(l, S, less)
    BY <1>1, <1>4, ListedExists
  <1>6. \A i, j \in DOMAIN l : l[i] \in S
    BY <1>5 DEF Listed
  <1>7. InFileOrder(l, S)
    BY <1>3, <1>5, <1>6 DEF Listed, InFileOrder, PagesIn
  <1> QED
    BY <1>1, <1>7

LEMMA WithPage ==
    ASSUME NEW R, NEW order \in Seq(Search!Pages),
           R = {so \in Seq(Search!Pages) :
                    /\ \A i, j \in DOMAIN so : so[i] = so[j] => i = j
                    /\ Len(order) <= Len(so) /\ \A i \in DOMAIN order : so[i] = order[i]},
           NEW so \in R, NEW p \in Int
    PROVE  Search!With(so, p) \in R
  <1>1. CASE p \in Search!Pages /\ \A i \in DOMAIN so : so[i] # p
    <2>1. PICK w : w = Append(so, p)
      OBVIOUS
    <2>2. /\ so \in Seq(Search!Pages) /\ Len(so) \in Nat /\ Len(order) \in Nat
          /\ Len(order) <= Len(so) /\ DOMAIN so = 1 .. Len(so) /\ DOMAIN order = 1 .. Len(order)
          /\ \A i, j \in DOMAIN so : so[i] = so[j] => i = j
          /\ \A i \in DOMAIN order : so[i] = order[i]
      OBVIOUS
    <2>3. /\ w \in Seq(Search!Pages) /\ Len(w) = Len(so) + 1 /\ DOMAIN w = 1 .. (Len(so) + 1)
          /\ w[Len(so) + 1] = p /\ \A i \in 1 .. Len(so) : w[i] = so[i]
      BY <1>1, <2>1, <2>2
    <2>4. \A i \in DOMAIN w : i \in DOMAIN so \/ i = Len(so) + 1
      BY <2>2, <2>3
    <2>5. \A i, j \in DOMAIN w : w[i] = w[j] => i = j
      BY <1>1, <2>2, <2>3, <2>4
    <2>6. Len(order) <= Len(w)
      BY <2>2, <2>3
    <2>7. \A i \in DOMAIN order : w[i] = order[i]
      BY <2>2, <2>3
    <2>8. Search!With(so, p) = w
      BY <1>1, <2>1 DEF Search!With, Search!Range
    <2> QED
      BY <2>3, <2>5, <2>6, <2>7, <2>8
  <1>2. CASE ~(p \in Search!Pages /\ \A i \in DOMAIN so : so[i] # p)
    BY <1>2 DEF Search!With, Search!Range
  <1> QED
    BY <1>1, <1>2

\* The candidates: the found pages stay in front, and no page is there twice.
LEMMA CandidatePages ==
    ASSUME NEW order \in Seq(Search!Pages), EachOnce(order), NEW t, t = Search!Candidates(order)
    PROVE  /\ t \in Seq(Search!Pages) /\ Len(t) <= MaxPages /\ EachOnce(t)
           /\ t # <<>> /\ order # <<>> => t[1] = order[1]
  <1> DEFINE P == Search!Pages
             R == {so \in Seq(P) :
                       /\ \A i, j \in DOMAIN so : so[i] = so[j] => i = j
                       /\ Len(order) <= Len(so) /\ \A i \in DOMAIN order : so[i] = order[i]}
             Near(so, p) == Search!With(Search!With(so, p + 1), p - 1)
             step == [x \in R \X P |-> Near(x[1], x[2])]
             Turns(g) == g = [s \in SUBSET (DOMAIN order) |->
                                  IF s = {} THEN order ELSE Near(g[s \ {Max(s)}], order[Max(s)])]
  <1>1. PICK near : near = (CHOOSE g : Turns(g))[DOMAIN order]
    OBVIOUS
  <1>2. t = SubSeq(near, 1, IF Len(near) < MaxPages THEN Len(near) ELSE MaxPages)
    BY <1>1 DEF Search!Candidates, Search!FoldLeft, Search!MapThenFoldSet, Search!Max, Max
  <1>3. order \in R
    <2>1. Len(order) \in Nat
      OBVIOUS
    <2> QED
      BY <2>1 DEF EachOnce
  <1>4. ASSUME NEW so \in R, NEW p \in P  PROVE Near(so, p) \in R
    <2>1. p + 1 \in Int /\ p - 1 \in Int
      BY SearchBounds
    <2>2. Search!With(so, p + 1) \in R
      BY <2>1, WithPage
    <2> HIDE DEF R
    <2> QED
      BY <2>1, <2>2, WithPage DEF R
  <1>5. step \in [R \X P -> R] /\ \A so \in R, p \in P : step[<<so, p>>] = Near(so, p)
    BY <1>4
  <1> HIDE DEF R, step, Near
  <1>6. \E g : Turns(g)
    <2>1. PICK g \in [SUBSET (DOMAIN order) -> R] : Folds(g, order, order, step, SUBSET (DOMAIN order))
      BY <1>3, <1>5, FoldExists
    <2>2. ASSUME NEW s \in SUBSET (DOMAIN order), s # {}
          PROVE  g[s] = Near(g[s \ {Max(s)}], order[Max(s)])
      <3>1. Max(s) \in DOMAIN order
        BY <2>2, LastPlaceOf
      <3>2. g[s \ {Max(s)}] \in R /\ order[Max(s)] \in P
        BY <2>1, <3>1
      <3>3. g[s] = step[<<g[s \ {Max(s)}], order[Max(s)]>>]
        BY <2>1, <2>2 DEF Folds
      <3> QED
        BY <1>5, <3>2, <3>3
    <2>3. g[{}] = order
      BY <2>1 DEF Folds
    <2>4. Turns(g)
      <3>1. g = [s \in SUBSET (DOMAIN order) |-> g[s]]
        BY <2>1
      <3> QED
        BY <2>2, <2>3, <3>1
    <2> QED
      BY <2>4
  <1>7. PICK g : Turns(g) /\ near = g[DOMAIN order]
    BY <1>1, <1>6
  <1>8. Follows(g, order, order, step, R, P)
    <2>1. g[{}] = order
      BY <1>7
    <2>2. ASSUME NEW s \in SUBSET (DOMAIN order), s # {}, g[s \ {Max(s)}] \in R
          PROVE  g[s] = step[<<g[s \ {Max(s)}], order[Max(s)]>>]
      <3>1. Max(s) \in DOMAIN order
        BY <2>2, LastPlaceOf
      <3>2. order[Max(s)] \in P
        BY <3>1
      <3>3. g[s] = Near(g[s \ {Max(s)}], order[Max(s)])
        BY <1>7, <2>2
      <3> QED
        BY <1>5, <2>2, <3>2, <3>3
    <2> QED
      BY <1>3, <1>5, <2>1, <2>2 DEF Follows
  <1>9. near \in R
    <2>1. PICK h : FoldSteps(h, order, order, step, R) /\ g[DOMAIN order] = h[Len(order)]
      BY <1>8, FoldWalks
    <2>2. h \in [0 .. Len(order) -> R] /\ Len(order) \in 0 .. Len(order)
      BY <2>1 DEF FoldSteps
    <2> QED
      BY <1>7, <2>1, <2>2
  <1>10. /\ near \in Seq(P) /\ \A i, j \in DOMAIN near : near[i] = near[j] => i = j
         /\ Len(order) <= Len(near) /\ \A i \in DOMAIN order : near[i] = order[i]
    BY <1>9 DEF R
  <1>11. PICK n \in Nat : /\ n = (IF Len(near) < MaxPages THEN Len(near) ELSE MaxPages)
                          /\ n <= Len(near) /\ n <= MaxPages
    <2>1. Len(near) \in Nat /\ MaxPages \in Nat
      BY <1>10, SearchBounds
    <2> QED
      BY <2>1
  <1>12. t = SubSeq(near, 1, n)
    BY <1>2, <1>11
  <1>13. /\ t \in Seq(P) /\ Len(t) = n /\ DOMAIN t = 1 .. n
         /\ \A i \in 1 .. n : t[i] = near[i] /\ i \in DOMAIN near
    BY <1>10, <1>11, <1>12
  <1>14. \A i, j \in DOMAIN t : t[i] = t[j] => i = j
    BY <1>10, <1>13
  <1>15. t # <<>> /\ order # <<>> => t[1] = order[1]
    <2>1. t # <<>> => 1 \in 1 .. n
      BY <1>13
    <2>2. order # <<>> => 1 \in DOMAIN order
      OBVIOUS
    <2> QED
      BY <1>10, <1>13, <2>1, <2>2
  <1> QED
    BY <1>11, <1>13, <1>14, <1>15 DEF EachOnce

LEMMA Totals ==
    /\ Search!Total({}) = 0
    /\ \A S \in SUBSET Search!Pages : Search!Total(S) \in Nat
    /\ \A S \in SUBSET Search!Pages : \A p \in Search!Pages \ S :
           Search!Total(S \cup {p}) = SizeOf[p] + Search!Total(S)
  <1>1. \A S : Search!Total(S) = SumFunctionOnSet(SizeOf, S)
    BY DEF Search!Total, Search!SumFunctionOnSet, Search!FoldFunctionOnSet, Search!MapThenFoldSet,
           SumFunctionOnSet, FoldFunctionOnSet, MapThenFoldSet
  <1>2. \A S \in SUBSET Search!Pages : NumbersOn(SizeOf, S)
    <2> TAKE S \in SUBSET Search!Pages
    <2>1. IsFiniteSet(S)
      BY SearchBounds, FS_Subset
    <2>2. \A p \in Search!Pages : SizeOf[p] \in Nat
      BY SearchBounds
    <2> QED
      BY <2>1, <2>2 DEF NumbersOn
  <1>3. ASSUME NEW S \in SUBSET Search!Pages, NEW p \in Search!Pages \ S
        PROVE  Search!Total(S \cup {p}) = SizeOf[p] + Search!Total(S)
    <2>1. NumbersOn(SizeOf, S \cup {p})
      BY <1>2
    <2> QED
      BY <1>1, <2>1, SumAdds
  <1> QED
    BY <1>1, <1>2, <1>3, SumEmpty, SumType

\* What the choice keeps after the first k candidates.
ChosenSoFar(r, length, k, c) ==
    /\ c.pages \subseteq {r[i] : i \in 1 .. k}
    /\ c.used = Search!Total(c.pages) /\ c.used <= ContextChars
    /\ \A i \in 1 .. k : length[r[i]] # 0 /\ r[i] \notin c.pages =>
           Search!Total({r[j] : j \in 1 .. (i - 1)} \cap c.pages) + SizeOf[r[i]] > ContextChars

Chooses(length, c, p) ==
    IF length[p] = 0 \/ c.used + length[p] > ContextChars THEN c
    ELSE [pages |-> c.pages \cup {p}, used |-> c.used + length[p]]

LEMMA OneMoreChosen ==
    ASSUME NEW r \in Seq(Search!Pages), \A i, j \in DOMAIN r : r[i] = r[j] => i = j,
           NEW length, \A i \in DOMAIN r : length[r[i]] \in {0, SizeOf[r[i]]},
           NEW k \in 1 .. Len(r), NEW c \in [pages : SUBSET Search!Pages, used : Nat],
           ChosenSoFar(r, length, k - 1, c),
           NEW d, d = Chooses(length, c, r[k])
    PROVE  ChosenSoFar(r, length, k, d)
  <1>1. /\ Len(r) \in Nat /\ DOMAIN r = 1 .. Len(r) /\ k \in DOMAIN r /\ r[k] \in Search!Pages
        /\ length[r[k]] \in {0, SizeOf[r[k]]}
    OBVIOUS
  <1>2. SizeOf[r[k]] \in Nat /\ ContextChars \in Nat
    BY <1>1, SearchBounds
  <1>3. /\ c.pages \subseteq {r[i] : i \in 1 .. (k - 1)}
        /\ c.used = Search!Total(c.pages) /\ c.used <= ContextChars
        /\ \A i \in 1 .. (k - 1) : length[r[i]] # 0 /\ r[i] \notin c.pages =>
               Search!Total({r[j] : j \in 1 .. (i - 1)} \cap c.pages) + SizeOf[r[i]] > ContextChars
    BY DEF ChosenSoFar
  <1>4. \A i \in 1 .. k : i = k \/ i \in 1 .. (k - 1)
    BY <1>1
  <1>5. \A i \in 1 .. (k - 1) : i \in 1 .. k /\ i \in DOMAIN r /\ i # k
    BY <1>1
  <1>6. r[k] \notin {r[i] : i \in 1 .. (k - 1)}
    BY <1>1, <1>5
  <1>7. {r[i] : i \in 1 .. (k - 1)} \subseteq {r[i] : i \in 1 .. k}
    BY <1>5
  <1>8. CASE length[r[k]] = 0 \/ c.used + length[r[k]] > ContextChars
    <2>1. d = c
      BY <1>8 DEF Chooses
    <2>2. ASSUME NEW i \in 1 .. k, length[r[i]] # 0, r[i] \notin c.pages
          PROVE  Search!Total({r[j] : j \in 1 .. (i - 1)} \cap c.pages) + SizeOf[r[i]] > ContextChars
      <3>1. CASE i \in 1 .. (k - 1)
        BY <1>3, <2>2, <3>1
      <3>2. CASE i = k
        <4>1. {r[j] : j \in 1 .. (i - 1)} \cap c.pages = c.pages
          BY <1>3, <3>2
        <4>2. c.used + SizeOf[r[k]] > ContextChars
          BY <1>1, <1>8, <2>2, <3>2
        <4> QED
          BY <1>3, <3>2, <4>1, <4>2
      <3> QED
        BY <1>4, <3>1, <3>2
    <2>3. c.pages \subseteq {r[i] : i \in 1 .. k}
      BY <1>3, <1>7
    <2> QED
      BY <1>3, <2>1, <2>2, <2>3 DEF ChosenSoFar
  <1>9. CASE ~(length[r[k]] = 0 \/ c.used + length[r[k]] > ContextChars)
    <2>1. d = [pages |-> c.pages \cup {r[k]}, used |-> c.used + length[r[k]]]
      BY <1>9 DEF Chooses
    <2>2. d.pages = c.pages \cup {r[k]} /\ d.used = c.used + SizeOf[r[k]] /\ length[r[k]] = SizeOf[r[k]]
      BY <1>1, <1>9, <2>1
    <2>3. d.used = Search!Total(d.pages)
      <3>1. r[k] \in Search!Pages \ c.pages /\ c.pages \in SUBSET Search!Pages
        BY <1>1, <1>3, <1>6
      <3>2. Search!Total(c.pages \cup {r[k]}) = SizeOf[r[k]] + Search!Total(c.pages)
        BY <3>1, Totals
      <3> QED
        BY <1>2, <1>3, <2>2, <3>2
    <2>4. d.used <= ContextChars
      BY <1>2, <1>9, <2>2
    <2>5. ASSUME NEW i \in 1 .. k, length[r[i]] # 0, r[i] \notin d.pages
          PROVE  Search!Total({r[j] : j \in 1 .. (i - 1)} \cap d.pages) + SizeOf[r[i]] > ContextChars
      <3>1. i \in 1 .. (k - 1) /\ r[i] \notin c.pages
        BY <1>4, <2>2, <2>5
      <3>2. \A j \in 1 .. (i - 1) : j \in 1 .. (k - 1)
        BY <3>1, <1>1
      <3>3. r[k] \notin {r[j] : j \in 1 .. (i - 1)}
        BY <1>6, <3>2
      <3>4. {r[j] : j \in 1 .. (i - 1)} \cap d.pages = {r[j] : j \in 1 .. (i - 1)} \cap c.pages
        BY <2>2, <3>3
      <3> QED
        BY <1>3, <2>5, <3>1, <3>4
    <2>6. d.pages \subseteq {r[i] : i \in 1 .. k}
      <3>1. k \in 1 .. k
        BY <1>1
      <3> QED
        BY <1>3, <1>7, <2>2, <3>1
    <2> QED
      BY <2>3, <2>4, <2>5, <2>6 DEF ChosenSoFar
  <1> QED
    BY <1>8, <1>9

\* The chosen pages fit, and a page that is left out did not fit beside those before it.
ChosenOf(C, r, length) ==
    /\ C \subseteq PagesIn(r) /\ C \in SUBSET Search!Pages /\ Search!Total(C) <= ContextChars
    /\ \A i \in DOMAIN r : length[r[i]] # 0 /\ r[i] \notin C =>
           Search!Total({r[j] : j \in 1 .. (i - 1)} \cap C) + SizeOf[r[i]] > ContextChars

LEMMA ChosenPages ==
    ASSUME NEW r \in Seq(Search!Pages), r = reading, EachOnce(r),
           NEW length, \A i \in DOMAIN r : length[r[i]] \in {0, SizeOf[r[i]]},
           NEW C, C = Search!Chosen(length)
    PROVE  ChosenOf(C, r, length)
  <1> DEFINE P == Search!Pages
             R == [pages : SUBSET P, used : Nat]
             X == {r[i] : i \in DOMAIN r}
             base == [pages |-> {}, used |-> 0]
             step == [x \in R \X X |-> Chooses(length, x[1], x[2])]
             Turns(g) == g = [s \in SUBSET (DOMAIN r) |->
                                  IF s = {} THEN base ELSE Chooses(length, g[s \ {Max(s)}], r[Max(s)])]
  <1>1. C = ((CHOOSE g : Turns(g))[DOMAIN r]).pages
    BY DEF Search!Chosen, Search!FoldLeft, Search!MapThenFoldSet, Search!Max, Max, Chooses
  <1>2. /\ r \in Seq(X) /\ DOMAIN r = 1 .. Len(r) /\ Len(r) \in Nat /\ X \in SUBSET P
        /\ \A i \in DOMAIN r : r[i] \in X
    OBVIOUS
  <1>3. base \in R
    OBVIOUS
  <1>4. ASSUME NEW c \in R, NEW p \in X  PROVE Chooses(length, c, p) \in R
    <2>1. p \in P /\ length[p] \in Nat /\ c.pages \in SUBSET P /\ c.used \in Nat
      <3>1. p \in P /\ length[p] \in {0, SizeOf[p]}
        BY <1>2
      <3>2. SizeOf[p] \in Nat
        BY <3>1, SearchBounds
      <3> QED
        BY <3>1, <3>2
    <2>2. [pages |-> c.pages \cup {p}, used |-> c.used + length[p]] \in R
      BY <2>1
    <2> HIDE DEF R
    <2> QED
      BY <2>2 DEF Chooses
  <1>5. step \in [R \X X -> R] /\ \A c \in R, p \in X : step[<<c, p>>] = Chooses(length, c, p)
    BY <1>4
  <1> HIDE DEF R, X, step, base
  <1>6. \E g : Turns(g)
    <2>1. PICK g \in [SUBSET (DOMAIN r) -> R] : Folds(g, base, r, step, SUBSET (DOMAIN r))
      BY <1>2, <1>3, <1>5, FoldExists
    <2>2. ASSUME NEW s \in SUBSET (DOMAIN r), s # {}
          PROVE  g[s] = Chooses(length, g[s \ {Max(s)}], r[Max(s)])
      <3>1. Max(s) \in DOMAIN r
        BY <1>2, <2>2, LastPlaceOf
      <3>2. g[s \ {Max(s)}] \in R /\ r[Max(s)] \in X
        BY <1>2, <2>1, <3>1
      <3>3. g[s] = step[<<g[s \ {Max(s)}], r[Max(s)]>>]
        BY <2>1, <2>2 DEF Folds
      <3> QED
        BY <1>5, <3>2, <3>3
    <2>3. g[{}] = base
      BY <2>1 DEF Folds
    <2>4. Turns(g)
      <3>1. g = [s \in SUBSET (DOMAIN r) |-> g[s]]
        BY <2>1
      <3> QED
        BY <2>2, <2>3, <3>1
    <2> QED
      BY <2>4
  <1>7. PICK g : Turns(g) /\ C = g[DOMAIN r].pages
    BY <1>1, <1>6
  <1>8. Follows(g, base, r, step, R, X)
    <2>1. g[{}] = base
      BY <1>7
    <2>2. ASSUME NEW s \in SUBSET (DOMAIN r), s # {}, g[s \ {Max(s)}] \in R
          PROVE  g[s] = step[<<g[s \ {Max(s)}], r[Max(s)]>>]
      <3>1. Max(s) \in DOMAIN r
        BY <1>2, <2>2, LastPlaceOf
      <3>2. r[Max(s)] \in X
        BY <1>2, <3>1
      <3>3. g[s] = Chooses(length, g[s \ {Max(s)}], r[Max(s)])
        BY <1>7, <2>2
      <3> QED
        BY <1>5, <2>2, <3>2, <3>3
    <2> QED
      BY <1>2, <1>3, <1>5, <2>1, <2>2 DEF Follows
  <1>9. PICK h : FoldSteps(h, base, r, step, R) /\ g[DOMAIN r] = h[Len(r)]
    BY <1>8, FoldWalks
  <1>10. PICK n \in Nat : n = Len(r)
    BY <1>2
  <1>11. h \in [0 .. n -> R] /\ h[0] = base /\ \A k \in 1 .. n : h[k] = step[<<h[k - 1], r[k]>>]
    BY <1>9, <1>10 DEF FoldSteps
  <1> DEFINE good == {k \in 0 .. n : ChosenSoFar(r, length, k, h[k])}
  <1>12. 0 \in good
    <2>1. h[0].pages = {} /\ h[0].used = 0 /\ 0 \in 0 .. n
      BY <1>10, <1>11 DEF base
    <2>2. 1 .. 0 = {} /\ 0 <= ContextChars
      BY SearchBounds
    <2> QED
      BY <2>1, <2>2, Totals DEF ChosenSoFar
  <1>13. ASSUME NEW k \in 1 .. n, k - 1 \in good  PROVE k \in good
    <2>1. k - 1 \in 0 .. n /\ k \in 0 .. n /\ k \in 1 .. Len(r)
      BY <1>10
    <2>2. h[k - 1] \in R /\ r[k] \in X /\ h[k] = step[<<h[k - 1], r[k]>>]
      BY <1>2, <1>11, <2>1
    <2>3. h[k] = Chooses(length, h[k - 1], r[k])
      BY <1>5, <2>2
    <2>4. h[k - 1] \in [pages : SUBSET P, used : Nat]
      BY <2>2 DEF R
    <2>5. ChosenSoFar(r, length, k, h[k])
      BY <1>13, <2>1, <2>3, <2>4, OneMoreChosen DEF EachOnce
    <2> QED
      BY <2>1, <2>5
  <1> HIDE DEF good
  <1>14. n \in good
    <2>1. \A k \in 0 .. n : k \in good
      BY <1>12, <1>13, CountUp
    <2> QED
      BY <1>10, <2>1
  <1>15. PICK c : c = h[n] /\ c.pages = C /\ ChosenSoFar(r, length, n, c)
    BY <1>7, <1>9, <1>10, <1>14 DEF good
  <1> QED
    BY <1>2, <1>10, <1>15 DEF ChosenSoFar, X, ChosenOf, PagesIn

\* What is read is of the candidates, each once, with its text or without any; the
\* best page is the first candidate.
ReadsOk ==
    /\ EachOnce(reading) /\ EachOnce(pages)
    /\ DOMAIN texts \subseteq PagesIn(reading) /\ PagesIn(pages) \subseteq DOMAIN texts
    /\ \A p \in DOMAIN texts : texts[p] = IF p \in PagesIn(pages) THEN SizeOf[p] ELSE 0
    /\ reading # <<>> => best \subseteq {reading[1]}
    /\ phase \in {"start", "searching"} => DOMAIN texts = {} /\ pages = <<>>

CitesPermitted ==
    phase \in {"checking", "closing", "done"} /\ said.kind # "empty" => said.cited \subseteq Search!Permitted

SearchInv ==
    Search!TypeOK /\ ReadsOk /\ CitesPermitted /\ Search!PromptFits /\ Search!BestPageIsShown

Phases == {"start", "searching", "reading", "answering", "checking", "closing", "done", "stopped"}
Outcomes == {"finished", "no_documents", "not_found", "access_revoked", "partial_no_answer",
             "partial_deadline_exceeded", "partial_model_unavailable"}

LEMMA SearchStarts == Search!Init => SearchInv
  <1> SUFFICES ASSUME Search!Init PROVE SearchInv
    OBVIOUS
  <1>1. /\ runner \in {"direct", "search"} /\ empty \in BOOLEAN /\ phase = "start" /\ late = FALSE
        /\ best = {} /\ reading = <<>> /\ texts = <<>> /\ pages = <<>> /\ shown = <<>>
        /\ said = Search!Empty /\ outcome = "finished"
    BY DEF Search!Init
  <1>2. Search!TypeOK
    <2>1. <<>> \in Seq(Search!Pages) /\ Len(<<>>) = 0 /\ DOMAIN <<>> = {}
      OBVIOUS
    <2>2. 0 <= MaxPages /\ 0 <= N
      BY SearchBounds
    <2>3. Search!Empty \in Search!Text
      BY DEF Search!Empty, Search!Plain, Search!Text
    <2> QED
      BY <1>1, <2>1, <2>2, <2>3 DEF Search!TypeOK
  <1>3. ReadsOk
    <2>1. DOMAIN <<>> = {}
      OBVIOUS
    <2> QED
      BY <1>1, <2>1 DEF ReadsOk, EachOnce, PagesIn
  <1> QED
    BY <1>1, <1>2, <1>3 DEF SearchInv, CitesPermitted, Search!PromptFits, Search!BestPageIsShown

\* A step that leaves the pages alone.
LEMMA SearchGoesOn ==
    ASSUME SearchInv, UNCHANGED <<runner, empty, best, reading, texts, pages, shown>>,
           phase' \in Phases, late' \in BOOLEAN, said' \in Search!Text, outcome' \in Outcomes,
           phase' \in {"start", "searching"} => phase \in {"start", "searching"},
           phase' = "answering" /\ outcome' = "finished" /\ runner = "search" =>
               phase = "answering" /\ outcome = "finished",
           CitesPermitted'
    PROVE  SearchInv'
  <1>1. Search!TypeOK'
    BY DEF SearchInv, Search!TypeOK, Phases, Outcomes
  <1>2. ReadsOk'
    BY DEF SearchInv, ReadsOk, EachOnce, PagesIn
  <1>3. Search!PromptFits'
    BY DEF SearchInv, Search!PromptFits, Search!Before
  <1>4. Search!BestPageIsShown'
    BY DEF SearchInv, Search!BestPageIsShown
  <1> QED
    BY <1>1, <1>2, <1>3, <1>4 DEF SearchInv

\* One that writes nothing either.
LEMMA SearchWaits ==
    ASSUME SearchInv, UNCHANGED <<runner, empty, best, reading, texts, pages, shown, said>>,
           phase' \in Phases, late' \in BOOLEAN, outcome' \in Outcomes,
           phase' \in {"start", "searching"} => phase \in {"start", "searching"},
           phase' = "answering" /\ outcome' = "finished" /\ runner = "search" =>
               phase = "answering" /\ outcome = "finished",
           phase' \in {"checking", "closing", "done"} =>
               phase \in {"checking", "closing", "done"} /\ outcome' = outcome
    PROVE  SearchInv'
  <1>1. said' \in Search!Text
    BY DEF SearchInv, Search!TypeOK
  <1>2. CitesPermitted'
    <2>1. CASE phase' \in {"checking", "closing", "done"}
      BY <2>1 DEF SearchInv, CitesPermitted, Search!Permitted, Search!Found, Search!IdOf
    <2>2. CASE phase' \notin {"checking", "closing", "done"}
      BY <2>2 DEF CitesPermitted
    <2> QED
      BY <2>1, <2>2
  <1> QED
    BY <1>1, <1>2, SearchGoesOn

LEMMA TextsAre ==
    /\ Search!Texts \subseteq Search!Text /\ Search!Empty \in Search!Text
    /\ Search!Empty.kind = "empty" /\ Search!Plain("prose") \in Search!Text
    /\ Search!Plain("prose").cited = {}
  <1>1. Search!Ids = Earlier \cup First .. (First + N - 1) /\ First \in Search!Ids
    <2>1. First \in Nat /\ N \in Nat \ {0}
      BY SearchBounds
    <2>2. First \in First .. (First + N - 1)
      BY <2>1
    <2> QED
      BY <2>2 DEF Search!Ids
  <1>2. \A kind \in {"empty", "done", "prose", "only ids"} : Search!Plain(kind) \in Search!Text
    BY DEF Search!Plain, Search!Text
  <1>3. PICK cites : cites = {Search!Ids} \cup {{i} : i \in Search!Ids}
    OBVIOUS
  <1>4. cites \subseteq SUBSET Search!Ids /\ {0, First} \subseteq Search!Ids \cup {0}
    BY <1>1, <1>3
  <1>5. Search!Texts = {Search!Plain("empty"), Search!Plain("done"), Search!Plain("prose")} \cup
                       [kind : {"prose", "only ids"}, cited : cites, odd : {0, First}]
    BY <1>3 DEF Search!Texts, Search!Empty
  <1>6. [kind : {"prose", "only ids"}, cited : cites, odd : {0, First}] \subseteq Search!Text
    BY <1>4 DEF Search!Text
  <1>7. Search!Plain("empty").kind = "empty" /\ Search!Plain("prose").cited = {}
    BY DEF Search!Plain
  <1> QED
    BY <1>2, <1>5, <1>6, <1>7 DEF Search!Empty

\* What is left of a text cites what it may.
LEMMA CleanTexts ==
    ASSUME NEW t \in Search!Text, NEW c, c = Search!Clean(t)
    PROVE  c \in Search!Text /\ c.cited \subseteq Search!Permitted
  <1>1. /\ t.kind \in {"empty", "done", "prose", "only ids"} /\ t.cited \subseteq Search!Ids
        /\ t.odd \in Search!Ids \cup {0}
    BY DEF Search!Text
  <1> DEFINE ids == (t.cited \cup ({t.odd} \ {0})) \cap Search!Permitted
  <1>2. ids \subseteq Search!Ids /\ ids \subseteq Search!Permitted
    BY <1>1
  <1>3. CASE runner = "direct" /\ t.kind # "empty" /\ t.odd # 0
    BY <1>3, TextsAre DEF Search!Clean
  <1>4. CASE ~(runner = "direct" /\ t.kind # "empty" /\ t.odd # 0)
    <2>1. c = [kind |-> IF t.kind = "only ids" /\ ids = {} /\ t.odd = 0 THEN "empty" ELSE t.kind,
               cited |-> ids, odd |-> IF t.odd \in Search!Permitted THEN 0 ELSE t.odd]
      BY <1>4 DEF Search!Clean
    <2> HIDE DEF ids
    <2>2. PICK k, o : /\ k = (IF t.kind = "only ids" /\ ids = {} /\ t.odd = 0 THEN "empty" ELSE t.kind)
                      /\ o = (IF t.odd \in Search!Permitted THEN 0 ELSE t.odd)
      OBVIOUS
    <2>3. k \in {"empty", "done", "prose", "only ids"} /\ o \in Search!Ids \cup {0}
      BY <1>1, <2>2
    <2>4. c = [kind |-> k, cited |-> ids, odd |-> o]
      BY <2>1, <2>2
    <2>5. ids \in SUBSET Search!Ids
      BY <1>2
    <2>6. c \in Search!Text /\ c.cited = ids
      BY ONLY <2>3, <2>4, <2>5 DEF Search!Text
    <2> QED
      BY <1>2, <2>6
  <1> QED
    BY <1>3, <1>4

LEMMA SearchAnswers ==
    ASSUME SearchInv, NEW t \in Search!Texts, Search!Answer(t)
    PROVE  SearchInv'
  <1>1. PICK c : c = Search!Clean(t) /\ c \in Search!Text /\ c.cited \subseteq Search!Permitted
    BY TextsAre, CleanTexts
  <1>2. /\ phase = "answering" /\ UNCHANGED <<runner, empty, late, best, reading, texts, pages, shown>>
        /\ late \in BOOLEAN /\ outcome \in Outcomes
    BY DEF Search!Answer, Search!setting, Search!sources, SearchInv, Search!TypeOK, Outcomes
  <1>3. CASE c.kind = "empty"
    <2>1. phase' = "done" /\ said' = Search!Empty /\ outcome' = "partial_no_answer"
      BY <1>1, <1>3 DEF Search!Answer, Search!Fails
    <2>2. CitesPermitted'
      BY <2>1, TextsAre DEF CitesPermitted
    <2> QED
      BY <1>2, <2>1, <2>2, TextsAre, SearchGoesOn DEF Phases, Outcomes
  <1>4. CASE c.kind # "empty"
    <2>1. said' = c /\ outcome' = outcome /\ phase' \in {"checking", "done", "closing"}
      BY <1>1, <1>4 DEF Search!Answer
    <2>2. Search!Permitted' = Search!Permitted
      BY <1>2, <2>1 DEF Search!Permitted, Search!Found, Search!IdOf
    <2>3. CitesPermitted'
      BY <1>1, <2>1, <2>2 DEF CitesPermitted
    <2> QED
      BY <1>1, <1>2, <2>1, <2>3, SearchGoesOn DEF Phases
  <1> QED
    BY <1>3, <1>4

LEMMA SearchChecks ==
    ASSUME SearchInv, NEW t \in Search!Texts, Search!Check(t)
    PROVE  SearchInv'
  <1>1. /\ phase = "checking" /\ UNCHANGED <<runner, empty, late, best, reading, texts, pages, shown>>
        /\ late \in BOOLEAN /\ outcome \in Outcomes
    BY DEF Search!Check, Search!setting, Search!sources, SearchInv, Search!TypeOK, Outcomes
  <1>2. PICK c : /\ c = (IF t.kind \in {"empty", "done"} THEN said ELSE Search!Clean(t)) /\ c \in Search!Text
                 /\ c.kind # "empty" => c.cited \subseteq Search!Permitted
    <2>1. said \in Search!Text /\ (said.kind # "empty" => said.cited \subseteq Search!Permitted)
      BY <1>1 DEF SearchInv, Search!TypeOK, CitesPermitted
    <2>2. Search!Clean(t) \in Search!Text /\ Search!Clean(t).cited \subseteq Search!Permitted
      BY TextsAre, CleanTexts
    <2> QED
      BY <2>1, <2>2
  <1>3. CASE c.kind = "empty"
    <2>1. phase' = "done" /\ said' = Search!Empty /\ outcome' = "partial_no_answer"
      BY <1>2, <1>3 DEF Search!Check, Search!Fails
    <2>2. CitesPermitted'
      BY <2>1, TextsAre DEF CitesPermitted
    <2> QED
      BY <1>1, <2>1, <2>2, TextsAre, SearchGoesOn DEF Phases, Outcomes
  <1>4. CASE c.kind # "empty"
    <2>1. said' = c /\ outcome' = outcome /\ phase' = "closing"
      BY <1>2, <1>4 DEF Search!Check
    <2>2. Search!Permitted' = Search!Permitted
      BY <1>1, <2>1 DEF Search!Permitted, Search!Found, Search!IdOf
    <2>3. CitesPermitted'
      BY <1>2, <1>4, <2>1, <2>2 DEF CitesPermitted
    <2> QED
      BY <1>1, <1>2, <2>1, <2>3, SearchGoesOn DEF Phases
  <1> QED
    BY <1>3, <1>4

LEMMA SearchBegins ==
    ASSUME SearchInv, Search!Begin
    PROVE  SearchInv'
  <1>1. UNCHANGED <<runner, empty, late, best, reading, texts, pages, shown, said>> /\ phase = "start"
    BY DEF Search!Begin, Search!setting, Search!sources
  <1>2. \/ phase' = "answering" /\ outcome' = (IF runner = "direct" THEN "finished" ELSE "no_documents")
        \/ phase' = "searching" /\ outcome' = outcome
    BY DEF Search!Begin
  <1>3. late \in BOOLEAN /\ outcome \in Outcomes
    BY DEF SearchInv, Search!TypeOK, Outcomes
  <1> QED
    BY <1>1, <1>2, <1>3, SearchWaits DEF Phases, Outcomes

\* What is found is of the pages, and the page with the best score comes first.
LEMMA SearchFinds ==
    ASSUME NEW lists, DOMAIN lists \subseteq 1 .. 2, \A i \in DOMAIN lists : lists[i] \in Search!Results,
           NEW found, found = Search!Merged(lists), ~Search!NotFound(found),
           NEW r, r = Search!Candidates(Search!Ordered(found)),
           NEW top, top \subseteq DOMAIN found,
           \A p \in top : \A q \in DOMAIN found \ {p} : found[q].score < found[p].score
    PROVE  /\ r \in Seq(Search!Pages) /\ Len(r) <= MaxPages /\ EachOnce(r)
           /\ top \subseteq Search!Pages /\ (r # <<>> => top \subseteq {r[1]})
  <1>1. FoundRows(found)
    BY MergedRows
  <1>2. PICK D : D = DOMAIN found
    OBVIOUS
  <1>3. PICK o : o = Search!Ordered(found)
    OBVIOUS
  <1>4. /\ o \in Seq(Search!Pages) /\ PagesIn(o) = D /\ EachOnce(o)
        /\ \A i, j \in DOMAIN o : i < j => Search!Precedes(found[o[i]], found[o[j]])
    BY <1>1, <1>2, <1>3, OrderedPages DEF OrderOf
  <1>5. /\ r \in Seq(Search!Pages) /\ Len(r) <= MaxPages /\ EachOnce(r)
        /\ r # <<>> /\ o # <<>> => r[1] = o[1]
    BY <1>3, <1>4, CandidatePages
  <1>6. D # {} /\ D \subseteq Search!Pages /\ \A p \in D : found[p].score \in Nat
    BY <1>1, <1>2 DEF Search!NotFound, FoundRows
  <1>7. ASSUME NEW p \in top  PROVE p = o[1]
    <2>1. p \in D /\ \A q \in D \ {p} : found[q].score < found[p].score
      BY <1>2
    <2>2. PICK i \in DOMAIN o : p = o[i]
      BY <1>4, <2>1 DEF PagesIn
    <2>3. DOMAIN o = 1 .. Len(o) /\ Len(o) \in Nat
      BY <1>4
    <2>4. 1 \in DOMAIN o /\ (i = 1 \/ 1 < i)
      BY <2>2, <2>3
    <2>5. o[1] \in D
      BY <1>4, <2>4 DEF PagesIn
    <2>6. CASE 1 < i /\ o[1] # p
      <3>1. Search!Precedes(found[o[1]], found[p])
        BY <1>4, <2>2, <2>4, <2>6
      <3>2. found[o[1]].score >= found[p].score
        BY <1>6, <2>1, <2>5, <3>1 DEF Search!Precedes
      <3>3. found[o[1]].score < found[p].score
        BY <2>1, <2>5, <2>6
      <3> QED
        BY <1>6, <2>1, <2>5, <3>2, <3>3
    <2> QED
      BY <2>2, <2>4, <2>6
  <1>8. o # <<>>
    BY <1>4, <1>6 DEF PagesIn
  <1>9. top \subseteq Search!Pages
    BY <1>2, <1>6
  <1> QED
    BY <1>5, <1>7, <1>8, <1>9

LEMMA SearchFound ==
    ASSUME SearchInv, phase = "searching", NEW lists, DOMAIN lists \subseteq 1 .. 2,
           \A i \in DOMAIN lists : lists[i] \in Search!Results, Search!Search(lists)
    PROVE  SearchInv'
  <1>1. UNCHANGED <<runner, empty, late, texts, pages, shown, said>> /\ late \in BOOLEAN /\ outcome \in Outcomes
    BY DEF Search!Search, Search!setting, SearchInv, Search!TypeOK, Outcomes
  <1>2. PICK found : found = Search!Merged(lists)
    OBVIOUS
  <1>3. CASE Search!NotFound(found)
    <2>1. phase' = "answering" /\ outcome' = "not_found" /\ UNCHANGED <<best, reading>>
      BY <1>2, <1>3 DEF Search!Search
    <2> QED
      BY <1>1, <2>1, SearchWaits DEF Phases, Outcomes
  <1>4. CASE ~Search!NotFound(found)
    <2>1. /\ phase' = "reading" /\ reading' = Search!Candidates(Search!Ordered(found))
          /\ best' = {p \in DOMAIN found : \A q \in DOMAIN found \ {p} : found[q].score < found[p].score}
          /\ outcome' = outcome
      BY <1>2, <1>4 DEF Search!Search
    <2>2. PICK r, top : r = reading' /\ top = best'
      OBVIOUS
    <2>3. /\ r \in Seq(Search!Pages) /\ Len(r) <= MaxPages /\ EachOnce(r)
          /\ top \subseteq Search!Pages /\ (r # <<>> => top \subseteq {r[1]})
      <3>1. /\ top \subseteq DOMAIN found
            /\ \A p \in top : \A q \in DOMAIN found \ {p} : found[q].score < found[p].score
        BY <2>1, <2>2
      <3>2. r = Search!Candidates(Search!Ordered(found))
        BY <2>1, <2>2
      <3> QED
        BY <1>2, <1>4, <3>1, <3>2, SearchFinds
    <2>4. Search!TypeOK'
      BY <1>1, <2>1, <2>2, <2>3 DEF SearchInv, Search!TypeOK
    <2>5. DOMAIN texts = {} /\ pages = <<>>
      BY DEF SearchInv, ReadsOk
    <2>6. ReadsOk'
      <3>1. PagesIn(pages) = {} /\ EachOnce(pages)
        BY <2>5 DEF PagesIn, EachOnce
      <3> QED
        BY <1>1, <2>1, <2>2, <2>3, <2>5, <3>1 DEF ReadsOk, EachOnce, PagesIn
    <2>7. CitesPermitted' /\ Search!PromptFits' /\ Search!BestPageIsShown'
      BY <2>1 DEF CitesPermitted, Search!PromptFits, Search!BestPageIsShown
    <2> QED
      BY <2>4, <2>6, <2>7 DEF SearchInv
  <1> QED
    BY <1>3, <1>4

LEMMA SearchComesBack ==
    ASSUME SearchInv, Search!SearchReturns
    PROVE  SearchInv'
  <1>1. phase = "searching"
    BY DEF Search!SearchReturns
  <1>2. PICK a \in Search!Results : Search!Search(<<a>>) \/ \E b \in Search!Results : Search!Search(<<a, b>>)
    BY DEF Search!SearchReturns
  <1>3. CASE Search!Search(<<a>>)
    <2>1. DOMAIN <<a>> \subseteq 1 .. 2 /\ \A i \in DOMAIN <<a>> : <<a>>[i] \in Search!Results
      BY <1>2
    <2> QED
      BY <1>1, <1>3, <2>1, SearchFound
  <1>4. ASSUME NEW b \in Search!Results, Search!Search(<<a, b>>)  PROVE SearchInv'
    <2>1. DOMAIN <<a, b>> \subseteq 1 .. 2 /\ \A i \in DOMAIN <<a, b>> : <<a, b>>[i] \in Search!Results
      BY <1>2
    <2> QED
      BY <1>1, <1>4, <2>1, SearchFound
  <1> QED
    BY <1>2, <1>3, <1>4

\* There are no more numbers from 1 to n than n.
LEMMA NoLongerThan ==
    ASSUME NEW n \in Nat, NEW k \in Nat, NEW e \in [1 .. k -> 1 .. n],
           \A i, j \in 1 .. k : e[i] = e[j] => i = j
    PROVE  k <= n
  <1> SUFFICES ASSUME k > n PROVE FALSE
    OBVIOUS
  <1>1. IsFiniteSet(1 .. k) /\ Cardinality(1 .. k) = k /\ IsFiniteSet(1 .. n) /\ Cardinality(1 .. n) = n
    BY FS_Interval
  <1>2. Cardinality(1 .. n) < Cardinality(1 .. k)
    BY <1>1
  <1> QED
    BY <1>1, <1>2, FS_PigeonHole

LEMMA SearchReads ==
    ASSUME SearchInv, NEW p \in Search!Pages, Search!ReadReturns(p)
    PROVE  SearchInv'
  <1>1. /\ UNCHANGED <<runner, empty, phase, late, best, reading, shown, said, outcome>>
        /\ phase = "reading" /\ p \in PagesIn(reading) /\ p \notin DOMAIN texts
    BY DEF Search!ReadReturns, Search!setting, Search!Range, PagesIn
  <1>2. /\ pages \in Seq(Search!Pages) /\ EachOnce(pages) /\ PagesIn(pages) \subseteq DOMAIN texts
        /\ DOMAIN texts \subseteq PagesIn(reading) /\ DOMAIN texts \subseteq Search!Pages
        /\ \A q \in DOMAIN texts : texts[q] = IF q \in PagesIn(pages) THEN SizeOf[q] ELSE 0
    BY DEF SearchInv, Search!TypeOK, ReadsOk
  <1>3. \/ texts' = [q \in DOMAIN texts \cup {p} |-> IF q = p THEN 0 ELSE texts[q]] /\ pages' = pages
        \/ /\ texts' = [q \in DOMAIN texts \cup {p} |-> IF q = p THEN SizeOf[p] ELSE texts[q]]
           /\ pages' = Append(pages, p)
    BY DEF Search!ReadReturns
  <1>4. PICK t, e : t = texts' /\ e = pages'
    OBVIOUS
  <1>5. DOMAIN t = DOMAIN texts \cup {p} /\ \A q \in DOMAIN texts : t[q] = texts[q]
    BY <1>1, <1>3, <1>4
  <1>6. /\ e \in Seq(Search!Pages) /\ EachOnce(e) /\ PagesIn(e) \subseteq DOMAIN t
        /\ \A q \in DOMAIN texts : q \in PagesIn(e) <=> q \in PagesIn(pages)
        /\ t[p] = IF p \in PagesIn(e) THEN SizeOf[p] ELSE 0
    <2>1. CASE texts' = [q \in DOMAIN texts \cup {p} |-> IF q = p THEN 0 ELSE texts[q]] /\ pages' = pages
      <3>1. e = pages /\ t[p] = 0
        BY <1>4, <2>1
      <3> QED
        BY <1>1, <1>2, <1>5, <3>1
    <2>2. CASE /\ texts' = [q \in DOMAIN texts \cup {p} |-> IF q = p THEN SizeOf[p] ELSE texts[q]]
               /\ pages' = Append(pages, p)
      <3>1. e = Append(pages, p) /\ t[p] = SizeOf[p]
        BY <1>4, <2>2
      <3>2. /\ e \in Seq(Search!Pages) /\ DOMAIN e = 1 .. (Len(pages) + 1) /\ e[Len(pages) + 1] = p
            /\ DOMAIN pages = 1 .. Len(pages) /\ Len(pages) \in Nat /\ \A i \in DOMAIN pages : e[i] = pages[i]
        BY <1>2, <3>1
      <3>3. \A i \in DOMAIN e : i \in DOMAIN pages \/ i = Len(pages) + 1
        BY <3>2
      <3>4. DOMAIN pages \subseteq DOMAIN e /\ Len(pages) + 1 \in DOMAIN e
        BY <3>2
      <3>5. PagesIn(e) = PagesIn(pages) \cup {p}
        BY <3>2, <3>3, <3>4 DEF PagesIn
      <3>6. \A i \in DOMAIN pages : pages[i] # p
        BY <1>1, <1>2 DEF PagesIn
      <3>7. EachOnce(e)
        BY <1>2, <3>2, <3>3, <3>6 DEF EachOnce
      <3> QED
        BY <1>1, <1>2, <1>5, <3>1, <3>2, <3>5, <3>7
    <2> QED
      BY <1>3, <2>1, <2>2
  <1>7. Len(e) <= N
    <2>1. DOMAIN e = 1 .. Len(e) /\ Len(e) \in Nat /\ \A i \in 1 .. Len(e) : e[i] \in 1 .. N
      BY <1>6, SearchBounds
    <2>2. PICK k \in Nat, n \in Nat : k = Len(e) /\ n = N
      BY <2>1, SearchBounds
    <2>3. e \in [1 .. k -> 1 .. n] /\ \A i, j \in 1 .. k : e[i] = e[j] => i = j
      BY <1>6, <2>1, <2>2 DEF EachOnce
    <2> QED
      BY <2>2, <2>3, NoLongerThan
  <1>8. Search!TypeOK'
    BY <1>1, <1>2, <1>4, <1>5, <1>6, <1>7 DEF SearchInv, Search!TypeOK
  <1>9. ReadsOk'
    <2>1. EachOnce(reading) /\ (reading # <<>> => best \subseteq {reading[1]})
      BY DEF SearchInv, ReadsOk
    <2>2. DOMAIN t \subseteq PagesIn(reading)
      BY <1>1, <1>2, <1>5
    <2>3. \A q \in DOMAIN t : t[q] = IF q \in PagesIn(e) THEN SizeOf[q] ELSE 0
      BY <1>2, <1>5, <1>6
    <2> QED
      BY <1>1, <1>4, <1>6, <2>1, <2>2, <2>3 DEF ReadsOk, EachOnce, PagesIn
  <1>10. CitesPermitted' /\ Search!PromptFits' /\ Search!BestPageIsShown'
    BY <1>1 DEF CitesPermitted, Search!PromptFits, Search!BestPageIsShown
  <1> QED
    BY <1>8, <1>9, <1>10 DEF SearchInv

LEMMA SearchChooses ==
    ASSUME SearchInv, Search!Choose
    PROVE  SearchInv'
  <1>1. UNCHANGED <<runner, empty, late, best, reading, texts, pages, said>> /\ phase' = "answering"
    BY DEF Search!Choose, Search!setting
  <1>2. PICK r : r = reading
    OBVIOUS
  <1>3. /\ r \in Seq(Search!Pages) /\ DOMAIN r = 1 .. Len(r) /\ Len(r) \in Nat
        /\ EachOnce(r) /\ DOMAIN texts = PagesIn(r)
        /\ PagesIn(pages) \subseteq PagesIn(r)
        /\ \A p \in PagesIn(r) : texts[p] = IF p \in PagesIn(pages) THEN SizeOf[p] ELSE 0
        /\ r # <<>> => best \subseteq {r[1]}
    <2>1. r \in Seq(Search!Pages) /\ DOMAIN r = 1 .. Len(r) /\ Len(r) \in Nat
      BY <1>2 DEF SearchInv, Search!TypeOK
    <2>2. DOMAIN texts = PagesIn(r)
      BY <1>2 DEF Search!Choose, Search!Range, PagesIn
    <2>3. /\ EachOnce(r) /\ PagesIn(pages) \subseteq DOMAIN texts /\ (r # <<>> => best \subseteq {r[1]})
          /\ \A p \in DOMAIN texts : texts[p] = IF p \in PagesIn(pages) THEN SizeOf[p] ELSE 0
      BY <1>2 DEF SearchInv, ReadsOk
    <2> QED
      BY <2>1, <2>2, <2>3
  <1>4. PICK C : C = Search!Chosen(texts)
    OBVIOUS
  <1>5. /\ C \subseteq PagesIn(r) /\ C \in SUBSET Search!Pages /\ Search!Total(C) <= ContextChars
        /\ \A i \in DOMAIN r : texts[r[i]] # 0 /\ r[i] \notin C =>
               Search!Total({r[j] : j \in 1 .. (i - 1)} \cap C) + SizeOf[r[i]] > ContextChars
    <2>1. \A i \in DOMAIN r : texts[r[i]] \in {0, SizeOf[r[i]]}
      BY <1>3 DEF PagesIn
    <2> QED
      BY <1>2, <1>3, <1>4, <2>1, ChosenPages DEF ChosenOf
  <1>6. PICK s : s = shown'
    OBVIOUS
  <1>7. InFileOrder(s, C) /\ IsFiniteSet(C)
    <2> DEFINE Right(so) == PagesIn(so) = C /\ \A i, j \in DOMAIN so : i < j => so[i] < so[j]
    <2>1. PICK n : n = Cardinality(C) /\ Search!Cardinality(C) = n
      BY DEF Search!Cardinality, Cardinality
    <2>2. s = CHOOSE so \in [1 .. n -> C] : Right(so)
      BY <1>4, <1>6, <2>1 DEF Search!Choose, Search!InOrder, Search!Range, PagesIn
    <2>3. IsFiniteSet(C) /\ \E so \in [1 .. n -> C] : Right(so)
      BY <1>5, <2>1, SortedPages DEF InFileOrder
    <2> HIDE DEF Right
    <2>4. s \in [1 .. n -> C] /\ Right(s)
      BY <2>2, <2>3
    <2> QED
      BY <2>1, <2>3, <2>4 DEF InFileOrder, Right
  <1>8. s \in Seq(Search!Pages) /\ PagesIn(s) = C /\ Len(s) = Cardinality(C)
    <2>1. Cardinality(C) \in Nat
      BY <1>7, FS_CardinalityType
    <2> QED
      BY <1>5, <1>7, <2>1 DEF InFileOrder
  <1>9. outcome' = (IF C = {} THEN "not_found" ELSE outcome) /\ outcome \in Outcomes
    BY <1>4 DEF Search!Choose, SearchInv, Search!TypeOK, Outcomes
  <1>10. Search!TypeOK'
    BY <1>1, <1>6, <1>8, <1>9 DEF SearchInv, Search!TypeOK, Outcomes
  <1>11. ReadsOk'
    BY <1>1 DEF SearchInv, ReadsOk, EachOnce, PagesIn
  <1>12. ASSUME NEW p \in PagesIn(pages) \ C
         PROVE  Search!Total({r[i] : i \in {k \in DOMAIN r : \A j \in 1 .. k : r[j] # p}} \cap C)
                    + SizeOf[p] > ContextChars
    <2>1. PICK i \in DOMAIN r : r[i] = p
      BY <1>3 DEF PagesIn
    <2>2. texts[p] = SizeOf[p] /\ SizeOf[p] # 0
      <3>1. p \in Search!Pages
        BY <1>3, <2>1
      <3> QED
        BY <1>3, <3>1, SearchBounds
    <2>3. Search!Total({r[j] : j \in 1 .. (i - 1)} \cap C) + SizeOf[p] > ContextChars
      BY <1>5, <2>1, <2>2
    <2>4. {k \in DOMAIN r : \A j \in 1 .. k : r[j] # p} = 1 .. (i - 1)
      <3>1. ASSUME NEW k \in DOMAIN r, \A j \in 1 .. k : r[j] # p  PROVE k \in 1 .. (i - 1)
        <4>1. i \notin 1 .. k
          BY <2>1, <3>1
        <4> QED
          BY <1>3, <2>1, <4>1
      <3>2. ASSUME NEW k \in 1 .. (i - 1)  PROVE k \in DOMAIN r /\ \A j \in 1 .. k : r[j] # p
        <4>1. k \in DOMAIN r /\ \A j \in 1 .. k : j \in DOMAIN r /\ j # i
          BY <1>3, <2>1
        <4> QED
          BY <1>3, <2>1, <4>1 DEF EachOnce
      <3> QED
        BY <3>1, <3>2
    <2> QED
      BY <2>3, <2>4
  <1>13. Search!PromptFits'
    <2>1. PagesIn(s) = Search!Range(shown)' /\ PagesIn(pages) = Search!Range(pages)'
      BY <1>1, <1>6 DEF Search!Range, PagesIn
    <2>2. \A p : Search!Before(p)' = {r[i] : i \in {k \in DOMAIN r : \A j \in 1 .. k : r[j] # p}}
      BY <1>1, <1>2 DEF Search!Before
    <2>3. Search!Cardinality(C) = Cardinality(C)
      BY DEF Search!Cardinality, Cardinality
    <2> QED
      BY <1>5, <1>6, <1>8, <1>12, <2>1, <2>2, <2>3 DEF Search!PromptFits
  <1>14. Search!BestPageIsShown'
    <2>1. ASSUME NEW p \in best, p \in PagesIn(pages), SizeOf[p] <= ContextChars, p \notin C
          PROVE  FALSE
      <3>0. p \in PagesIn(r)
        BY ONLY <1>3, <2>1
      <3>1. PICK i \in DOMAIN r : r[i] = p
        BY ONLY <3>0 DEF PagesIn
      <3>2. 1 \in DOMAIN r /\ r[1] = p
        <4>1. 1 \in DOMAIN r /\ r # <<>>
          BY ONLY <1>3, <3>1
        <4> QED
          BY ONLY <1>3, <2>1, <4>1
      <3>3. texts[p] = SizeOf[p] /\ SizeOf[p] \in Nat \ {0} /\ ContextChars \in Nat
        BY <1>3, <2>1, <3>2, SearchBounds
      <3>4. Search!Total({r[j] : j \in 1 .. (1 - 1)} \cap C) + SizeOf[p] > ContextChars
        <4>1. texts[r[1]] # 0 /\ r[1] \notin C /\ 1 \in DOMAIN r
          BY ONLY <2>1, <3>2, <3>3
        <4>2. Search!Total({r[j] : j \in 1 .. (1 - 1)} \cap C) + SizeOf[r[1]] > ContextChars
          BY ONLY <1>5, <4>1
        <4> QED
          BY ONLY <3>2, <4>2
      <3>5. PICK E : E = {r[j] : j \in 1 .. (1 - 1)} \cap C
        OBVIOUS
      <3>6. E = {}
        BY <3>5
      <3>7. Search!Total(E) + SizeOf[p] > ContextChars /\ Search!Total(E) = 0
        BY <3>4, <3>5, <3>6, Totals
      <3> QED
        BY <2>1, <3>3, <3>7
    <2>2. PagesIn(s) = Search!Range(shown)' /\ PagesIn(pages) = Search!Range(pages)'
      BY <1>1, <1>6 DEF Search!Range, PagesIn
    <2> QED
      BY <1>1, <1>8, <2>1, <2>2 DEF Search!BestPageIsShown
  <1>15. CitesPermitted'
    BY <1>1 DEF CitesPermitted
  <1> QED
    BY <1>10, <1>11, <1>13, <1>14, <1>15 DEF SearchInv

LEMMA SearchSteps ==
    ASSUME SearchInv, Search!Next
    PROVE  SearchInv'
  <1>1. late \in BOOLEAN /\ outcome \in Outcomes /\ phase \in Phases
    BY DEF SearchInv, Search!TypeOK, Outcomes, Phases
  <1>2. CASE Search!Tick
    <2>1. UNCHANGED <<runner, empty, phase, best, reading, texts, pages, shown, said, outcome>> /\ late' = TRUE
      BY <1>2 DEF Search!Tick, Search!setting, Search!sources
    <2> QED
      BY <1>1, <2>1, SearchWaits
  <1>3. CASE Search!RunStopped
    <2>1. UNCHANGED <<runner, empty, late, best, reading, texts, pages, shown, said, outcome>> /\ phase' = "stopped"
      BY <1>3 DEF Search!RunStopped, Search!setting, Search!sources
    <2> QED
      BY <1>1, <2>1, SearchWaits DEF Phases
  <1>4. CASE UNCHANGED Search!vars
    <2>1. UNCHANGED <<runner, empty, phase, late, best, reading, texts, pages, shown, said, outcome>>
      BY <1>4 DEF Search!vars
    <2> QED
      BY <1>1, <2>1, SearchWaits
  <1>5. ASSUME UNCHANGED <<runner, empty, late, best, reading, texts, pages, shown>>,
               phase' = "done", Search!Fails("partial_deadline_exceeded") \/ Search!Fails("partial_model_unavailable")
                                    \/ Search!Fails("access_revoked")
        PROVE  SearchInv'
    <2>1. said' = Search!Empty /\ outcome' \in Outcomes
      BY <1>5 DEF Search!Fails, Outcomes
    <2>2. CitesPermitted'
      BY <2>1, TextsAre DEF CitesPermitted
    <2> QED
      BY <1>1, <1>5, <2>1, <2>2, TextsAre, SearchGoesOn DEF Phases
  <1>6. CASE Search!AnswerFails
    BY <1>5, <1>6 DEF Search!AnswerFails, Search!setting, Search!sources, Search!Fails
  <1>7. CASE Search!CheckFails
    <2>1. /\ UNCHANGED <<runner, empty, late, best, reading, texts, pages, shown, said, outcome>>
          /\ phase = "checking" /\ phase' = "closing"
      BY <1>7 DEF Search!CheckFails, Search!setting, Search!sources
    <2> QED
      BY <1>1, <2>1, SearchWaits DEF Phases
  <1>8. CASE Search!CheckAccess
    <2>1. UNCHANGED <<runner, empty, late, best, reading, texts, pages, shown>> /\ phase = "closing"
      BY <1>8 DEF Search!CheckAccess, Search!setting, Search!sources
    <2>2. CASE phase' = "done" /\ UNCHANGED <<said, outcome>>
      BY <1>1, <2>1, <2>2, SearchWaits DEF Phases
    <2>3. CASE Search!Fails("access_revoked")
      BY <1>5, <2>1, <2>3 DEF Search!Fails
    <2> QED
      BY <1>8, <2>2, <2>3 DEF Search!CheckAccess
  <1> QED
    BY <1>2, <1>3, <1>4, <1>6, <1>7, <1>8, SearchBegins, SearchComesBack, SearchReads, SearchChooses,
       SearchAnswers, SearchChecks DEF Search!Next, Search!Step

LEMMA SearchAlways == Spec => []SearchInv
  <1>1. Init => SearchInv
    BY SearchStarts DEF Init
  <1>2. SearchInv /\ [Next]_vars => SearchInv'
    <2> SUFFICES ASSUME SearchInv, [Next]_vars  PROVE SearchInv'
      OBVIOUS
    <2>1. CASE SearchMoves
      BY <2>1, SearchSteps DEF SearchMoves
    <2>2. ASSUME UNCHANGED searchVars  PROVE SearchInv'
      <3>1. UNCHANGED Search!vars
        BY <2>2 DEF searchVars, Search!vars, Search!setting, Search!sources
      <3>2. UNCHANGED <<runner, empty, phase, late, best, reading, texts, pages, shown, said, outcome>>
        BY <2>2 DEF searchVars
      <3>3. late \in BOOLEAN /\ outcome \in Outcomes /\ phase \in Phases
        BY DEF SearchInv, Search!TypeOK, Outcomes, Phases
      <3> QED
        BY <3>2, <3>3, SearchWaits
    <2> QED
      BY <2>1, <2>2 DEF Next, CourseMoves, RulesMove, AccountsMove, HistoryMoves, LoopMoves, SearchMoves, vars
  <1> QED
    BY <1>1, <1>2, PTL DEF Spec

\* Every run of the two simple runners keeps its prompt within the budget with the
\* best page it read, leaves out only what did not fit, and cites only what it read
\* or what an earlier answer cites (agent/search.py, agent/direct.py).
THEOREM SearchIsKept == Spec => []SearchKeepsItsPages
  <1>1. ASSUME SearchInv  PROVE SearchKeepsItsPages
    <2>1. Search!CitesOnlySources
      BY <1>1 DEF SearchInv, CitesPermitted, Search!CitesOnlySources, Search!Written, Search!Permitted
    <2> QED
      BY <1>1, <2>1 DEF SearchInv, SearchKeepsItsPages
  <1> QED
    BY <1>1, SearchAlways, PTL

=============================================================================
