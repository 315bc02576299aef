------------------------------ MODULE MCCourse ------------------------------
(* The people of a course and their chats, for TLC: who may read and ask, the    *)
(* rules of teachers, the accounts, what a new prompt repeats of a conversation, *)
(* the research loop of an answer, and the search for one. part is the machine   *)
(* that moves, the others stand still.                                           *)
EXTENDS TLC, Sequences

CONSTANTS
    \* of Course
    Students, Teachers, Askers, NoOne, NewClassExamMode, MaxChanges,
    \* of Rules
    RuleTeachers, Classes, Labs, Pupils, FirstOwner, ClassOf, Presets, RuleTexts, Requests, MaxSaves,
    \* of Accounts
    Names, Passwords, AccountRoles, Quotas, Files, Missing, StaffName, Pupil, Slots, MaxRequests,
    \* of ChatHistory
    Lectures, Inquiries, MaxRevision, MaxQuestions, MaxEdits, Limit,
    \* of ResearchLoop
    Pieces, Nothing, Earlier, First, MaxToolCalls, MaxVisualCalls, Room,
    \* of SearchMode
    N, SizeOf, ContextChars, MaxPages, Scores, MinScore, Rewrite

VARIABLES
    part,
    role, live, class, lab, members, chat, run, changes,
    rules, presets, enrolled, owner, save, saved, saves,
    users, decided, tokens, request, requests, reply,
    document, messages, asking, edits,
    turn, now, open, noDocuments, mayAsk, rows, dispatched, seen, evidence, size, pending,
    unchecked, retried, readTurn, checks, answer, stop, partial, offered,
    runner, empty, phase, late, best, reading, texts, pages, shown, said, outcome

courseVars  == <<role, live, class, lab, members, chat, run, changes>>
ruleVars    == <<rules, presets, enrolled, owner, save, saved, saves>>
accountVars == <<users, decided, tokens, request, requests, reply>>
historyVars == <<document, messages, asking, edits>>
loopVars    == <<turn, now, open, noDocuments, mayAsk, rows, dispatched, seen, evidence, size, pending,
                 unchecked, retried, readTurn, checks, answer, stop, partial, offered>>
searchVars  == <<runner, empty, phase, late, best, reading, texts, pages, shown, said, outcome>>
vars == <<part, courseVars, ruleVars, accountVars, historyVars, loopVars, searchVars>>

Course == INSTANCE Course

\* A class with a lab, and the class of another teacher.
TwoOwners == "c1" :> "tea" @@ "c2" :> "tom"
LabOfFirst == "l1" :> "c1"
Rules == INSTANCE Rules WITH
    Teachers <- RuleTeachers, Students <- Pupils, Texts <- RuleTexts, request <- save

\* One file with a new and a known name, and one with rows that are not taken.
Line(n, p, r) == [name |-> n, password |-> p, role |-> r]
CsvFiles == {<<Line("ann", "p2", "admin"), Line("bob", "p2", "admin")>>,
             <<Line("none", "p1", "student"), Line("bob", "none", "student"),
               Line("bob", "p1", "dean"), Line("bob", "p2", "admin")>>}
SomePassword == CHOOSE p \in Passwords : TRUE
Accounts == INSTANCE Accounts WITH Roles <- AccountRoles, Staff <- StaffName

\* All documents and one request at a time; one document and all requests.
History == INSTANCE ChatHistory WITH
    Documents <- Lectures, Requests <- Inquiries, MaxChanges <- MaxEdits,
    request <- asking, changes <- edits
OneDocument == CHOOSE d \in Lectures : TRUE
OneRequest == CHOOSE q \in Inquiries : TRUE

\* Two pieces, so that one can be read again between others; an earlier answer.
Loop == INSTANCE ResearchLoop WITH at <- turn

\* Of the three pages, two fit beside each other, the third does not.
ThreePages == <<2, 1, 2>>
Search == INSTANCE SearchMode WITH
    mode <- runner, at <- phase, evidence <- pages, answer <- said, stop <- outcome

ASSUME CourseAssumption == Course!CourseConstants
ASSUME LoopAssumption == Loop!LoopConstants
ASSUME RulesAssumption == Rules!RuleConstants
ASSUME AccountsAssumption == Accounts!AccountConstants
ASSUME SearchAssumption == Search!SearchConstants
ASSUME HistoryAssumption == History!HistoryBounds

Init ==
    /\ part \in {"course", "rules", "accounts", "sources", "turns", "loop", "search"}
    /\ Course!Init
    /\ Rules!Init /\ (part = "rules" \/ enrolled = {})
    /\ Accounts!Init /\ (part = "accounts" \/ users[1].password = SomePassword)
    /\ History!Init /\ (part \in {"sources", "turns"} \/ messages = <<>>)
    /\ \A d \in Lectures : document[d].life = (IF part # "turns" \/ d = OneDocument THEN "active" ELSE "deleted")
    /\ Loop!Init /\ (part = "loop" \/ ~(noDocuments \/ mayAsk))
    /\ Search!Init /\ (part = "search" \/ (runner = "search" /\ ~empty))

CourseMoves ==
    /\ part = "course" /\ Course!Next
    /\ UNCHANGED <<part, ruleVars, accountVars, historyVars, loopVars, searchVars>>
RulesMove ==
    /\ part = "rules" /\ Rules!Next
    /\ UNCHANGED <<part, courseVars, accountVars, historyVars, loopVars, searchVars>>
AccountsMove ==
    /\ part = "accounts" /\ Accounts!Next
    /\ UNCHANGED <<part, courseVars, ruleVars, historyVars, loopVars, searchVars>>
HistoryMoves ==
    /\ part \in {"sources", "turns"} /\ History!Next
    /\ part = "sources" => \A q \in Inquiries \ {OneRequest} : asking'[q] = asking[q]
    /\ UNCHANGED <<part, courseVars, ruleVars, accountVars, loopVars, searchVars>>
LoopMoves ==
    /\ part = "loop" /\ Loop!Next
    /\ UNCHANGED <<part, courseVars, ruleVars, accountVars, historyVars, searchVars>>
SearchMoves ==
    /\ part = "search" /\ Search!Next
    /\ UNCHANGED <<part, courseVars, ruleVars, accountVars, historyVars, loopVars>>

Next == CourseMoves \/ RulesMove \/ AccountsMove \/ HistoryMoves \/ LoopMoves \/ SearchMoves

Spec == Init /\ [][Next]_vars

-----------------------------------------------------------------------------
(* What the modules state of their machines                                *)

\* An answer taken in exam mode repeats of the course only what its conversation holds
\* already, from a question that was taken while the class was not in exam mode
\* (Course).
ExamAnswersAddNothing == part = "course" => Course!TypeOK /\ Course!ExamAnswersAddNothing

\* At most one rule of a target, and the text in a prompt is one that was saved for
\* this target by somebody whose it was when the save was asked for (Rules).
RulesAreTheirTeachers ==
    part = "rules" => Rules!TypeOK /\ Rules!OneRuleOfATarget /\ Rules!TextsWereSavedHere

\* One account per name; role, quota and deletion are what an admin last made them
\* (Accounts).
AccountsAreDecided ==
    part = "accounts" => Accounts!TypeOK /\ Accounts!NamesAreUnique /\ Accounts!AdminDecides

\* A prompt repeats only what students could read when its scope was taken, and what an
\* answer that cites other sources had passed on without naming it, in pairs of
\* question and answer, and all that may be repeated (ChatHistory).
HistoryIsWholeAndReadable ==
    part \in {"sources", "turns"} => /\ History!TypeOK /\ History!HistoryIsReadable
                                    /\ History!TurnsPair /\ History!AnswersStay

\* A run makes no more calls than its budgets, an ID names one source, an answer
\* cites only what was read, or earlier sources, and a good answer is not lost
\* for a list of pages (ResearchLoop).
AnswersStandOnEvidence ==
    part = "loop" => /\ Loop!TypeOK /\ Loop!BudgetsHold /\ Loop!IdsNameOneSource
                     /\ Loop!CitesOnlySources /\ Loop!GoodAnswersArrive

\* The prompt of a search holds what fits, in the order of the pages and the best
\* one among them, and its answer cites only pages that were read, or earlier ones
\* (SearchMode).
SearchKeepsItsPages ==
    part = "search" => /\ Search!TypeOK /\ Search!PromptFits /\ Search!BestPageIsShown
                       /\ Search!CitesOnlySources

\* Course content reaches an answer only while the asker may read it, an answer is
\* stored only while its owner may still ask there, and what a student hides or
\* loses stays in the teacher's chat history (Course).
AnswersNeedAccess ==
    [][part = "course" => Course!FindsByRight /\ Course!StoresByRight /\ Course!AuditKeeps]_courseVars

\* A rule that was switched off stays off until a save asks for it (Rules), a
\* forced import saves all of its accepted rows or none (Accounts), and what an ID
\* names does not change while the run reads (ResearchLoop).
StepsKeepTheirWord == [][/\ part = "rules" => Rules!OffUntilAsked
                         /\ part = "accounts" => Accounts!ImportsWhole
                         /\ part = "loop" => Loop!KeepsIds]_vars

=============================================================================
