SPECIFICATION Spec
CONSTANTS
    Students = {s}
    Teachers = {t, o}
    Askers = {s, t}
    NoOne = nobody
    NewClassExamMode = FALSE
    MaxChanges = 2
    RuleTeachers = {"tea", "tom"}
    Classes = {"c1", "c2"}
    Labs = {"l1"}
    Pupils = {"ann"}
    FirstOwner <- TwoOwners
    ClassOf <- LabOfFirst
    Presets = {"p"}
    RuleTexts = {"x", "y"}
    Requests = {"q1", "q2"}
    MaxSaves = 3
    Names = {"root", "ann", "bob"}
    Passwords = {"p1", "p2"}
    AccountRoles = {"student", "admin"}
    Quotas = {1, 2}
    Files <- CsvFiles
    Missing = "none"
    StaffName = "root"
    Pupil = "ann"
    Slots = {"a", "b"}
    MaxRequests = 2
    Lectures = {"d1", "d2"}
    Inquiries = {"a1", "a2"}
    MaxRevision = 2
    MaxQuestions = 3
    MaxEdits = 1
    Limit = 4
    Pieces = {p1, p2}
    Nothing = Nothing
    Earlier = {1}
    First = 3
    MaxToolCalls = 3
    MaxVisualCalls = 1
    Room = 1
    N = 3
    SizeOf <- ThreePages
    ContextChars = 3
    MaxPages = 2
    Scores = {0, 1, 2, 3}
    MinScore = 2
    Rewrite = TRUE
INVARIANTS
    ExamAnswersAddNothing
    RulesAreTheirTeachers
    AccountsAreDecided
    HistoryIsWholeAndReadable
    AnswersStandOnEvidence
    SearchKeepsItsPages
PROPERTIES
    AnswersNeedAccess
    StepsKeepTheirWord
CHECK_DEADLOCK FALSE
