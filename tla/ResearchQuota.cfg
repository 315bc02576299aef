SPECIFICATION Spec
CONSTANTS
    Sessions = {s1, s2}
    MaxRequests = 1
    MaxCalls = 2
    MaxDay = 2
    Teachers = {teacher}
    Quota = 3
    Estimate = 2
    Prompt = 1
    Bills = {1, 3}
    Tasks = {t1, t2}
    NewEvidence = 0
    MaxFaults = 0
SYMMETRY Symmetry
INVARIANTS
    QuotaHeld
    BooksBalance
CHECK_DEADLOCK FALSE
