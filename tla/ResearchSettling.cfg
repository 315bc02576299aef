SPECIFICATION Spec
CONSTANTS
    Sessions = {s1}
    MaxRequests = 2
    MaxCalls = 1
    MaxDay = 1
    Teachers = {}
    Quota = 9
    Estimate = 2
    Prompt = 1
    Bills = {2}
    Tasks = {t1, t2}
    NewEvidence = 0
    MaxFaults = 0
INVARIANTS
    EveryCallIsSettled
CHECK_DEADLOCK FALSE
