SPECIFICATION Spec
CONSTANTS
    w1 = w1
    NoWorker = NoWorker
    Workers = {w1}
    MaxRevisions = 3
    MaxGeneration = 9
    MaxEdits = 2
    MaxAttempts = 1
    MaxFaults = 0
PROPERTIES
    ReadersPromise
CHECK_DEADLOCK FALSE
