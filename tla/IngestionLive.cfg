SPECIFICATION FairSpec
CONSTANTS
    w1 = w1
    w2 = w2
    NoWorker = NoWorker
    Workers = {w1, w2}
    MaxRevisions = 2
    MaxGeneration = 3
    MaxEdits = 1
    MaxAttempts = 1
    MaxFaults = 1
PROPERTIES
    JobsSettle
CHECK_DEADLOCK FALSE
