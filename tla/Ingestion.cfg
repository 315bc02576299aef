SPECIFICATION Spec
CONSTANTS
    w1 = w1
    w2 = w2
    NoWorker = NoWorker
    Workers = {w1, w2}
    MaxRevisions = 2
    MaxGeneration = 5
    MaxEdits = 2
    MaxAttempts = 2
    MaxFaults = 1
SYMMETRY Symmetry
INVARIANTS
    TypeOK
    OnePublished
    NoSilentDraft
    IndexCoversContent
PROPERTIES
    SnapshotsFrozen
    StaleResultsWriteNothing
    ResultsAreStoredOnce
    ReadersPromise
CHECK_DEADLOCK FALSE
