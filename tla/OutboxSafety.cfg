SPECIFICATION Spec
CONSTANTS
    Worker = {w1, w2}
    NoWorker = NoWorker
    MaxRow = 2
    BatchSize = 2
    ReclaimLimit = 1
    MaxAttempts = 2
    MaxStalled = 1
    Poison = {1}
    MaxFaults = 3
SYMMETRY WorkerSymmetry
INVARIANTS TypeOK ProcessedWasDispatched OnlyCommittedDispatched FailedWasRetried DuplicateNeedsFault
PROPERTIES FinalStatusStays
CHECK_DEADLOCK FALSE
