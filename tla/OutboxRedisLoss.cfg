SPECIFICATION FairSpec
CONSTANTS
    Worker = {w1}
    NoWorker = NoWorker
    MaxRow = 1
    BatchSize = 2
    ReclaimLimit = 1
    MaxAttempts = 2
    MaxStalled = 1
    Poison = {1}
    MaxFaults = 1

PROPERTIES LostJobsRecovered
CHECK_DEADLOCK FALSE
