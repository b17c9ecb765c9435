SPECIFICATION FairSpec
CONSTANTS
    Worker = {w1}
    NoWorker = NoWorker
    MaxRow = 2
    BatchSize = 2
    ReclaimLimit = 1
    MaxAttempts = 2
    MaxStalled = 1
    Poison = {1}
    MaxFaults = 2

PROPERTIES EverySettles ImplementsDelivery
CHECK_DEADLOCK FALSE
