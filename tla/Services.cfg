SPECIFICATION ServicesSpec
CONSTANTS
    Client = {a1, a2}
    Ttl = 2
    MaxAcquires = 3
    MaxFaults = 2
    Request = {b1, b2}
    Limit = 2
    WindowSeconds = 2
    MaxLimiterFaults = 1
    Subscriber = {1, 2, 3}
    Channel = {"k1", "k2"}
    MaxPublished = 2
    MaxDrops = 2
    NoPolicy = NoPolicy
    Policy = {{}, {"timeout"}, {"network", "503"}}
    TimeoutMs = 2
    MaxRedirects = 2
    MaxRetries = 2
    Tab = {a1, a2}
    MaxCalls = 4
    MaxLost = 1
    Processes = {"api", "worker"}
    Retries = 2
    MaxTroubles = 2
SYMMETRY ServicesSymmetry
INVARIANTS LocksAreKept LimitsAreKept SubscriptionsAreKept CallsStayWithinBounds SessionsAreKept ShutdownIsOrdered
CHECK_DEADLOCK FALSE
