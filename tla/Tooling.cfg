SPECIFICATION ToolingSpec
CONSTANTS
    t1 = t1
    r1 = r1
    r2 = r2
    Tenants = {t1, t2}
    Runners = {r1}
    Builds <- MCBuilds
    MaxReverts = 2
    CiInfo <- Course
    NoProgressCap = 3
    EnvRerunCap = 1
    MaxCycles = 2
    LocalAttempts = 1
    TimeoutUnits = 12
    NewCipeUnits = 8
    MaxAttempts = 3
    MaxUnparsed = 1
    Context = {"identity", "tenancy"}
    Resource = {"users", "roles"}
    MaxHops = 5
    MaxStatements = 4
INVARIANTS MigrationsStaySound MonitorKeepsItsLimits RulesKeepTheArchitecture ProductIsRenamedWhole
CHECK_DEADLOCK FALSE
