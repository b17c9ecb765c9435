SPECIFICATION EdgeSpec
CONSTANTS
    NoTenant = NoTenant
    Tenant = {t1, t2}
    Chain = {c1, c2, c3}
    MaxDepth = 3
    MaxRows = 2
    Slot = {s1, s2}
    Entered = {" ", " Ops "}
    Address = {"a@b.co"}
    RoleId = {"r1", "r2"}
    ExpiresAt = 1
    MaxTime = 2
    MaxCalls = 2
SYMMETRY EdgeSymmetry
INVARIANTS ScopesStayApart EdgeDecidesRight AggregatesStaySound AccountsStaySound
PROPERTY EndedStaysEnded
CHECK_DEADLOCK FALSE
