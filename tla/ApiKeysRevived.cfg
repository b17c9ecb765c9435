SPECIFICATION IdentitySpec
CONSTANTS
    Unit = {x1, x2}
    Caller = {q1, q2}
    Person = {owner, guest}
    Founder = owner
    CustomRole = {ra, rb}
    RoleName = {n1, n2}
    MaxRoleUnits = 3
    KeyPermission = {pa, pb}
    TouchWindow = 1
    LastKeyTick = 4
    MaxKeyUnits = 2
    Invitation = {i1, i2}
    Nobody = nobody
    TokenTTL = 1
    LastTick = 2
    MaxResets = 2
    MaxPasswords = 3
    User = {u1, u2}
    ApiKey = {}
    Role = {r}
    Permission = {p, s}
    Writer = {x1, x2}
    Reader = {q1}
    TTL = 2
    MaxFill = 1
    MaxWrites = 1
    MaxFaults = 1
SYMMETRY IdentitySymmetry
INVARIANT RevokedStaysRevoked
CHECK_DEADLOCK FALSE
