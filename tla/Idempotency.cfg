SPECIFICATION FairSpec
CONSTANTS
    r1 = r1
    r2 = r2
    r3 = r3
    r4 = r4
    k1 = k1
    k2 = k2
    b1 = b1
    b2 = b2
    Request <- MCRequest
    Key = {k1, k2}
    Body = {b1, b2}
    KeyOf <- MCKeyOf
    BodyOf <- MCBodyOf
    NoRequest = NoRequest
    MaxFaults = 2
    MaxSwitches = 1
INVARIANTS TypeOK ExecutedOnce ResultIsOfItsOwnRequest NoStuckKey
PROPERTIES ImplementsSingleExecution
CHECK_DEADLOCK FALSE
PROPERTY EveryRequestAnswered
