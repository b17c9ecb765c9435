SPECIFICATION RefreshSpec
CONSTANTS
    p1 = p1
    p2 = p2
    Proc = {p1, p2}
    MaxToken = 3
    MaxChanges = 1
    BatchSize = 1
    MaxFaults = 1
SYMMETRY ProcSymmetry
INVARIANTS TypeOK LineageExclusive SurvivorsOverlapped SerialFamilies
PROPERTIES NoResurrection
CHECK_DEADLOCK FALSE
