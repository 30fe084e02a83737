SPECIFICATION Spec
CONSTANTS
    Process = {p1, p2}
    Request = {r1, r2}
    Statements = 2
    Calls = 2
    MaxStarts = 3
    MaxFaults = 1
INVARIANTS
    ServesOnlyMigrated
    NothingIsCutShort
PROPERTIES
    EveryRequestEnds
