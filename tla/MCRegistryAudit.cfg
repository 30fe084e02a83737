SPECIFICATION Spec
CONSTANTS
    Client = {c1, c2}
    Requests <- MCRequests
    Seeds <- MCSeeds
    MaxRequests = 2
    MaxFaults = 1
    MaxCrashes = 1
INVARIANTS
    WritesAreRecorded
