SPECIFICATION Spec
CONSTANTS
    Client = {c1, c2}
    Inputs <- MCInputs
    Answers <- MCAnswers
    Seeds <- MCSeeds
    LockNames = {"mylock", "other"}
    MaxRequests = 2
    MaxFaults = 0
    MaxCrashes = 0
INVARIANTS
    InSyncReproduces
