SPECIFICATION Spec
CONSTANTS
    Artifact = {1, 2, 3}
    Rank = {1, 2}
    MaxVersions = 2
    Requests <- MCRequests
    Seeds <- MCSeeds
    Choices <- MCChoices
    MaxWrites = 2
    MaxFaults = 1
INVARIANTS
    ReadsWereTrue
    LoadMissesNothing
    ReadyHolds
    DirectReadsAreTrue
