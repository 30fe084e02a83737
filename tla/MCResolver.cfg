SPECIFICATION Spec
CONSTANTS
    Artifact = {1, 2, 3, 4}
    Rank = {1, 2}
    MaxVersions = 2
    Roots = {1}
    Indexes <- MCIndexes
INVARIANTS
    TrailIsExact
    DepthIsDistance
    NothingViableIsSkipped
    HighestAvailable
    DiagnosisIsBacked
    FailureHasAReason
PROPERTIES
    FoundIsFinal
    Implements
    Terminates
