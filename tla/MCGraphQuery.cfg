SPECIFICATION Spec
CONSTANTS
    Artifact = {1, 2, 3, 4}
    Indexes <- MCIndexes
    Depths = {0, 1, 2, 3}
INVARIANTS
    UnlimitedIsComplete
    ListedOnce
    DepthIsAPath
PROPERTIES
    Terminates
