SPECIFICATION Spec
CONSTANTS
    Client = {c1, c2}
    Inputs <- MCInputs
    Answers <- MCAnswers
    Seeds <- MCSeeds
    LockNames = {"mylock", "other"}
    MaxRequests = 2
    MaxFaults = 2
    MaxCrashes = 1
INVARIANTS
    TypeOK
    CopiesAreFaithful
    OneLockfilePerName
    RefusalHasATwin
    SuccessMeansRecorded
    VerifyReportsDrift
PROPERTIES
    Answered
