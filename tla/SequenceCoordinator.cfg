SPECIFICATION FairSpec

CONSTANTS
    Codes <- MCCodes
    FinalCodes <- MCFinalCodes
    Workers = {w1, w2}
    Jobs = {j1, j2}
    NoJob = NoJob
    Nobody = Nobody
    Stores = {"pg", "memory", "local"}
    MaxSubmitRetries = 1
    MaxFaults = 1

INVARIANTS
    SequenceTypeOK
    

PROPERTIES
    GrantsIncrease
    EveryAttemptEnds

CHECK_DEADLOCK FALSE
