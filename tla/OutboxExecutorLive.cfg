SPECIFICATION FairSpec

CONSTANTS
    Codes <- MCCodes
    FinalCodes <- MCFinalCodes
    Rows = {1, 2, 3}
    CosignedRows = {2}
    SignableRows = {1}
    Workers = {w1}
    BatchSize = 2
    MaxSubmitRetries = 2
    Configs <- AnyConfig
    MaxFaults <- LostAnswers

INVARIANTS
    BoundedSubmissions
    Recorded

PROPERTIES
    KeepsPromise
    EventuallySettled

CHECK_DEADLOCK FALSE
