SPECIFICATION Spec

CONSTANTS
    Codes <- MCCodes
    FinalCodes <- MCFinalCodes
    Rows = {1}
    CosignedRows = {}
    SignableRows = {1}
    Workers = {w1}
    BatchSize = 2
    MaxSubmitRetries = 2
    Configs <- LiveConfig
    MaxFaults <- OneLostAnswer

INVARIANTS
    ExecutesOnce

CHECK_DEADLOCK FALSE
