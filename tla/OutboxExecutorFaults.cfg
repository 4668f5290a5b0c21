SPECIFICATION Spec

CONSTANTS
    Codes <- MCCodes
    FinalCodes <- MCFinalCodes
    Rows = {1, 2}
    CosignedRows = {}
    SignableRows = {1, 2}
    Workers = {w1, w2}
    BatchSize = 2
    MaxSubmitRetries = 1
    Configs <- LiveConfig
    MaxFaults <- NoLostAnswer

INVARIANTS
    TypeOK
    ExclusiveClaim
    ValidatedOnLedger
    
    
    

PROPERTIES
    SettledIsFinal

SYMMETRY WorkerSymmetry

CHECK_DEADLOCK FALSE
