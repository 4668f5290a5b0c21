SPECIFICATION CosignSpec

CONSTANTS
    Codes <- MCCodes
    FinalCodes <- MCFinalCodes
    Rows = {1}
    CosignedRows = {1}
    SignableRows = {1}
    Workers = {w1}
    BatchSize = 1
    MaxSubmitRetries = 0
    Configs <- LiveConfig
    MaxFaults <- OneFault
    u1 = u1
    u2 = u2
    b = b
    Users = {u1, u2, b}
    Staff = {u1, u2}
    BorrowerOf <- MCBorrowerOf
    Requests = {q1, q2, q3, q4, q5}

INVARIANTS
    CosignTypeOK
    
    PendingHasRow
    SignaturesEvidenced
    LoanSetsEvidenced
    


    

SYMMETRY Symmetry

CHECK_DEADLOCK FALSE
