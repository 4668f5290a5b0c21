SPECIFICATION Spec

CONSTANTS
    Clients = {"c1"}
    Requests = {1, 2, 3, 4}
    Workloads <- MCWorkloads
    Accounts = {"a1", "a2"}
    Stores = {"pg", "memory"}
    Keys <- RequestKeys
    MaxFaults = 1
    WindowMs = 2
    Max = 1
    MaxBuckets = 2
    CleanupIntervalMs = 1
    MaxTime = 4

CONSTRAINT MCTime

INVARIANTS
    RequestTypeOK
    OneRow
    PositionIsDeposit
    EffectsBacked
    
    

CHECK_DEADLOCK FALSE
