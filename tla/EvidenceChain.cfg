SPECIFICATION Spec

CONSTANTS
    Scopes = {loan, vault}
    Payloads = {p1, p2}
    Writers = {w1, w2}
    Stores = {"memory", "pg"}
    MaxEvents = 3

INVARIANTS
    MemoryChainVerifies
    MemoryNoFork
    LinksBack
    TamperEvident
    AnchorsHold

SYMMETRY Symmetry

CHECK_DEADLOCK FALSE
