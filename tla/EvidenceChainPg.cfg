SPECIFICATION Spec

CONSTANTS
    Scopes = {loan}
    Payloads = {p1, p2}
    Writers = {w1, w2}
    Stores = {"pg"}
    MaxEvents = 3

INVARIANTS
    ChainVerifies

SYMMETRY Symmetry

CHECK_DEADLOCK FALSE
