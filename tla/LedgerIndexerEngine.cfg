SPECIFICATION Spec

CONSTANTS
    broker = broker
    loan = loan
    NoAggregate = NoAggregate
    Rows = {1, 2, 3}
    Aggregates = {broker, loan}
    Kind <- MCKind
    Target <- MCTarget
    Needs <- MCNeeds
    Workers = {w1}
    Modes = {TRUE, FALSE}
    FaultKinds = {"net", "db", "crash"}
    MaxFaults = 0

INVARIANTS
    IndexedIsValidated

CHECK_DEADLOCK FALSE
