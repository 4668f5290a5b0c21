SPECIFICATION Spec

CONSTANTS
    broker = broker
    loan = loan
    NoAggregate = NoAggregate
    Rows = {1, 2, 3}
    Aggregates = {broker, loan}
    Kind <- MCKind
    Target <- MCTarget
    Needs <- MCNeeds
    Workers = {w1, w2}
    Modes = {TRUE, FALSE}
    FaultKinds = {"net", "db", "crash"}
    MaxFaults = 1

INVARIANTS
    IndexerTypeOK
    ObjectsAreReal
    WrittenBack
    ReconciledHasRun

PROPERTIES
    NothingTakenBack
    KeepsAggregatePromise

SYMMETRY Symmetry

CHECK_DEADLOCK FALSE
