SPECIFICATION LogsSpec
CONSTANTS
    Programs = {"accounts", "orders"}
    Account = {a1}
    Process = {p1, p2}
    Amount = {1}
    None = None
    MaxVersion = 4
    Order = {o1, o2}
    Client = {c1, c2}
    Projector = {j1}
    UpdateUnknown = TRUE
    MaxEvents = 3
    MaxFailures = 1
INVARIANTS TypeOK VersionsContiguous SnapshotsFaithful NeverOverdrawn
    ProjectionTypeOK NothingMissed
PROPERTIES ImplementsLedger ImplementsLaggingCopy ProjectedUnlessPoisoned
CHECK_DEADLOCK FALSE
