SPECIFICATION FairSpec
CONSTANTS
    Product = {p1}
    Client = {c1, c2}
    Relay = {r1, r2}
    Reader = {d1}
    BatchSize = 2
    LateRetry = FALSE
    MaskedRefusals = FALSE
    MaxEvents = 3
    MaxFailures = 1
    MaxRebuilds = 1
INVARIANTS TypeOK IndexIsCurrent LeaderboardExact StaleOnlyByLateFill
PROPERTY EventuallyConsistent
CHECK_DEADLOCK FALSE
