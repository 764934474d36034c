SPECIFICATION Spec
CONSTANTS
    Product = {p1}
    Client = {c1, c2}
    Relay = {r1, r2}
    Reader = {d1}
    BatchSize = 2
    LateRetry = TRUE
    MaskedRefusals = FALSE
    MaxEvents = 3
    MaxFailures = 1
    MaxRebuilds = 1
INVARIANT LeaderboardExact
CHECK_DEADLOCK FALSE
