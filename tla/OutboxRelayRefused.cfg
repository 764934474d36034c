SPECIFICATION Spec
CONSTANTS
    Product = {p1}
    Client = {c1, c2}
    Relay = {r1, r2}
    Reader = {d1}
    BatchSize = 2
    LateRetry = FALSE
    MaskedRefusals = TRUE
    MaxEvents = 3
    MaxFailures = 2
    MaxRebuilds = 1
INVARIANT LeaderboardExact
CHECK_DEADLOCK FALSE
