SPECIFICATION Spec
CONSTANTS
    Tenant = {t1}
    Shard = {s1, s2, s3}
    Router = {r1, r2}
    InitShards = {s1, s2}
    NoEntry = NoEntry
    None = None
    CanCrash = TRUE
    MaxOrders = 2
    MaxVersion = 3
SYMMETRY MCRouterSymmetry
INVARIANTS TypeOK NoOrderLost ActiveIsAuthoritative StaleRouteFenced VersionTellsStale
CHECK_DEADLOCK FALSE
