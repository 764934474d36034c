SPECIFICATION FairSpec
CONSTANTS
    Tenant = {t1}
    Shard = {s1, s2}
    Router = {r1, r2}
    InitShards = {s1}
    NoEntry = NoEntry
    None = None
    CanCrash = FALSE
    MaxOrders = 2
    MaxVersion = 3
INVARIANTS SingleOwner
PROPERTIES StaleRouterNeverWrites MoveEnds InsertEnds
CHECK_DEADLOCK FALSE
