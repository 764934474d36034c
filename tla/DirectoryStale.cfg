SPECIFICATION Spec
CONSTANTS
    Tenant = {t1}
    Shard = {s1, s2}
    Router = {r1, r2}
    InitShards = {s1}
    NoEntry = NoEntry
    None = None
    CanCrash = TRUE
    MaxOrders = 2
    MaxVersion = 3
CHECK_DEADLOCK FALSE
PROPERTIES StaleRouterNeverWrites
