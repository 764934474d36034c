SPECIFICATION Spec
CONSTANTS
    Programs = {"cache"}
    Caller = {c1, c2}
    MaxPrice = 3
    MaxCacheErrors = 0
    Refresher = {r1, r2}
    MaxSales = 3
    MaxAborts = 1
    Order = {o1}
    Item = {i1}
    Session = {s1, s2}
    MaxRenames = 2
    MaxQty = 2
    MaxMiscounts = 1
    Replicas = 2
    Client = {k1, k2}
    MaxCommits = 2
    Writer = {w1}
    MaxInserts = 1
    MaxChanges = 3
    FailThresh = 3
    MaxProbes = 5
    MaxRows = 3
    MaxOutages = 2
    MaxUpdates = 2
    MaxOrders = 1
    MaxCuts = 1
    MaxOwn = 2
    ReadServer = {"replica1", "replica2"}
    Connection = {n1, n2}
    Fall = 2
    Rise = 2
    MaxStops = 3
CHECK_DEADLOCK FALSE
PROPERTIES
    SomeUpdateKeepsFresh
