SPECIFICATION Spec
CONSTANTS
    Programs = {"ranges", "ring", "archive", "bank", "databases", "schemas"}
    MaxTime = 3
    MaxLoads = 3
    Node = {"node1", "node2", "node3"}
    Vnodes = 2
    Points = 6
    Keys = {4}
    Orders = 2
    Batch = 1
    MaxYears = 1
    MaxRestores = 1
    Payer = {p1, p2}
    Seed = 2
    MaxRetries = 3
    Slug = {"acme", "globex"}
    MaxWrites = 1
    MaxCalls = 3
    MaxUnread = 2
    Request = {r1, r2}
    Conn = {c1}
    Migrator = {m1, m2}
    MaxProvisions = 2
INVARIANTS
    TypeOK
    RowsWhereRouted
    OrdersSomewhere
    TransfersExact
    TenantsReachData
    OneTenantPerRequest
CHECK_DEADLOCK FALSE
