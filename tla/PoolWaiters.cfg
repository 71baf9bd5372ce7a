SPECIFICATION Spec
CONSTANTS
    None = None
    e1 = e1
    l1 = l1
    Endpoints = {e1}
    Conns = {c1}
    Ops = {}
    Leases = {l1}
    LeaseOps = {}
    Closers = {}
    Via <- ViaFirst
    Exact <- LeasesExact
    MaxConnectionsPerEndpoint = 1
    MaxInFlightPerConnection = 1
    MaxWaiters = 1
    Cancels = {}
    Readers = {}
    Fragile = {c1}
    Ageing = {}
INVARIANTS
    WaitersCounted
CHECK_DEADLOCK FALSE
