SPECIFICATION FairSpec
CONSTANTS
    None = None
    e1 = e1
    l1 = l1
    Endpoints = {e1}
    Conns = {c1}
    Ops = {o1}
    Leases = {}
    LeaseOps = {}
    Closers = {k1}
    Via <- ViaFirst
    Exact <- LeasesExact
    MaxConnectionsPerEndpoint = 1
    MaxInFlightPerConnection = 1
    MaxWaiters = 1
    Cancels = {o1, k1}
    Readers = {o1}
    Fragile = {c1}
    Ageing = {c1}
PROPERTIES
    CloseReturns
    AcquireReturns
    NoneLingers
CHECK_DEADLOCK FALSE
