SPECIFICATION Spec
CONSTANTS
    None = None
    e1 = e1
    l1 = l1
    Endpoints = {e1}
    Conns = {c1, c2, c3}
    Ops = {o1}
    Leases = {}
    LeaseOps = {}
    Closers = {}
    Via <- ViaFirst
    Exact <- LeasesExact
    MaxConnectionsPerEndpoint = 1
    MaxInFlightPerConnection = 1
    MaxWaiters = 1
    Cancels = {}
    Readers = {}
    Fragile = {c1}
    Ageing = {}
INVARIANTS
    EndpointLimit
CHECK_DEADLOCK FALSE
