SPECIFICATION Spec
CONSTANTS
    None = None
    e1 = e1
    l1 = l1
    Endpoints = {e1}
    Conns = {c1, c2}
    Ops = {o1}
    Leases = {l1}
    LeaseOps = {p1, p2}
    Closers = {k1}
    Via <- ViaFirst
    Exact <- LeasesExact
    MaxConnectionsPerEndpoint = 2
    MaxInFlightPerConnection = 1
    MaxWaiters = 1
    Cancels = {}
    Readers = {o1}
    Fragile = {c1}
    Ageing = {}
INVARIANTS
    InFlightExact
    LeaseExclusive
    NoLostWakeup
    NoneLeaked
CHECK_DEADLOCK FALSE
