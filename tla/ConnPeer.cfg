SPECIFICATION Spec
CONSTANTS
    o1 = o1
    o2 = o2
    None = None
    Ops = {o1}
    Closers = {}
    MaxID = 1
    Mode <- AlwaysClose
    NoResponse = {}
    Single = {o1}
    InitOps = {}
    InitialState = "ready"
    MaxQueuedResponses = 1
    MaxQueuedResponseBytes = 2
    MaxUnsolicitedResponses = 2
    MaxUnsolicitedResponseBytes = 3
    FrameLen = 1
    ShortWrites = FALSE
    Sizes = {1, 2}
    MaxContinue = 1
    Strays <- Notifications
    MaxStrays = 3
    Faults = {}
    Reads = {}
    Shuts = {o1}
    Cancels = {}
    Listeners = {u1}
INVARIANTS
    UnsolicitedServed
CHECK_DEADLOCK FALSE
