SPECIFICATION FairTraceSpec
CONSTANTS
    None = None
    Ops = {o1}
    Closers = {c1}
    MaxID = 2
    Mode <- AlwaysAbandon
    NoResponse = {}
    Single = {}
    InitOps = {}
    InitialState = "ready"
    MaxQueuedResponses = 1
    MaxQueuedResponseBytes = 2
    MaxUnsolicitedResponses = 1
    MaxUnsolicitedResponseBytes = 2
    FrameLen = 1
    ShortWrites = FALSE
    Sizes = {1}
    MaxContinue = 1
    Strays = {}
    MaxStrays = 0
    Faults = {}
    Reads = {}
    Shuts = {}
    Cancels <- CancelAll
    Listeners = {}
INVARIANTS
    TraceWhole
PROPERTIES
    CancelReturns
    DecisionsEnd
    RetiredQuiesces
    ReaderProgress
CHECK_DEADLOCK FALSE
