SPECIFICATION FairSpec
CONSTANTS
    o1 = o1
    o2 = o2
    None = None
    Ops = {o1}
    Closers = {}
    MaxID = 2
    Mode <- AbandonThenDrain
    NoResponse = {}
    Single = {}
    InitOps = {}
    InitialState = "ready"
    MaxQueuedResponses = 1
    MaxQueuedResponseBytes = 2
    MaxUnsolicitedResponses = 1
    MaxUnsolicitedResponseBytes = 2
    FrameLen = 1
    ShortWrites = FALSE
    Sizes = {1}
    MaxContinue = 1
    Strays <- Unprompted
    MaxStrays = 1
    Faults = {}
    Reads = {}
    Shuts = {}
    Cancels <- CancelRequests
    Listeners = {}
PROPERTIES
    ReaderProgress
CHECK_DEADLOCK FALSE
