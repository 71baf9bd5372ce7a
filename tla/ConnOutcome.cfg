SPECIFICATION Spec
CONSTANTS
    o1 = o1
    o2 = o2
    None = None
    Ops = {o1, o2}
    Closers = {}
    MaxID = 2
    Mode <- AbandonThenDrain
    NoResponse = {}
    Single = {}
    InitOps = {}
    InitialState = "ready"
    MaxQueuedResponses = 1
    MaxQueuedResponseBytes = 2
    MaxUnsolicitedResponses = 1
    MaxUnsolicitedResponseBytes = 2
    FrameLen = 1
    ShortWrites = FALSE
    Sizes = {1}
    MaxContinue = 0
    Strays = {}
    MaxStrays = 0
    Faults = {}
    Reads = {}
    Shuts = {}
    Cancels <- CancelFirst
    Listeners = {}
INVARIANTS
    OneOutcome
CHECK_DEADLOCK FALSE
