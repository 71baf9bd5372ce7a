SPECIFICATION Spec
CONSTANTS
    o1 = o1
    o2 = o2
    None = None
    Ops = {o1}
    Closers = {}
    MaxID = 2
    Mode <- AbandonThenDrain
    NoResponse = {}
    Single = {}
    InitOps = {}
    InitialState = "ready"
    MaxQueuedResponses = 2
    MaxQueuedResponseBytes = 3
    MaxUnsolicitedResponses = 1
    MaxUnsolicitedResponseBytes = 2
    FrameLen = 1
    ShortWrites = FALSE
    Sizes = {1, 2}
    MaxContinue = 2
    Strays = {}
    MaxStrays = 0
    Faults = {"eof"}
    Reads = {o1}
    Shuts = {o1}
    Cancels <- CancelAll
    Listeners = {}
INVARIANTS
    DeliveryComplete
    NoLostResponseWakeup
    QueueAccounting
PROPERTIES
    TerminalWins
CHECK_DEADLOCK FALSE
