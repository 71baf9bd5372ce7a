SPECIFICATION Spec
CONSTANTS
    o1 = o1
    o2 = o2
    None = None
    Ops = {o1, o2}
    Closers = {c1, c2}
    MaxID = 2
    Mode <- AbandonThenDrain
    NoResponse = {o2}
    Single = {}
    InitOps = {}
    InitialState = "ready"
    MaxQueuedResponses = 1
    MaxQueuedResponseBytes = 2
    MaxUnsolicitedResponses = 1
    MaxUnsolicitedResponseBytes = 2
    FrameLen = 2
    ShortWrites = FALSE
    Sizes = {1}
    MaxContinue = 0
    Strays = {}
    MaxStrays = 0
    Faults = {"reset"}
    Reads = {}
    Shuts = {}
    Cancels <- CancelRequests
    Listeners = {}
SYMMETRY CloserSymmetry
INVARIANTS
    OutcomeTruthful
    FramesWhole
    NoLeakedID
    RetirementCompletes
PROPERTIES
    SilentAfterUnbind
CHECK_DEADLOCK FALSE
