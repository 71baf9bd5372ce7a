SPECIFICATION Spec
CONSTANTS
    WordBytes = 2
    TagBits = 8
    MaxFrameBytes = 520
    MaxDepth = 4
    MaxElements = 18
    MaxIntegerBytes = 3
    MaxTagNumber = 255
    Requests <- LongRequests
    Replacements = {127}
    Reach = 4
INVARIANTS
    FramesBounded
CHECK_DEADLOCK FALSE
