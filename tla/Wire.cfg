SPECIFICATION Spec
CONSTANTS
    WordBytes = 2
    TagBits = 8
    MaxFrameBytes = 140
    MaxDepth = 4
    MaxElements = 18
    MaxIntegerBytes = 3
    MaxTagNumber = 255
    Requests <- EvenRequests
    Replacements = {0, 1, 2, 5, 31, 48, 63, 127, 128, 129, 130, 160, 255}
    Reach = 20
INVARIANTS
    RoundTrip
    FramerAgrees
    EnvelopeExact
    DecodeStable
CHECK_DEADLOCK FALSE
