SPECIFICATION FairSpec
CONSTANTS
    Mechanisms = {"none", "bind", "gssapi"}
    MaxRounds = 1
    NameWithError = FALSE
    MessageIDs = {1, 2}
    MaxOps = 2
    Modes = {"drain", "abandon", "close"}
INVARIANTS
    ReadyClean
    FailsClosed
    HandlesReleased
    IdentityEarned
PROPERTIES
    SetupReturns
CHECK_DEADLOCK FALSE
