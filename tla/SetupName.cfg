SPECIFICATION Spec
CONSTANTS
    Mechanisms = {"none", "bind", "gssapi"}
    MaxRounds = 1
    NameWithError = TRUE
    MessageIDs = {1, 2}
    MaxOps = 2
    Modes = {"drain", "abandon", "close"}
INVARIANTS
    HandlesReleased
CHECK_DEADLOCK FALSE
