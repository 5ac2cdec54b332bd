\* The sentence of the documentation about a session created late.
CONSTANTS
    HasRunTimeout = TRUE
    SinkMayFail = FALSE
SPECIFICATION Spec
INVARIANTS
    LateSessionIsClosed
CHECK_DEADLOCK FALSE
