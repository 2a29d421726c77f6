SPECIFICATION Spec
CONSTANTS
    Gap = 1
    Modulus = 16
    MaxMs = 5
INVARIANT LaterCallsGetLargerUuids
CHECK_DEADLOCK FALSE
