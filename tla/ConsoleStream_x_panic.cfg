SPECIFICATION Spec
CONSTANTS
    Sessions = {s1}
    Online = {s1}
    Limit = 1
    Cap = 1
INVARIANT WriteReturnsError
CHECK_DEADLOCK FALSE
