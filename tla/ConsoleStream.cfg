SPECIFICATION FairSpec
CONSTANTS
    Sessions = {s1, s2}
    Online = {s1}
    Limit = 1
    Cap = 1
INVARIANTS SlotsExact SlotFreed
PROPERTIES ClosedForgotten ServedConsoleEnds
CHECK_DEADLOCK FALSE
