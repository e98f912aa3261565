SPECIFICATION Spec
CONSTANTS
    Machines = {m1, m2}
    Originals = 3
    Requests = {r1}
    Kinds = {"delete"}
    MaxCalls = 1
    MaxFaults = 0
INVARIANT NoStrategyBypasses
CHECK_DEADLOCK FALSE
