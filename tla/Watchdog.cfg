SPECIFICATION MCSpec
CONSTANTS
    Kind = "mirror"
    Ports = {m}
    Requests = {a1, a2}
    MaxCalls = 3
    MaxFaults = 2
    FirewallCalls = 3
    FirewallFaults = 1
    Groups = {b1, b2}
    Operators = {a1, a2}
    MaxEdits = 3
    VMs = {b1, b2}
    AddressCalls = 3
    AddressFaults = 1
    Hosts = {a1, a2}
    Rows = {b1, b2}
    MaxEnrolls = 3
    MaxLosses = 1
SYMMETRY Symmetry
INVARIANTS Guarded RollbackOpens SeenBeforeShipped FreeLeadsNowhere StartsWhole AdmittedOnce
CHECK_DEADLOCK FALSE
