SPECIFICATION Spec
CONSTANTS
    Requests = {r1, r2}
    Kinds = {"create", "clone", "start", "delete", "force", "purge", "restore", "lock", "adopt"}
    MaxCalls = 4
    MaxLost = 1

PROPERTY LockStopsDeletion
CHECK_DEADLOCK FALSE
