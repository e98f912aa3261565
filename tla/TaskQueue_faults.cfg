SPECIFICATION Spec
CONSTANTS
    Tasks <- MCFour
    Resources <- MCResources
    NoLock = "no lock"
    LockOf <- MCMixed
    MaxConcurrent = 2
    Cancellers = {}
    Staged = {}
    Referenced = {1, 2, 3, 4}
    MaxLives = 2
    MaxLosses = 1
    MaxFaults = 1
INVARIANTS RunAtMostOnce SlotsRespected
PROPERTIES LockSpec
