SPECIFICATION Spec
CONSTANTS
    Tasks <- MCTwo
    Resources <- MCResources
    NoLock = "no lock"
    LockOf <- MCSame
    MaxConcurrent = 1
    Cancellers = {}
    Staged = {}
    Referenced = {}
    MaxLives = 2
    MaxLosses = 0
    MaxFaults = 0
INVARIANT StopSettles
