SPECIFICATION FairSpec
CONSTANTS
    Tasks <- MCTwo
    Resources <- MCResources
    NoLock = "no lock"
    LockOf <- MCSame
    MaxConcurrent = 2
    Cancellers = {c1}
    Staged = {1}
    Referenced = {1}
    MaxLives = 3
    MaxLosses = 0
    MaxFaults = 0
INVARIANTS SettledStagesClosed NodeExclusive ExclusiveUnlessCanceled
PROPERTIES VerdictStands EventuallySettled
