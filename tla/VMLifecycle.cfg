SPECIFICATION MCSpec
CONSTANTS
    Requests = {r1, r2}
    Kinds = {"create", "start", "keep", "force", "purge", "restore", "lock", "adopt"}
    MaxCalls = 4
    MaxLost = 1
    Files = {vda, vdb}
    System = {vda}
    Pools = {images, pool2}
    Home = images
    MaxAsks = 4
    MaxMissed = 1
    MaxFaults = 1
INVARIANTS RowsOwnDomains BootsLatest
PROPERTIES SparesTheRunning ProjectionConverges
CHECK_DEADLOCK FALSE
