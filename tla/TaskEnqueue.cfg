SPECIFICATION MCSpec
CONSTANTS
    Requests = {r1, r2, r3, r4}
    TaskIds <- MCFour
    Callers = {r1, r2}
    Nodes = {a, b}
    Home = a
    MaxMoves = 2
    MoveCalls = 4
    MoveFaults = 2
    Limit = 2
    MaxSnaps = 3
    SnapCalls = 4
    SnapFaults = 2
    Cloners = {r1}
    Machines = {m1, m2}
    Originals = 3
    Kinds = {"clone", "prepare", "independent", "reinstall", "purge", "delete", "maintain"}
    TemplateCalls = 3
    TemplateFaults = 1
    Users = {u1, u2}
    Chunks = {c1, c2}
    Handlers = {h1, h2}
    UploadCalls = 4
    UploadFaults = 1
INVARIANTS OneInFlight FreshAnswer RowFindsMachine RunsOnce ReadyMeansHeld FullMeansAlone ReadyHasDisk MarkedMeansStored MadeOfGood
CHECK_DEADLOCK FALSE
