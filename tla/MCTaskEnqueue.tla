--------------------------- MODULE MCTaskEnqueue ---------------------------
(***************************************************************************)
(* Instances for TLC of TaskEnqueue and of four modules that share nothing *)
(* with it: Migration, Snapshots, Templates and Uploads. In each behaviour *)
(* one of them runs and the others stay as they begin.                     *)
(***************************************************************************)
EXTENDS TaskEnqueue

CONSTANTS
    Callers,                                               \* requests of the other modules
    Nodes, Home, MaxMoves, MoveCalls, MoveFaults,          \* of Migration
    Limit, MaxSnaps, SnapCalls, SnapFaults,                \* of Snapshots
    Cloners, Machines, Originals, Kinds, TemplateCalls, TemplateFaults,   \* of Templates
    Users, Chunks, Handlers, UploadCalls, UploadFaults     \* of Uploads

VARIABLES
    part,
    node, domain, disk, staged, memory, record, moving, mover, late, moves, losses,
    outlived, astray, unknown,
    status, current, held, snapping, snapper, snaps, snapErrors, doubtful,
    table, image, machine, files, saved, defined, queue, running, handler, accepted, failures, lapsed, torn,
    session, chunkStore, temp, handlers, uploads, errors, file, owner, differed, finished, spoiled

M == INSTANCE Migration WITH Requests <- Callers, MaxCalls <- MoveCalls, MaxFaults <- MoveFaults,
    tasks <- moving, req <- mover, calls <- moves, faults <- losses
S == INSTANCE Snapshots WITH Requests <- Callers, MaxCalls <- SnapCalls, MaxFaults <- SnapFaults,
    tasks <- snapping, req <- snapper, calls <- snaps, faults <- snapErrors
T == INSTANCE Templates WITH Requests <- Cloners, MaxCalls <- TemplateCalls, MaxFaults <- TemplateFaults,
    row <- table, disk <- files, tasks <- queue, late <- running, req <- handler,
    calls <- accepted, faults <- failures, doubtful <- lapsed
U == INSTANCE Uploads WITH MaxCalls <- UploadCalls, MaxFaults <- UploadFaults,
    calls <- uploads, faults <- errors

ASSUME PartAssumptions ==
    M!MigrationAssumption /\ S!SnapshotAssumption /\ T!TemplatesAssumption /\ U!UploadAssumption

ofM == <<node, domain, disk, staged, memory, record, moving, mover, late, moves, losses,
         outlived, astray, unknown>>
ofS == <<status, current, held, snapping, snapper, snaps, snapErrors, doubtful>>
ofT == <<table, image, machine, files, saved, defined, queue, running, handler, accepted, failures, lapsed, torn>>
ofU == <<session, chunkStore, temp, handlers, uploads, errors, file, owner, differed, finished, spoiled>>

MCInit ==
    /\ part \in {"enqueue", "migration", "snapshots", "templates", "uploads"}
    /\ Init /\ M!Init /\ S!Init /\ T!Init /\ U!Init
    /\ part = "migration" \/ domain[Home] = "off"
    /\ part = "templates" \/ image[2] = T!Alone
MCNext ==
    \/ part = "enqueue" /\ Next /\ UNCHANGED <<part, ofM, ofS, ofT, ofU>>
    \/ part = "migration" /\ M!Next /\ UNCHANGED <<part, vars, ofS, ofT, ofU>>
    \/ part = "snapshots" /\ S!Next /\ UNCHANGED <<part, vars, ofM, ofT, ofU>>
    \/ part = "templates" /\ T!Next /\ UNCHANGED <<part, vars, ofM, ofS, ofU>>
    \/ part = "uploads" /\ U!Next /\ UNCHANGED <<part, vars, ofM, ofS, ofT>>
MCSpec == MCInit /\ [][MCNext]_<<part, vars, ofM, ofS, ofT, ofU>>

\* The properties of Migration, Snapshots, Templates and Uploads.
RowFindsMachine == M!RowFindsMachine
RunsOnce == M!RunsOnce
ReadyMeansHeld == S!ReadyMeansHeld
FullMeansAlone == T!FullMeansAlone
ReadyHasDisk == T!ReadyHasDisk
MarkedMeansStored == U!MarkedMeansStored
MadeOfGood == U!MadeOfGood

MCFour == {1, 2, 3, 4}
=============================================================================
