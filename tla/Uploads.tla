------------------------------ MODULE Uploads -------------------------------
(***************************************************************************)
(* Uploads in chunks (service/storage/userstorage): a session row counts   *)
(* the chunks received, the chunk store of the control plane keeps them,   *)
(* and completing an upload assembles them, has the node take the file and *)
(* registers it. The users' sessions have the same path on one node: a     *)
(* session is unique for a user and a path, a file for a path. Requests of *)
(* one session overlap; a step is one access to database, disk or node.    *)
(***************************************************************************)
EXTENDS Naturals, Sequences

CONSTANTS
    Users,      \* each with a session
    Chunks,     \* of every file
    Handlers,   \* requests at work
    MaxCalls,   \* requests (bound)
    MaxFaults   \* requests that fail where they touch node or database (bound)

UploadAssumption == MaxCalls \in Nat /\ MaxFaults \in Nat

VARIABLES
    session,   \* each user's row: status, chunks marked in its bitmap, and whether its time is over
    chunkStore, \* each user's chunks on the control plane's disk
    temp,      \* the one temporary file of each of those chunks
    handlers, calls, faults,
    file,      \* what the node has at the path
    owner,     \* whose row in storage_file the path has
    differed,  \* users whose chunks went because the node had stored something else (history)
    finished,  \* users whose file was registered (history)
    spoiled    \* chunks of a user that two requests wrote at a time, or a rejected one
               \* over a good one (history)

vars == <<session, chunkStore, temp, handlers, calls, faults, file, owner, differed, finished, spoiled>>

NoChunk == "none"
Nobody == "nobody"
NoFile == [of |-> Nobody]
Free == [pc |-> "idle"]

Init ==
    /\ session = [u \in Users |-> [status |-> "none", marked |-> {}, over |-> FALSE]]
    /\ chunkStore = [u \in Users |-> [c \in Chunks |-> NoChunk]] /\ temp = chunkStore
    /\ handlers = [h \in Handlers |-> Free] /\ calls = 0 /\ faults = 0
    /\ file = NoFile /\ owner = Nobody
    /\ differed = {} /\ finished = {} /\ spoiled = [u \in Users |-> {}]

Become(h, s) == handlers' = [handlers EXCEPT ![h] = s]
History == UNCHANGED <<differed, finished, spoiled>>
Node == UNCHANGED <<file, owner>>
ChunkDisk == UNCHANGED <<chunkStore, temp>>
Call == calls < MaxCalls /\ calls' = calls + 1 /\ UNCHANGED faults

-----------------------------------------------------------------------------
(* Sessions.                                                               *)

\* The file key stays taken, by sessions that completed or expired as well.
CreateUpload(u) ==
    /\ session[u].status = "none" /\ session' = [session EXCEPT ![u].status = "pending"]
    /\ UNCHANGED <<handlers, calls, faults>> /\ ChunkDisk /\ Node /\ History

Expire(u) ==
    /\ session[u].status = "pending" /\ ~session[u].over
    /\ session' = [session EXCEPT ![u].over = TRUE]
    /\ UNCHANGED <<handlers, calls, faults>> /\ ChunkDisk /\ Node /\ History

\* Every request begins by loading the row, and marks it expired if it is.
Load(h, u, s) ==
    /\ handlers[h] = Free /\ session[u].status \in {"pending", "expired"} /\ Call
    /\ IF session[u].over
       THEN session' = [session EXCEPT ![u].status = "expired"] /\ UNCHANGED handlers
       ELSE Become(h, s) /\ UNCHANGED session
    /\ ChunkDisk /\ Node /\ History

-----------------------------------------------------------------------------
(* UploadChunkData: on disk first, then in the bitmap. (Mutant: the other  *)
(* way round.)                                                             *)

PutSteps_Mutant == <<"mark", "open", "write", "rename">>
PutSteps == <<"open", "write", "rename", "mark">>

UploadChunkData(h, u, c, data) ==
    Load(h, u, [pc |-> "chunk", user |-> u, chunk |-> c, data |-> data, into |-> "nothing",
                marked |-> session[u].marked, todo |-> PutSteps])

\* A chunk whose digest is not the client's is on disk, but not marked. (Mutant:
\* it is.)
Matches_Mutant(data) == data \in {"good", "bad"}
Matches(data) == data = "good"

At(h, step) == handlers[h].pc = "chunk" /\ Head(handlers[h].todo) = step
Onward(s) == IF Len(s.todo) > 1 THEN [s EXCEPT !.todo = Tail(@)] ELSE Free
Writes(o, u, c) ==
    handlers[o].pc = "chunk" /\ handlers[o].user = u /\ handlers[o].chunk = c
    /\ Head(handlers[o].todo) \in {"write", "rename"}

\* Put: os.WriteFile empties the temporary file of the chunk and then fills it,
\* os.Rename makes it the chunk. Requests with one chunk have one temporary
\* file: who writes to it when another one renames it writes into the chunk.
OpenTemp(h) ==
    /\ At(h, "open")
    /\ LET u == handlers[h].user
           c == handlers[h].chunk
       IN /\ temp' = [temp EXCEPT ![u][c] = "partial"]
          /\ spoiled' = IF \E o \in Handlers \ {h} : Writes(o, u, c)
                        THEN [spoiled EXCEPT ![u] = @ \cup {c}] ELSE spoiled
    /\ Become(h, [Onward(handlers[h]) EXCEPT !.into = "temp"])
    /\ UNCHANGED <<session, chunkStore, calls, faults, differed, finished>> /\ Node

WriteTemp(h) ==
    /\ At(h, "write")
    /\ LET s == handlers[h]
       IN /\ temp' = IF s.into = "temp" THEN [temp EXCEPT ![s.user][s.chunk] = s.data] ELSE temp
          /\ chunkStore' = IF s.into = "chunk" THEN [chunkStore EXCEPT ![s.user][s.chunk] = s.data]
                           ELSE chunkStore
    /\ Become(h, Onward(handlers[h]))
    /\ UNCHANGED <<session, calls, faults>> /\ Node /\ History

\* The file that another request has open goes where it is renamed to.
Renamed(into) == CASE into = "temp" -> "chunk" [] OTHER -> "nothing"

\* If the temporary file is gone the request fails; a digest that is not the
\* client's is found after the chunk is in place.
Rename(h) ==
    /\ At(h, "rename")
    /\ LET s == handlers[h]
           u == s.user
           c == s.chunk
       IN IF temp[u][c] = NoChunk
          THEN Become(h, Free) /\ UNCHANGED <<chunkStore, temp, spoiled>>
          ELSE /\ chunkStore' = [chunkStore EXCEPT ![u][c] = temp[u][c]]
               /\ temp' = [temp EXCEPT ![u][c] = NoChunk]
               /\ spoiled' = IF temp[u][c] # "good" /\ chunkStore[u][c] = "good"
                             THEN [spoiled EXCEPT ![u] = @ \cup {c}] ELSE spoiled
               /\ handlers' = [o \in Handlers |->
                    IF o = h THEN IF Matches(s.data) THEN Onward(s) ELSE Free
                    ELSE IF Writes(o, u, c) THEN [handlers[o] EXCEPT !.into = Renamed(@)]
                    ELSE handlers[o]]
    /\ UNCHANGED <<session, calls, faults, differed, finished>> /\ Node

\* The bitmap is written as it was loaded, with this chunk: two requests that
\* loaded the same one forget each other's.
MarkReceived(h) ==
    /\ At(h, "mark")
    /\ LET u == handlers[h].user
       IN session' = [session EXCEPT ![u].marked = handlers[h].marked \cup {handlers[h].chunk},
                                     ![u].over = FALSE]
    /\ Become(h, Onward(handlers[h]))
    /\ UNCHANGED <<calls, faults>> /\ ChunkDisk /\ Node /\ History

-----------------------------------------------------------------------------
(* CompleteUpload.                                                         *)

CompleteUpload(h, u) ==
    /\ session[u].marked = Chunks \/ session[u].over
    /\ Load(h, u, [pc |-> "assemble", user |-> u])

\* Assemble reads every chunk; one that is missing ends the request.
Assemble(h) ==
    /\ handlers[h].pc = "assemble"
    /\ LET u == handlers[h].user
       IN Become(h, IF \E c \in Chunks : chunkStore[u][c] = NoChunk THEN Free
                    ELSE [pc |-> "commit", user |-> u, content |-> chunkStore[u]])
    /\ UNCHANGED <<session, calls, faults>> /\ ChunkDisk /\ Node /\ History

\* storageFileCommit moves the file to its path, over what is there.
Commit(h) ==
    /\ handlers[h].pc = "commit"
    /\ file' = [of |-> handlers[h].user, content |-> handlers[h].content]
    /\ Become(h, [handlers[h] EXCEPT !.pc = "create"])
    /\ UNCHANGED <<session, calls, faults, owner>> /\ ChunkDisk /\ History

\* The directory of the chunks is removed, under the requests that write there.
Discard(h) ==
    LET u == handlers[h].user
        none == [c \in Chunks |-> NoChunk]
    IN /\ chunkStore' = [chunkStore EXCEPT ![u] = none] /\ temp' = [temp EXCEPT ![u] = none]
       /\ handlers' = [o \in Handlers |->
            IF o = h THEN Free
            ELSE IF handlers[o].pc = "chunk" /\ handlers[o].user = u
                 THEN [handlers[o] EXCEPT !.into = "nothing"]
            ELSE handlers[o]]

\* The node cannot be reached, or its answer is lost after the file was moved;
\* or it answers with another checksum, and the chunks go.
CommitFails(h) ==
    /\ handlers[h].pc = "commit" /\ faults < MaxFaults /\ faults' = faults + 1
    /\ LET u == handlers[h].user
       IN /\ file' \in {file, [of |-> u, content |-> handlers[h].content]}
          /\ \/ Become(h, Free) /\ ChunkDisk /\ UNCHANGED differed
             \/ Discard(h) /\ differed' = differed \cup {u}
    /\ UNCHANGED <<session, calls, owner, finished, spoiled>>

\* A path that has a row already: the request ends in a conflict.
CreateRow(h) ==
    /\ handlers[h].pc = "create"
    /\ LET u == handlers[h].user
       IN IF owner = Nobody
          THEN owner' = u /\ finished' = finished \cup {u} /\ Become(h, [pc |-> "status", user |-> u])
          ELSE Become(h, Free) /\ UNCHANGED <<owner, finished>>
    /\ UNCHANGED <<session, calls, faults, file, differed, spoiled>> /\ ChunkDisk

\* The session is completed; an error of this write is only logged.
SetStatus(h) ==
    /\ handlers[h].pc = "status" /\ Become(h, [handlers[h] EXCEPT !.pc = "discard"])
    /\ \/ /\ session' = [session EXCEPT ![handlers[h].user].status = "completed"] /\ UNCHANGED faults
       \/ faults < MaxFaults /\ faults' = faults + 1 /\ UNCHANGED session
    /\ UNCHANGED calls /\ ChunkDisk /\ Node /\ History

DiscardChunks(h) ==
    /\ handlers[h].pc = "discard" /\ Discard(h)
    /\ UNCHANGED <<session, calls, faults>> /\ Node /\ History

\* DeleteFile deletes the row and leaves the file.
DeleteFile ==
    /\ owner # Nobody /\ owner' = Nobody
    /\ UNCHANGED <<session, handlers, calls, faults, file>> /\ ChunkDisk /\ History

Next ==
    \/ \E u \in Users : CreateUpload(u) \/ Expire(u)
    \/ \E h \in Handlers : \/ \E u \in Users : \/ CompleteUpload(h, u)
                                               \/ \E c \in Chunks, d \in {"good", "bad"} : UploadChunkData(h, u, c, d)
                           \/ OpenTemp(h) \/ WriteTemp(h) \/ Rename(h) \/ MarkReceived(h)
                           \/ Assemble(h) \/ Commit(h) \/ CommitFails(h)
                           \/ CreateRow(h) \/ SetStatus(h) \/ DiscardChunks(h)
    \/ DeleteFile

Spec == Init /\ [][Next]_vars

-----------------------------------------------------------------------------
(* Properties.                                                             *)

\* What the bitmap says was received is on disk, until the file is registered
\* (comment of UploadChunkData: no gap that shows only when the upload is
\* completed), however requests of the session overlap. The exception: the node
\* stored something else, and the chunks go while the bitmap stays.
MarkedMeansStored ==
    \A u \in Users \ (differed \cup finished) : \A c \in session[u].marked : chunkStore[u][c] # NoChunk

\* What the node is given consists of chunks that arrived as they were sent,
\* however requests with other chunks, discards and lost marks overlap: one
\* whose digest is wrong is on disk but never counts as received (comment of
\* UploadChunkData). The exceptions: a rejected one was written over a good one,
\* or two requests wrote the chunk at a time, whose bytes mix in the one
\* temporary file they have (spoiled); the digest of the whole file is compared
\* with nothing the client sent.
MadeOfGood ==
    file.of \notin {Nobody} \cup differed \cup finished =>
        \A c \in Chunks : file.content[c] = "good" \/ c \in spoiled[file.of]
=============================================================================
