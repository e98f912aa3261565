----------------------------- MODULE Snapshots -----------------------------
(***************************************************************************)
(* The snapshots of one virtual machine (service/compute/vm/snapshot*.go): *)
(* the requests that create, restore and delete them, their executors, and *)
(* what libvirt has. All tasks are of the machine, so that the queue runs  *)
(* them one after the other; a request makes one step for each round trip. *)
(***************************************************************************)
EXTENDS Naturals, Sequences, SequencesExt, FiniteSetsExt

CONSTANTS
    Requests,   \* handlers at work
    Limit,      \* snapshotLimit
    MaxSnaps,   \* snapshots ever made (bound)
    MaxCalls,   \* requests (bound)
    MaxFaults   \* refusals of the node, lost answers, canceled tasks (bound)

SnapshotAssumption ==
    Limit \in Nat /\ MaxSnaps \in Nat /\ MaxCalls \in Nat /\ MaxFaults \in Nat

VARIABLES
    status,    \* VMSnapshot.Status of each row, or "absent", or "gone"
    current,   \* the rows with is_current
    held,      \* the snapshots libvirt has
    tasks,     \* tasks in flight, in the order of their rows
    req,       \* each request: where it is, and the rows it is about
    calls, faults,
    doubtful   \* snapshots whose deletion ended with an error (history)

vars == <<status, current, held, tasks, req, calls, faults, doubtful>>

Snaps == 1 .. MaxSnaps
Rows == {s \in Snaps : status[s] \notin {"absent", "gone"}}
Idle == [pc |-> "idle", kind |-> "none", about |-> <<>>]

Init ==
    /\ status = [s \in Snaps |-> "absent"] /\ current = {} /\ held = {}
    /\ tasks = <<>> /\ req = [r \in Requests |-> Idle] /\ calls = 0 /\ faults = 0
    /\ doubtful = {}

-----------------------------------------------------------------------------
(* Requests.                                                               *)

At(r, pc) == req[r].pc = pc
Goto(r, pc, about) == req' = [req EXCEPT ![r].pc = pc, ![r].about = about]
Leave(r) == req' = [req EXCEPT ![r] = Idle]

CreateSteps == <<"count", "insert", "enqueue">>
RestoreSteps == <<"read", "active", "enqueue", "mark">>
DeleteSteps == <<"read", "enqueue", "mark">>
DeleteAllSteps == <<"active", "read", "enqueue", "mark">>
Steps(k) ==
    CASE k = "create" -> CreateSteps
      [] k = "restore" -> RestoreSteps
      [] k = "delete" -> DeleteSteps
      [] OTHER -> DeleteAllSteps

After(r) ==
    LET s == Steps(req[r].kind)
        i == CHOOSE i \in DOMAIN s : s[i] = req[r].pc
    IN IF i = Len(s) THEN "idle" ELSE s[i + 1]

Arrive(r) ==
    /\ req[r] = Idle /\ calls < MaxCalls /\ calls' = calls + 1
    /\ \E k \in {"create", "restore", "delete", "delete_all"} :
        req' = [req EXCEPT ![r] = [pc |-> Steps(k)[1], kind |-> k, about |-> <<>>]]
    /\ UNCHANGED <<status, current, held, tasks, faults, doubtful>>

Count(r) ==
    /\ At(r, "count")
    /\ IF Cardinality(Rows) < Limit THEN Goto(r, After(r), <<>>) ELSE Leave(r)
    /\ UNCHANGED <<status, current, held, tasks, calls, faults, doubtful>>

Insert(r) ==
    /\ At(r, "insert")
    /\ \E s \in Snaps :
        /\ status[s] = "absent" /\ \A t \in Snaps : t < s => status[t] # "absent"
        /\ status' = [status EXCEPT ![s] = "creating"] /\ Goto(r, After(r), <<s>>)
    /\ UNCHANGED <<current, held, tasks, calls, faults, doubtful>>

\* hasActiveTask.
Active(r) ==
    /\ At(r, "active")
    /\ IF tasks = <<>> THEN Goto(r, After(r), req[r].about) ELSE Leave(r)
    /\ UNCHANGED <<status, current, held, tasks, calls, faults, doubtful>>

\* What each request lets pass of the rows it reads; HasChildren is never set.
MayRestore(s) == status[s] = "ready" /\ s \notin current
MayDelete(s) == s \notin current /\ status[s] \notin {"creating", "deleting"}
MayDeleteAll(s) == status[s] \notin {"creating", "deleting"}
NewestFirst(S) == {q \in [1 .. Cardinality(S) -> S] : \A i, j \in DOMAIN q : i < j => q[i] > q[j]}

Read(r) ==
    /\ At(r, "read")
    /\ \/ \E s \in Rows :
            /\ \/ req[r].kind = "restore" /\ MayRestore(s)
               \/ req[r].kind = "delete" /\ MayDelete(s)
            /\ Goto(r, After(r), <<s>>)
       \/ /\ req[r].kind = "delete_all"
          /\ \E skip \in {{}, current} :  \* SkipCurrent
                LET S == {s \in Rows : MayDeleteAll(s)} \ skip
                IN S # {} /\ \E q \in NewestFirst(S) : Goto(r, After(r), q)
       \/ Leave(r)
    /\ UNCHANGED <<status, current, held, tasks, calls, faults, doubtful>>

Enqueue(r) ==
    /\ At(r, "enqueue") /\ IF After(r) = "idle" THEN Leave(r) ELSE Goto(r, After(r), req[r].about)
    /\ tasks' = Append(tasks, [kind |-> req[r].kind, about |-> req[r].about, st |-> "pending"])
    /\ UNCHANGED <<status, current, held, calls, faults, doubtful>>

\* Enqueue fails: only CreateSnapshot has something to take back.
EnqueueFails(r) ==
    /\ At(r, "enqueue") /\ faults < MaxFaults /\ faults' = faults + 1 /\ Leave(r)
    /\ status' = IF req[r].kind = "create" THEN [status EXCEPT ![req[r].about[1]] = "error"] ELSE status
    /\ UNCHANGED <<current, held, tasks, calls, doubtful>>

\* Updates touch the rows that are still there.
Update(S, st) == [s \in Snaps |-> IF s \in S \cap Rows THEN st ELSE status[s]]

\* markSnapshot, after the task was enqueued.
Mark(r) ==
    /\ At(r, "mark") /\ Leave(r)
    /\ status' = Update(ToSet(req[r].about), IF req[r].kind = "restore" THEN "restoring" ELSE "deleting")
    /\ UNCHANGED <<current, held, tasks, calls, faults, doubtful>>

Request(r) ==
    Count(r) \/ Insert(r) \/ Active(r) \/ Read(r) \/ Enqueue(r) \/ EnqueueFails(r) \/ Mark(r)

-----------------------------------------------------------------------------
(* Executors and the node.                                                 *)

Tasked(kinds) == tasks # <<>> /\ tasks[1].kind \in kinds
About == tasks[1].about[1]
Verdict(v) == tasks' = [tasks EXCEPT ![1].st = v]

\* The node carries out an operation or not, and the executor hears of it or not.
Dispatch(effect) ==
    /\ tasks[1].st = "pending"
    /\ \/ held' = effect /\ Verdict("done") /\ UNCHANGED faults
       \/ /\ faults < MaxFaults /\ faults' = faults + 1
          /\ held' \in {held, effect} /\ Verdict("failed")
    /\ UNCHANGED <<status, current, req, calls, doubtful>>

CreateOnNode == Tasked({"create"}) /\ Dispatch(held \cup {About})
RestoreOnNode ==
    /\ Tasked({"restore"})
    /\ IF About \in held THEN Dispatch(held)
       ELSE tasks[1].st = "pending" /\ Verdict("failed")
            /\ UNCHANGED <<status, current, held, req, calls, faults, doubtful>>
DeleteOnNode == Tasked({"delete", "delete_all"}) /\ Dispatch(held \ {About})

\* SnapshotCreateExecutor.Run: ready, or fail. (Mutant: fail is forgotten.)
CreateVerdict_Mutant(st) == "ready"
CreateVerdict(st) == IF st = "done" THEN "ready" ELSE "error"
FinishCreate ==
    /\ Tasked({"create"}) /\ tasks[1].st # "pending" /\ tasks' = Tail(tasks)
    /\ status' = Update({About}, CreateVerdict(tasks[1].st))
    /\ UNCHANGED <<current, held, req, calls, faults, doubtful>>

FinishRestore ==
    /\ Tasked({"restore"}) /\ tasks[1].st # "pending" /\ tasks' = Tail(tasks)
    /\ status' = Update({About}, "ready")
    /\ current' = IF tasks[1].st = "done" THEN {About} \cap Rows ELSE current
    /\ UNCHANGED <<held, req, calls, faults, doubtful>>

\* The row is deleted, or rollbackStatus makes it ready.
FinishDelete ==
    /\ Tasked({"delete"}) /\ tasks[1].st # "pending" /\ tasks' = Tail(tasks)
    /\ LET ok == tasks[1].st = "done"
       IN /\ status' = Update({About}, IF ok THEN "gone" ELSE "ready")
          /\ current' = IF ok THEN current \ {About} ELSE current
          /\ doubtful' = IF ok THEN doubtful ELSE doubtful \cup {About}
    /\ UNCHANGED <<held, req, calls, faults>>

\* One by one; the first error ends the task.
FinishDeleteAll ==
    /\ Tasked({"delete_all"}) /\ tasks[1].st # "pending"
    /\ IF tasks[1].st = "done"
       THEN /\ status' = Update({About}, "gone") /\ current' = current \ {About}
            /\ tasks' = IF Len(tasks[1].about) = 1 THEN Tail(tasks)
                        ELSE [tasks EXCEPT ![1].st = "pending", ![1].about = Tail(@)]
            /\ UNCHANGED doubtful
       ELSE /\ tasks' = Tail(tasks) /\ doubtful' = doubtful \cup {About}
            /\ UNCHANGED <<status, current>>
    /\ UNCHANGED <<held, req, calls, faults>>

\* A pending task is canceled: no executor hears of it.
Cancel(i) ==
    /\ tasks[i].st = "pending" /\ faults < MaxFaults /\ faults' = faults + 1
    /\ tasks' = RemoveAt(tasks, i)
    /\ UNCHANGED <<status, current, held, req, calls, doubtful>>

Node == CreateOnNode \/ RestoreOnNode \/ DeleteOnNode
Finish == FinishCreate \/ FinishRestore \/ FinishDelete \/ FinishDeleteAll

Next ==
    \/ \E r \in Requests : Arrive(r) \/ Request(r)
    \/ Node \/ Finish
    \/ \E i \in DOMAIN tasks : Cancel(i)

Spec == Init /\ [][Next]_vars

-----------------------------------------------------------------------------
(* Properties.                                                             *)

\* A snapshot that is offered for restoring is on the node, through retries,
\* failures, cancellations and status marks written behind their task: only a
\* deletion that ended with an error leaves one ready that may be gone, or that
\* never was (rollbackStatus), beside those a task is deleting.
BeingDeleted == UNION {ToSet(tasks[i].about) : i \in {j \in DOMAIN tasks : tasks[j].kind \in {"delete", "delete_all"}}}
ReadyMeansHeld ==
    \A s \in Rows : status[s] = "ready" => s \in held \cup doubtful \cup BeingDeleted
=============================================================================
