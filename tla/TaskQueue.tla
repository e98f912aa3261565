----------------------------- MODULE TaskQueue -----------------------------
(***************************************************************************)
(* The asynchronous task queue of the control plane                        *)
(* (src/internal/service/ops/task): the task table in the database, the    *)
(* single scheduling goroutine, one goroutine per claimed task, the HTTP   *)
(* handlers that cancel and clean up tasks, the operation a task starts on *)
(* its node, and the life of the process (start, crash, graceful stop).    *)
(*                                                                         *)
(* Every database round trip is a step of its own: what one goroutine read *)
(* may be stale when it writes.                                            *)
(***************************************************************************)
EXTENDS Naturals, FiniteSets

CONSTANTS
    Tasks,          \* task identifiers, ordered by insertion (the primary key)
    Resources,      \* resource lock keys "type:id"
    NoLock,         \* a task without resource takes no lock
    LockOf,         \* the lock key of each task
    MaxConcurrent,  \* Options.MaxConcurrent
    Cancellers,     \* HTTP requests that may call Cancel, one call each at a time
    Staged,         \* tasks whose executor reports stages
    Referenced,     \* tasks that vm_schedule or network_capture point at
    MaxLives,       \* bound: process starts
    MaxLosses,      \* bound: node answers lost while the process runs
    MaxFaults       \* bound: transient database errors

ASSUME TaskQueueAssumption ==
    /\ IsFiniteSet(Tasks) /\ Tasks \subseteq Nat \ {0}
    /\ NoLock \notin Resources
    /\ LockOf \in [Tasks -> Resources \cup {NoLock}]
    /\ MaxConcurrent \in Nat \ {0}
    /\ Referenced \subseteq Tasks /\ Staged \subseteq Tasks
    /\ MaxLives \in Nat /\ MaxLosses \in Nat /\ MaxFaults \in Nat

VARIABLES
    \* the task and task_stage tables
    status,     \* task.status, "absent" before the insert, "gone" after Cleanup
    cancelReq,  \* tasks with cancel_requested
    openStage,  \* tasks with a task_stage row in status running
    \* the node
    node,       \* tasks whose operation the node is carrying out
    \* the process
    life,       \* "down" | "recovering" | "up" | "stopping" | "stopped"
    run,        \* where the goroutine of each claimed task is
    outcome,    \* the status that goroutine is about to record
    dpc,        \* where the scheduling goroutine is
    batch,      \* rows its current loop has still to visit
    cur,        \* row it is working on, or none
    slots,      \* local variable "running" of dispatch
    locked,     \* local variable "locked" of dispatch
    handler,    \* Cancel calls in flight
    \* bookkeeping of the model
    aged,       \* tasks whose row was unknown for longer than unknownGrace
    started,    \* how many times each task was claimed
    lives, losses, faults

rows    == <<status, cancelReq, openStage>>
loop    == <<dpc, batch, cur, slots, locked>>
counts  == <<lives, losses, faults>>
vars    == <<rows, node, life, run, outcome, loop, handler, aged, started, counts>>

-----------------------------------------------------------------------------
Terminal == {"success", "failed", "canceled"}
Statuses == {"absent", "pending", "running", "unknown", "gone"} \cup Terminal

NoTask == 0

InStatus(S) == {t \in Tasks : status[t] \in S}

\* The tasks whose row keeps the resource key k locked. (Mutant: an unknown
\* task no longer counts.)
HoldersOf_Mutant(k) == {t \in InStatus({"running"}) : LockOf[t] = k}
HoldersOf(k) == {t \in InStatus({"running", "unknown"}) : LockOf[t] = k}

\* Rows the dispatcher reads: the oldest pending ones, at most MaxConcurrent.
PendingWindow ==
    LET P == InStatus({"pending"})
    IN  {t \in P : Cardinality({u \in P : u < t}) < MaxConcurrent}

\* A row deleted by Cleanup stays deleted: UPDATE ... WHERE id = ? finds nothing.
SetStatus(t, s) ==
    status' = IF status[t] = "gone" THEN status ELSE [status EXCEPT ![t] = s]

\* A database call succeeds unless the shared context was cancelled; it fails
\* then, or transiently.
DbWorks == life # "stopping"
DbFails ==
    \/ life = "stopping" /\ UNCHANGED faults
    \/ faults < MaxFaults /\ faults' = faults + 1

Idle == [pc |-> "idle", task |-> NoTask, read |-> "absent"]

Init ==
    /\ status = [t \in Tasks |-> "absent"]
    /\ cancelReq = {} /\ openStage = {} /\ node = {}
    /\ life = "down"
    /\ run = [t \in Tasks |-> "idle"]
    /\ outcome = [t \in Tasks |-> "none"]
    /\ dpc = "off" /\ batch = {} /\ cur = NoTask /\ slots = 0 /\ locked = {}
    /\ handler = [c \in Cancellers |-> Idle]
    /\ aged = {}
    /\ started = [t \in Tasks |-> 0]
    /\ lives = 0 /\ losses = 0 /\ faults = 0

-----------------------------------------------------------------------------
(* Process life: Start, recoverStale, Stop, crash.                         *)

\* Start: recoverStale reads the rows a dead process left running.
Start ==
    /\ life \in {"down", "stopped"} /\ lives < MaxLives
    /\ lives' = lives + 1
    /\ life' = "recovering"
    /\ dpc' = "recover" /\ batch' = InStatus({"running"})
    /\ UNCHANGED <<rows, node, run, outcome, cur, slots, locked, handler, aged,
                   started, losses, faults>>

\* What recoverStale makes of a running row. (Mutant: run the task
\* again.)
Recovered_Requeue == "pending"
RecoveredStatus == "unknown"

\* recoverStale, first statement of the loop: running -> unknown, with a
\* fresh last_reported_at; a failed update goes on with the next row.
RecoverOne(t) ==
    /\ dpc = "recover" /\ t \in batch
    /\ batch' = batch \ {t}
    /\ \/ /\ status' = IF status[t] = "running" THEN [status EXCEPT ![t] = RecoveredStatus]
                                                ELSE status
          /\ aged' = IF status[t] = "running" THEN aged \ {t} ELSE aged
          /\ dpc' = "recoverStages" /\ cur' = t
          /\ UNCHANGED faults
       \/ /\ DbFails
          /\ UNCHANGED <<status, aged, dpc, cur>>
    /\ UNCHANGED <<cancelReq, openStage, node, life, run, outcome, slots, locked,
                   handler, started, lives, losses>>

\* recoverStale, second statement: failOpenStages.
RecoverStages ==
    /\ dpc = "recoverStages"
    /\ \/ openStage' = openStage \ {cur} /\ UNCHANGED faults
       \/ DbFails /\ UNCHANGED openStage
    /\ dpc' = "recover" /\ cur' = NoTask
    /\ UNCHANGED <<status, cancelReq, node, life, run, outcome, batch, slots,
                   locked, handler, aged, started, lives, losses>>

\* recoverStale is done: the scheduling goroutine starts, then HTTP is served.
Recovered ==
    /\ dpc = "recover" /\ batch = {}
    /\ life' = "up" /\ dpc' = "idle"
    /\ UNCHANGED <<rows, node, run, outcome, batch, cur, slots, locked, handler,
                   aged, started, counts>>

\* The process dies: every goroutine and HTTP request is gone, the tables and
\* the operations on the nodes stay.
Vanish(l) ==
    /\ life' = l
    /\ run' = [t \in Tasks |-> "idle"]
    /\ outcome' = [t \in Tasks |-> "none"]
    /\ dpc' = "off" /\ batch' = {} /\ cur' = NoTask /\ slots' = 0 /\ locked' = {}
    /\ handler' = [c \in Cancellers |-> Idle]
    /\ UNCHANGED <<rows, node, aged, started, counts>>

Crash ==
    /\ life \in {"recovering", "up", "stopping"} /\ lives < MaxLives
    /\ Vanish("down")

\* stopBackground: stopLoops cancels the context every loop and task shares.
Shutdown ==
    /\ life = "up" /\ lives < MaxLives
    /\ life' = "stopping"
    /\ UNCHANGED <<rows, node, run, outcome, loop, handler, aged, started, counts>>

\* The scheduling goroutine sees ctx.Done (its database calls fail before that).
LoopExit ==
    /\ life = "stopping" /\ dpc # "off"
    /\ dpc' = "off" /\ batch' = {} /\ cur' = NoTask /\ slots' = 0 /\ locked' = {}
    /\ UNCHANGED <<rows, node, life, run, outcome, handler, aged, started, counts>>

\* Queue.Stop: the wait group is empty, the process ends.
Stop ==
    /\ life = "stopping" /\ dpc = "off"
    /\ \A t \in Tasks : run[t] = "idle"
    /\ Vanish("stopped")

-----------------------------------------------------------------------------
(* The scheduling goroutine: sweepUnknown, then dispatch, at every tick.   *)

LoopRuns == life = "up"

\* Time: an unknown row grows older than unknownGrace.
Age(t) ==
    /\ status[t] = "unknown" /\ t \notin aged
    /\ aged' = aged \cup {t}
    /\ UNCHANGED <<rows, node, life, run, outcome, loop, handler, started, counts>>

\* The rows sweepUnknown reads. (Mutant: none of them.)
Overdue_None == {}
Overdue == InStatus({"unknown"}) \cap aged

\* The ticker or wake fires; sweepUnknown reads the rows past the grace period.
Tick ==
    /\ LoopRuns /\ dpc = "idle"
    /\ \/ /\ dpc' = "sweep" /\ batch' = Overdue
          /\ UNCHANGED faults
       \/ DbFails /\ dpc' = "count" /\ UNCHANGED batch
    /\ UNCHANGED <<rows, node, life, run, outcome, cur, slots, locked, handler,
                   aged, started, lives, losses>>

\* sweepUnknown: failOpenStages for the next row ...
\* (Mutant: the stages are left alone.)
SweptStages_Mutant(t) == openStage
SweptStages(t) == openStage \ {t}
SweepStages(t) ==
    /\ LoopRuns /\ dpc = "sweep" /\ t \in batch
    /\ \/ openStage' = SweptStages(t) /\ UNCHANGED faults
       \/ DbFails /\ UNCHANGED openStage
    /\ dpc' = "sweepFinish" /\ cur' = t /\ batch' = batch \ {t}
    /\ UNCHANGED <<status, cancelReq, node, life, run, outcome, slots, locked,
                   handler, aged, started, lives, losses>>

\* ... and finish(failed) for it.
SweepFinish ==
    /\ LoopRuns /\ dpc = "sweepFinish"
    /\ \/ SetStatus(cur, "failed") /\ UNCHANGED faults
       \/ DbFails /\ UNCHANGED status
    /\ dpc' = "sweep" /\ cur' = NoTask
    /\ UNCHANGED <<cancelReq, openStage, node, life, run, outcome, batch, slots,
                   locked, handler, aged, started, lives, losses>>

\* dispatch: count the running tasks; no free slot, nothing more this round.
SweepDone ==
    /\ LoopRuns /\ dpc = "sweep" /\ batch = {}
    /\ dpc' = "count"
    /\ UNCHANGED <<rows, node, life, run, outcome, batch, cur, slots, locked,
                   handler, aged, started, counts>>

\* (Mutant: one slot too many.)
SlotFree_Mutant(n) == n <= MaxConcurrent
SlotFree(n) == n < MaxConcurrent

CountRunning ==
    /\ LoopRuns /\ dpc = "count"
    /\ \/ /\ slots' = Cardinality(InStatus({"running"}))
          /\ dpc' = IF SlotFree(slots') THEN "select" ELSE "idle"
          /\ UNCHANGED faults
       \/ DbFails /\ dpc' = "idle" /\ UNCHANGED slots
    /\ UNCHANGED <<rows, node, life, run, outcome, batch, cur, locked, handler,
                   aged, started, lives, losses>>

\* dispatch: read the window of pending rows.
SelectPending ==
    /\ LoopRuns /\ dpc = "select"
    /\ \/ batch' = PendingWindow /\ dpc' = "visit" /\ UNCHANGED faults
       \/ DbFails /\ dpc' = "idle" /\ UNCHANGED batch
    /\ locked' = {}
    /\ UNCHANGED <<rows, node, life, run, outcome, cur, slots, handler, aged,
                   started, lives, losses>>

\* dispatch: the loop ends with the window or with the last free slot.
DispatchDone ==
    /\ LoopRuns /\ dpc = "visit"
    /\ batch = {} \/ ~SlotFree(slots)
    /\ dpc' = "idle" /\ batch' = {}
    /\ UNCHANGED <<rows, node, life, run, outcome, cur, slots, locked, handler,
                   aged, started, counts>>

\* The next row's resource is free: not locked this round, no holder in the
\* table (hasRunningOn). A row without resource passes.
\* (Mutant: only the resources of this round are looked at.)
Free_Mutant(t) == LockOf[t] = NoLock \/ LockOf[t] \notin locked
Free(t) ==
    \/ LockOf[t] = NoLock
    \/ LockOf[t] \notin locked /\ HoldersOf(LockOf[t]) = {}

\* dispatch: check the next row. hasRunningOn answers "busy" on an error.
Visit(t) ==
    /\ LoopRuns /\ dpc = "visit" /\ SlotFree(slots)
    /\ t \in batch /\ \A u \in batch : t <= u
    /\ batch' = batch \ {t}
    /\ \/ /\ Free(t)
          /\ locked' = IF LockOf[t] = NoLock THEN locked ELSE locked \cup {LockOf[t]}
          /\ dpc' = "claim" /\ cur' = t
          /\ UNCHANGED faults
       \/ /\ ~Free(t) /\ UNCHANGED <<locked, dpc, cur, faults>>
       \/ /\ LockOf[t] # NoLock /\ DbFails /\ UNCHANGED <<locked, dpc, cur>>
    /\ UNCHANGED <<rows, node, life, run, outcome, slots, handler, aged, started,
                   lives, losses>>

\* claim: UPDATE ... WHERE id = ? AND status = pending, then go run.
\* (Mutant: the update without its status condition.)
Claimable_Mutant(t) == status[t] \in Statuses
Claimable(t) == status[t] = "pending"
Claim ==
    /\ LoopRuns /\ dpc = "claim"
    /\ \/ /\ Claimable(cur)
          /\ status' = [status EXCEPT ![cur] = "running"]
          /\ run' = [run EXCEPT ![cur] = "claimed"]
          /\ started' = [started EXCEPT ![cur] = @ + 1]
          /\ slots' = slots + 1
          /\ UNCHANGED faults
       \/ /\ ~Claimable(cur) /\ UNCHANGED <<status, run, started, slots, faults>>
       \/ /\ DbFails /\ UNCHANGED <<status, run, started, slots>>
    /\ dpc' = "visit" /\ cur' = NoTask
    /\ UNCHANGED <<cancelReq, openStage, node, life, outcome, batch, locked,
                   handler, aged, lives, losses>>

-----------------------------------------------------------------------------
(* The goroutine of one claimed task: run, with its Reporter and finish.   *)

Alive == life \in {"up", "stopping"}

\* exec.Run starts and dispatches its operation to the node.
ExecStart(t) ==
    /\ Alive /\ run[t] = "claimed"
    /\ run' = [run EXCEPT ![t] = "exec"]
    /\ node' = IF DbWorks THEN node \cup {t} ELSE node
    /\ UNCHANGED <<rows, life, outcome, loop, handler, aged, started, counts>>

\* The node reports a stage; Reporter.Begin writes it (its context outlives
\* the task's).
StageBegin(t) ==
    /\ Alive /\ run[t] = "exec" /\ t \in node /\ t \in Staged \ openStage
    /\ openStage' = openStage \cup {t}
    /\ UNCHANGED <<status, cancelReq, node, life, run, outcome, loop, handler,
                   aged, started, counts>>

\* The node ends the operation.
NodeDone(t) ==
    /\ t \in node
    /\ node' = node \ {t}
    /\ UNCHANGED <<rows, life, run, outcome, loop, handler, aged, started, counts>>

\* exec.Run returns the node's answer.
ExecReturn(t) ==
    /\ Alive /\ run[t] = "exec" /\ t \notin node
    /\ \/ run' = [run EXCEPT ![t] = "check"] /\ UNCHANGED outcome
       \/ /\ run' = [run EXCEPT ![t] = "close"]
          /\ outcome' = [outcome EXCEPT ![t] = "failed"]
    /\ UNCHANGED <<rows, node, life, loop, handler, aged, started, counts>>

\* exec.Run returns an error while the node goes on: the connection broke, or
\* the context of the task was cancelled.
ExecLost(t) ==
    /\ Alive /\ run[t] = "exec" /\ t \in node
    /\ \/ life = "stopping" /\ UNCHANGED losses
       \/ losses < MaxLosses /\ losses' = losses + 1
    /\ run' = [run EXCEPT ![t] = "close"]
    /\ outcome' = [outcome EXCEPT ![t] = "failed"]
    /\ UNCHANGED <<rows, node, life, loop, handler, aged, started, lives, faults>>

\* run reads cancel_requested; a failed read counts as "not requested".
CheckCancel(t) ==
    /\ Alive /\ run[t] = "check"
    /\ run' = [run EXCEPT ![t] = "close"]
    /\ \/ /\ DbWorks
          /\ outcome' = [outcome EXCEPT ![t] =
                            IF t \in cancelReq /\ status[t] # "gone" THEN "canceled"
                                                                    ELSE "success"]
          /\ UNCHANGED faults
       \/ DbFails /\ outcome' = [outcome EXCEPT ![t] = "success"]
    /\ UNCHANGED <<rows, node, life, loop, handler, aged, started, lives, losses>>

\* Reporter.Success or Reporter.Fail closes the stage still open.
CloseStage(t) ==
    /\ Alive /\ run[t] = "close"
    /\ run' = [run EXCEPT ![t] = "finish"]
    /\ \/ DbWorks /\ openStage' = openStage \ {t} /\ UNCHANGED faults
       \/ DbFails /\ UNCHANGED openStage
    /\ UNCHANGED <<status, cancelReq, node, life, outcome, loop, handler, aged,
                   started, lives, losses>>

\* finish: UPDATE ... WHERE id = ?, whatever the status is by now; an error is
\* only logged.
Finish(t) ==
    /\ Alive /\ run[t] = "finish"
    /\ \/ DbWorks /\ SetStatus(t, outcome[t]) /\ UNCHANGED faults
       \/ DbFails /\ UNCHANGED status
    /\ run' = [run EXCEPT ![t] = "idle"]
    /\ outcome' = [outcome EXCEPT ![t] = "none"]
    /\ UNCHANGED <<cancelReq, openStage, node, life, loop, handler, aged, started,
                   lives, losses>>

-----------------------------------------------------------------------------
(* The HTTP handlers.                                                      *)

\* Enqueue: one INSERT. Identifiers are handed out in order.
Enqueue(t) ==
    /\ life = "up" /\ status[t] = "absent"
    /\ \A u \in Tasks : u < t => status[u] # "absent"
    /\ status' = [status EXCEPT ![t] = "pending"]
    /\ UNCHANGED <<cancelReq, openStage, node, life, run, outcome, loop, handler,
                   aged, started, counts>>

\* Cancel, the read: terminal and unknown tasks are refused with a conflict.
CancelRead(c, t) ==
    /\ life = "up" /\ handler[c].pc = "idle"
    /\ status[t] \in {"pending", "running"}
    /\ handler' = [handler EXCEPT ![c] = [pc |-> "write", task |-> t, read |-> status[t]]]
    /\ UNCHANGED <<rows, node, life, run, outcome, loop, aged, started, counts>>

\* Cancel, the write: UPDATE ... WHERE id = ?; the status goes to canceled when
\* the row was pending at the time of the read.
CancelWrite(c) ==
    /\ Alive /\ handler[c].pc = "write"
    /\ LET t == handler[c].task
       IN  /\ cancelReq' = cancelReq \cup {t}
           /\ IF handler[c].read = "pending" THEN SetStatus(t, "canceled")
                                             ELSE UNCHANGED status
    /\ handler' = [handler EXCEPT ![c] = Idle]
    /\ UNCHANGED <<openStage, node, life, run, outcome, loop, aged, started, counts>>

\* Cleanup: DELETE of terminal rows nothing points at.
Cleanup(t) ==
    /\ life = "up" /\ status[t] \in Terminal /\ t \notin Referenced
    /\ status' = [status EXCEPT ![t] = "gone"]
    /\ UNCHANGED <<cancelReq, openStage, node, life, run, outcome, loop, handler,
                   aged, started, counts>>

-----------------------------------------------------------------------------
Process == Start \/ Recovered \/ RecoverStages \/ LoopExit \/ Stop
            \/ \E t \in Tasks : RecoverOne(t)

Scheduler == Tick \/ SweepFinish \/ SweepDone \/ CountRunning \/ SelectPending
              \/ DispatchDone \/ Claim \/ \E t \in Tasks : SweepStages(t) \/ Visit(t)

Runner(t) == ExecStart(t) \/ ExecReturn(t) \/ CheckCancel(t) \/ CloseStage(t) \/ Finish(t)

Other(t) == ExecLost(t) \/ StageBegin(t) \/ NodeDone(t) \/ Age(t) \/ Enqueue(t) \/ Cleanup(t)

Next ==
    \/ Process \/ Crash \/ Shutdown \/ Scheduler
    \/ \E t \in Tasks : Runner(t) \/ Other(t)
    \/ \E c \in Cancellers : CancelWrite(c) \/ \E t \in Tasks : CancelRead(c, t)

Spec == Init /\ [][Next]_vars

\* The Go scheduler runs every goroutine that can run, the ticker keeps firing,
\* nodes end what they started (every operation has a timeout there), clocks
\* advance, and the service manager starts the process again. Nobody has to
\* enqueue, cancel, crash, stop or clean up anything.
Fairness ==
    /\ WF_vars(Process) /\ WF_vars(Scheduler)
    /\ \A t \in Tasks : /\ WF_vars(Runner(t)) /\ WF_vars(NodeDone(t)) /\ WF_vars(Age(t))
                        /\ WF_vars(life = "stopping" /\ ExecLost(t))
    /\ \A c \in Cancellers : WF_vars(CancelWrite(c))

FairSpec == Spec /\ Fairness
-----------------------------------------------------------------------------
(* Properties.                                                             *)

TypeOK ==
    /\ status \in [Tasks -> Statuses]
    /\ cancelReq \subseteq Tasks /\ openStage \subseteq Tasks
    /\ node \subseteq Tasks /\ aged \subseteq Tasks
    /\ life \in {"down", "recovering", "up", "stopping", "stopped"}
    /\ run \in [Tasks -> {"idle", "claimed", "exec", "check", "close", "finish"}]
    /\ outcome \in [Tasks -> {"none"} \cup Terminal]
    /\ dpc \in {"off", "recover", "recoverStages", "idle", "sweep", "sweepFinish",
               "count", "select", "visit", "claim"}
    /\ batch \subseteq Tasks /\ cur \in Tasks \cup {NoTask}
    /\ slots \in Nat /\ locked \subseteq Resources
    /\ handler \in [Cancellers -> [pc : {"idle", "write"}, task : Tasks \cup {NoTask},
                                   read : Statuses]]
    /\ started \in [Tasks -> Nat]
    /\ lives \in Nat /\ losses \in Nat /\ faults \in Nat

\* R-003 as the table keeps it: whatever requests, crashes, restarts and
\* database errors do, two rows never hold the same resource, counting the
\* unknown rows left by a dead process (queue.go, dispatch and hasRunningOn).
LockExclusive ==
    \A t, u \in InStatus({"running", "unknown"}) :
        LockOf[t] = LockOf[u] => t = u \/ LockOf[t] = NoLock

\* Two executors work on one resource at a time only when a request marked one
\* of them canceled after it had been claimed (queue.go, run; query.go, Cancel):
\* nothing else takes the lock from under a running executor.
ExclusiveUnlessCanceled ==
    \A t, u \in {v \in Tasks : run[v] # "idle"} :
        LockOf[t] = LockOf[u] => \/ t = u \/ LockOf[t] = NoLock
                                \/ {status[t], status[u]} \cap {"canceled", "gone"} # {}

\* The number of rows in status running never exceeds Options.MaxConcurrent,
\* although dispatch counts once and claims later (queue.go, dispatch).
SlotsRespected == Cardinality(InStatus({"running"})) <= MaxConcurrent

\* "A task executes once" (the comment of claim): no crash, recovery, request
\* or error makes the queue run a task a second time.
RunAtMostOnce == \A t \in Tasks : started[t] <= 1

\* A verdict is not replaced by another verdict: a terminal row never becomes
\* active again, and it only ever changes from or to canceled (the two
\* unconditional updates of Cancel and finish).
VerdictStep(t) ==
    status[t] \in Terminal =>
        /\ status'[t] \in Terminal \cup {"gone"}
        /\ {status[t], status'[t]} # {"success", "failed"}
VerdictStands == [][\A t \in Tasks : VerdictStep(t)]_vars

\* A task recorded as a success or a failure has no stage left in status
\* running, also when the process died between the writes of recoverStale or
\* of sweepUnknown (queue.go, failOpenStages; stage.go, closeOpen).
SettledStagesClosed ==
    \A t \in InStatus({"success", "failed"}) : t \notin openStage

\* As long as no node answer was lost while the process ran and nobody canceled
\* a task, the node itself never carries out two operations on one resource:
\* neither a crash nor a restart between them lets the second one start early,
\* unless the first one outlives unknownGrace and the sweep records it as failed
\* while it still runs (queue.go, unknownGrace: two minutes, where the node's
\* operations may take hours).
OutlivesGrace(t) == status[t] = "failed" /\ t \in aged
NodeExclusive ==
    losses = 0 /\ InStatus({"canceled", "gone"}) = {} =>
        \A t, u \in node : LockOf[t] = LockOf[u] =>
            t = u \/ LockOf[t] = NoLock \/ OutlivesGrace(t) \/ OutlivesGrace(u)

\* A task that was accepted ends in a verdict (or was cleaned up after one),
\* across crashes and graceful stops: nothing stays pending, running or
\* unknown for ever (queue.go, the comments of unknownGrace and sweepUnknown).
EventuallySettled ==
    \A t \in Tasks : status[t] \in {"pending", "running", "unknown"}
                        ~> status[t] \in Terminal \cup {"gone"}

\* The queue implements the exclusive lock of ResourceLock.
Phase == [t \in Tasks |-> CASE status[t] \in {"absent", "pending"}  -> "waiting"
                            [] status[t] \in {"running", "unknown"} -> "holding"
                            [] OTHER                               -> "released"]
Grant == INSTANCE ResourceLock WITH phase <- Phase
LockSpec == Grant!Spec

-----------------------------------------------------------------------------
(* What comments of the repository promise and the code does not keep.     *)

\* queue.go, Stop: a graceful stop "waits for the tasks in flight" and "does
\* not cancel" them, so none is left in status running.
StopSettles == life = "stopped" => InStatus({"running"}) = {}
=============================================================================
