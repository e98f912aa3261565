-------------------------- MODULE TaskQueueProofs --------------------------
(***************************************************************************)
(* Theorems about TaskQueue, for any number of tasks, resources, requests, *)
(* slots, crashes and errors.                                              *)
(***************************************************************************)
EXTENDS TaskQueue, FiniteSetTheorems, TLAPS

\* What the local variables of the two loops and of run mean.
LocalsOK ==
    /\ dpc \in {"recoverStages", "sweepFinish", "claim"} => cur \in Tasks
    /\ \A t \in Tasks : run[t] \in {"close", "finish"} => outcome[t] \in Terminal
    /\ \A c \in Cancellers : handler[c].pc = "write" => handler[c].task \in Tasks

Typed == TypeOK /\ LocalsOK

LEMMA TypedInit == Init => Typed
  BY TaskQueueAssumption
  DEF Init, Typed, TypeOK, LocalsOK, Idle, NoTask, Statuses, Terminal

LEMMA TypedStep == Typed /\ [Next]_vars => Typed'
<1> USE TaskQueueAssumption DEF Typed, TypeOK, LocalsOK, rows, loop, counts, NoTask,
        Statuses, Terminal, InStatus, DbFails, DbWorks, SetStatus
<1> SUFFICES ASSUME Typed, [Next]_vars PROVE Typed'
  OBVIOUS
<1>1. CASE Process
  <2>1. CASE Start BY <2>1 DEF Start
  <2>2. CASE Recovered BY <2>2 DEF Recovered
  <2>3. CASE RecoverStages
    <3>1. openStage' = openStage \ {cur} \/ openStage' = openStage
      BY <2>3 DEF RecoverStages
    <3>2. openStage' \subseteq Tasks
      BY <3>1
    <3>3. QED BY <2>3, <3>2 DEF RecoverStages
  <2>4. CASE LoopExit BY <2>4 DEF LoopExit
  <2>5. CASE Stop BY <2>5 DEF Stop, Vanish, Idle
  <2>6. ASSUME NEW t \in Tasks, RecoverOne(t) PROVE Typed'
    <3>1. aged' = aged \ {t} \/ aged' = aged
      BY <2>6 DEF RecoverOne
    <3>2. aged' \subseteq Tasks
      BY <3>1
    <3>3. QED BY <2>6, <3>2 DEF RecoverOne, RecoveredStatus
  <2>7. QED BY <1>1, <2>1, <2>2, <2>3, <2>4, <2>5, <2>6 DEF Process
<1>2. CASE Crash BY <1>2 DEF Crash, Vanish, Idle
<1>3. CASE Shutdown BY <1>3 DEF Shutdown
<1>4. CASE Scheduler
  <2>1. CASE Tick
    <3>1. batch' = Overdue \/ batch' = batch
      BY <2>1 DEF Tick
    <3>2. batch' \subseteq Tasks
      BY <3>1 DEF Overdue
    <3>3. QED BY <2>1, <3>2 DEF Tick
  <2>2. CASE SweepFinish BY <2>2 DEF SweepFinish
  <2>3. CASE SweepDone BY <2>3 DEF SweepDone
  <2>4. CASE CountRunning
    <3>1. Cardinality(InStatus({"running"})) \in Nat
      BY FS_Subset, FS_CardinalityType DEF InStatus
    <3>2. QED BY <2>4, <3>1 DEF CountRunning, SlotFree
  <2>5. CASE SelectPending
    <3>1. batch' = PendingWindow \/ batch' = batch
      BY <2>5 DEF SelectPending
    <3>2. batch' \subseteq Tasks
      BY <3>1 DEF PendingWindow
    <3>3. QED BY <2>5, <3>2 DEF SelectPending
  <2>6. CASE DispatchDone BY <2>6 DEF DispatchDone
  <2>7. ASSUME NEW t \in Tasks, Visit(t) PROVE Typed'
    BY <2>7 DEF Visit
  <2>8. CASE Claim BY <2>8 DEF Claim, Claimable
  <2>9. ASSUME NEW t \in Tasks, SweepStages(t) PROVE Typed'
    <3>1. openStage' = openStage \ {t} \/ openStage' = openStage
      BY <2>9 DEF SweepStages, SweptStages
    <3>2. openStage' \subseteq Tasks
      BY <3>1
    <3>3. QED BY <2>9, <3>2 DEF SweepStages
  <2>10. QED
    BY <1>4, <2>1, <2>2, <2>3, <2>4, <2>5, <2>6, <2>7, <2>8, <2>9 DEF Scheduler
<1>5. ASSUME NEW t \in Tasks, Runner(t) PROVE Typed'
  <2>1. CASE ExecStart(t) BY <2>1 DEF ExecStart
  <2>2. CASE ExecReturn(t) BY <2>2 DEF ExecReturn
  <2>3. CASE CheckCancel(t) BY <2>3 DEF CheckCancel
  <2>4. CASE CloseStage(t)
    <3>1. openStage' = openStage \ {t} \/ openStage' = openStage
      BY <2>4 DEF CloseStage
    <3>2. openStage' \subseteq Tasks
      BY <3>1
    <3>3. QED BY <2>4, <3>2 DEF CloseStage
  <2>5. CASE Finish(t) BY <2>5 DEF Finish
  <2>6. QED BY <1>5, <2>1, <2>2, <2>3, <2>4, <2>5 DEF Runner
<1>6. ASSUME NEW t \in Tasks, Other(t) PROVE Typed'
  <2>1. CASE ExecLost(t) BY <2>1 DEF ExecLost
  <2>2. CASE StageBegin(t) BY <2>2 DEF StageBegin
  <2>3. CASE NodeDone(t) BY <2>3 DEF NodeDone
  <2>4. CASE Age(t) BY <2>4 DEF Age
  <2>5. CASE Enqueue(t) BY <2>5 DEF Enqueue
  <2>6. CASE Cleanup(t) BY <2>6 DEF Cleanup
  <2>7. QED BY <1>6, <2>1, <2>2, <2>3, <2>4, <2>5, <2>6 DEF Other
<1>7. ASSUME NEW c \in Cancellers, CancelWrite(c) PROVE Typed'
  BY <1>7 DEF CancelWrite, Idle
<1>8. ASSUME NEW c \in Cancellers, NEW t \in Tasks, CancelRead(c, t) PROVE Typed'
  BY <1>8 DEF CancelRead
<1>9. CASE UNCHANGED vars BY <1>9 DEF vars
<1>10. QED
  BY <1>1, <1>2, <1>3, <1>4, <1>5, <1>6, <1>7, <1>8, <1>9 DEF Next

\* TypeOK holds, and with it the meaning of the goroutines' local variables.
THEOREM TypeCorrect == Spec => []TypeOK
<1>1. Spec => []Typed
  BY TypedInit, TypedStep, PTL DEF Spec
<1>2. Typed => TypeOK
  BY DEF Typed
<1>3. QED BY <1>1, <1>2, PTL

-----------------------------------------------------------------------------
(* Only claim moves a row to running: every other step keeps the set of    *)
(* holders or shrinks it, and never makes an old row pending again.        *)

Waiting == {"absent", "pending"}
Holding == {"running", "unknown"}

NoGrant(t) ==
    /\ status'[t] = "running" => status[t] = "running"
    /\ status'[t] \in Holding => status[t] \in Holding
    /\ status'[t] \in Waiting => status[t] \in Waiting

\* A step writes at most one row.
OneRow == \E t \in Tasks : \A u \in Tasks \ {t} : status'[u] = status[u]

Modest ==
    /\ \A t \in Tasks : NoGrant(t)
    /\ started' = started
    /\ status' = status \/ OneRow

LEMMA OnlyClaimGrants == Typed /\ [Next]_vars /\ ~Claim => Modest
<1> USE DEF Typed, TypeOK, LocalsOK, rows, loop, counts, Statuses, Terminal,
        NoGrant, Waiting, Holding, SetStatus
<1> SUFFICES ASSUME Typed, [Next]_vars, ~Claim PROVE Modest
  OBVIOUS
<1>1. ASSUME status' = status, started' = started PROVE Modest
  BY <1>1 DEF Modest
<1>2. ASSUME NEW t \in Tasks, started' = started,
             \/ status' = status
             \/ \E s \in Statuses : status' = [status EXCEPT ![t] = s] /\ NoGrant(t)
      PROVE  Modest
  <2>1. CASE status' = status BY <1>1, <1>2, <2>1
  <2>2. ASSUME NEW s \in Statuses, status' = [status EXCEPT ![t] = s], NoGrant(t)
        PROVE  Modest
    <3>1. \A u \in Tasks \ {t} : status'[u] = status[u]
      BY <2>2
    <3>2. \A u \in Tasks : NoGrant(u)
      BY <2>2, <3>1
    <3>3. QED BY <1>2, <3>1, <3>2 DEF Modest, OneRow
  <2>3. QED BY <1>2, <2>1, <2>2
<1>3. CASE Process
  <2>1. CASE Start \/ Recovered \/ RecoverStages \/ LoopExit \/ Stop
    BY <1>1, <2>1 DEF Start, Recovered, RecoverStages, LoopExit, Stop, Vanish
  <2>2. ASSUME NEW t \in Tasks, RecoverOne(t) PROVE Modest
    BY <1>2, <2>2 DEF RecoverOne, RecoveredStatus
  <2>3. QED BY <1>3, <2>1, <2>2 DEF Process
<1>4. CASE Crash \/ Shutdown
  BY <1>1, <1>4 DEF Crash, Shutdown, Vanish
<1>5. CASE Scheduler
  <2>1. CASE Tick \/ SweepDone \/ CountRunning \/ SelectPending \/ DispatchDone
    BY <1>1, <2>1 DEF Tick, SweepDone, CountRunning, SelectPending, DispatchDone
  <2>2. CASE SweepFinish
    BY <1>2, <2>2 DEF SweepFinish
  <2>3. ASSUME NEW t \in Tasks, SweepStages(t) \/ Visit(t) PROVE Modest
    BY <1>1, <2>3 DEF SweepStages, Visit
  <2>4. QED BY <1>5, <2>1, <2>2, <2>3 DEF Scheduler
<1>6. ASSUME NEW t \in Tasks, Runner(t) PROVE Modest
  <2>1. CASE ExecStart(t) \/ ExecReturn(t) \/ CheckCancel(t) \/ CloseStage(t)
    BY <1>1, <2>1 DEF ExecStart, ExecReturn, CheckCancel, CloseStage
  <2>2. CASE Finish(t)
    <3>1. outcome[t] \in Terminal BY <2>2 DEF Finish
    <3>2. QED BY <1>2, <2>2, <3>1 DEF Finish
  <2>3. QED BY <1>6, <2>1, <2>2 DEF Runner
<1>7. ASSUME NEW t \in Tasks, Other(t) PROVE Modest
  <2>1. CASE ExecLost(t) \/ StageBegin(t) \/ NodeDone(t) \/ Age(t)
    BY <1>1, <2>1 DEF ExecLost, StageBegin, NodeDone, Age
  <2>2. CASE Enqueue(t) BY <1>2, <2>2 DEF Enqueue
  <2>3. CASE Cleanup(t) BY <1>2, <2>3 DEF Cleanup
  <2>4. QED BY <1>7, <2>1, <2>2, <2>3 DEF Other
<1>8. ASSUME NEW c \in Cancellers, CancelWrite(c) PROVE Modest
  <2>1. handler[c].task \in Tasks BY <1>8 DEF CancelWrite
  <2>2. QED BY <1>2, <1>8, <2>1 DEF CancelWrite
<1>9. ASSUME NEW c \in Cancellers, NEW t \in Tasks, CancelRead(c, t) PROVE Modest
  BY <1>1, <1>9 DEF CancelRead
<1>10. CASE UNCHANGED vars BY <1>1, <1>10 DEF vars
<1>11. QED
  BY <1>3, <1>4, <1>5, <1>6, <1>7, <1>8, <1>9, <1>10 DEF Next

-----------------------------------------------------------------------------
(* The local variables of dispatch, between its reads and its claim.       *)

\* No step other than those of dispatch touches them, but for the steps that
\* leave the dispatch loop.
LoopKept == dpc' = dpc /\ cur' = cur /\ slots' = slots
Dispatching == {"select", "visit", "claim"}

LEMMA DispatchSteps ==
  ASSUME Typed, [Next]_vars
  PROVE  \/ LoopKept
         \/ dpc' \notin Dispatching
         \/ CountRunning
         \/ SelectPending
         \/ \E t \in Tasks : Visit(t)
         \/ Claim
<1> USE DEF LoopKept, Dispatching, loop
<1>1. CASE Process
  BY <1>1 DEF Process, Start, Recovered, RecoverStages, LoopExit, Stop, Vanish, RecoverOne
<1>2. CASE Crash \/ Shutdown BY <1>2 DEF Crash, Shutdown, Vanish
<1>3. CASE Scheduler
  BY <1>3 DEF Scheduler, Tick, SweepFinish, SweepDone, DispatchDone, SweepStages
<1>4. ASSUME NEW t \in Tasks, Runner(t) PROVE LoopKept
  BY <1>4 DEF Runner, ExecStart, ExecReturn, CheckCancel, CloseStage, Finish
<1>5. ASSUME NEW t \in Tasks, Other(t) PROVE LoopKept
  BY <1>5 DEF Other, ExecLost, StageBegin, NodeDone, Age, Enqueue, Cleanup
<1>6. ASSUME NEW c \in Cancellers, CancelWrite(c) PROVE LoopKept
  BY <1>6 DEF CancelWrite
<1>7. ASSUME NEW c \in Cancellers, NEW t \in Tasks, CancelRead(c, t) PROVE LoopKept
  BY <1>7 DEF CancelRead
<1>8. CASE UNCHANGED vars BY <1>8 DEF vars
<1>9. QED BY <1>1, <1>2, <1>3, <1>4, <1>5, <1>6, <1>7, <1>8 DEF Next

-----------------------------------------------------------------------------
(* Mutual exclusion of the resource lock.                                  *)

\* What dispatch established about the row it is about to claim stays true
\* until it claims it: other goroutines only release locks.
ClaimSafe == dpc = "claim" => LockOf[cur] = NoLock \/ HoldersOf(LockOf[cur]) = {}

LockInv == Typed /\ LockExclusive /\ ClaimSafe

LEMMA LockStep == LockInv /\ [Next]_vars => LockInv'
<1> SUFFICES ASSUME LockInv, [Next]_vars PROVE LockInv'
  OBVIOUS
<1> USE DEF LockInv, LockExclusive, ClaimSafe, InStatus, HoldersOf
<1>1. Typed' BY TypedStep
<1>2. CASE Claim
  <2>1. cur \in Tasks /\ dpc' = "visit"
    BY <1>2 DEF Claim, Typed, LocalsOK
  <2>2. status' = status \/ status' = [status EXCEPT ![cur] = "running"]
    BY <1>2 DEF Claim
  <2>3. LockOf[cur] = NoLock \/ HoldersOf(LockOf[cur]) = {}
    BY <1>2 DEF Claim
  <2>4. LockExclusive'
    BY <2>1, <2>2, <2>3 DEF Typed, TypeOK
  <2>5. QED BY <1>1, <2>1, <2>4
<1>3. CASE ~Claim
  <2>1. \A t \in Tasks : NoGrant(t)
    BY <1>3, OnlyClaimGrants DEF Modest
  <2>2. LockExclusive'
    BY <2>1 DEF NoGrant, Holding
  <2>3. \A k : HoldersOf(k) = {} => HoldersOf(k)' = {}
    BY <2>1 DEF NoGrant, Holding
  <2>4. ClaimSafe'
    <3>1. CASE LoopKept BY <2>3, <3>1 DEF LoopKept
    <3>2. ASSUME NEW t \in Tasks, Visit(t) PROVE ClaimSafe'
      <4>1. CASE dpc' = dpc BY <3>2, <4>1 DEF Visit
      <4>2. CASE cur' = t /\ Free(t) BY <2>3, <3>2, <4>2 DEF Free
      <4>3. QED BY <3>2, <4>1, <4>2 DEF Visit
    <3>3. CASE CountRunning \/ SelectPending
      BY <3>3 DEF CountRunning, SelectPending
    <3>4. QED BY <1>3, <3>1, <3>2, <3>3, DispatchSteps DEF Dispatching
  <2>5. QED BY <1>1, <2>2, <2>4
<1>4. QED BY <1>2, <1>3

\* R-003: two rows never hold one resource, for any number of tasks, requests,
\* crashes and database errors.
THEOREM ResourcesLocked == Spec => []LockExclusive
<1>1. Init => LockInv
  BY TypedInit DEF Init, LockInv, LockExclusive, ClaimSafe, InStatus
<1>2. LockInv => LockExclusive
  BY DEF LockInv
<1>3. QED BY <1>1, <1>2, LockStep, PTL DEF Spec

-----------------------------------------------------------------------------
(* A task executes once.                                                   *)

\* A row the dispatcher can still claim was never claimed.
OnceInv ==
    /\ Typed
    /\ \A t \in Tasks : /\ started[t] <= 1
                        /\ status[t] \in Waiting => started[t] = 0

\* No crash, recovery, request or error makes the queue run a task twice.
THEOREM ExecutedOnce == Spec => []RunAtMostOnce
<1>1. Init => OnceInv
  BY TypedInit DEF Init, OnceInv
<1>2. OnceInv /\ [Next]_vars => OnceInv'
  <2> SUFFICES ASSUME OnceInv, [Next]_vars PROVE OnceInv'
    OBVIOUS
  <2>1. Typed' BY TypedStep DEF OnceInv
  <2>2. CASE Claim
    <3>1. cur \in Tasks BY <2>2 DEF Claim, OnceInv, Typed, LocalsOK
    <3>2. CASE UNCHANGED <<status, started>>
      BY <2>1, <3>2 DEF OnceInv
    <3>3. CASE /\ status[cur] = "pending"
               /\ status' = [status EXCEPT ![cur] = "running"]
               /\ started' = [started EXCEPT ![cur] = @ + 1]
      BY <2>1, <3>1, <3>3 DEF OnceInv, Waiting, Typed, TypeOK
    <3>4. QED BY <2>2, <3>2, <3>3 DEF Claim, Claimable
  <2>3. CASE ~Claim
    BY <2>1, <2>3, OnlyClaimGrants DEF Modest, NoGrant, OnceInv
  <2>4. QED BY <2>2, <2>3
<1>3. OnceInv => RunAtMostOnce
  BY DEF OnceInv, RunAtMostOnce
<1>4. QED BY <1>1, <1>2, <1>3, PTL DEF Spec

-----------------------------------------------------------------------------
(* The bound on concurrently running tasks.                                *)

Running == InStatus({"running"})

\* dispatch counts first and claims later: in between, its count is never
\* below the number of running rows, and it claims only below the bound.
SlotInv ==
    /\ Typed
    /\ SlotsRespected
    /\ dpc \in Dispatching => Cardinality(Running) <= slots
    /\ dpc = "claim" => slots < MaxConcurrent

\* Counting a set of tasks gives a number, and no more than a larger set.
LEMMA CountTasks ==
  ASSUME NEW S \in SUBSET Tasks
  PROVE  /\ Cardinality(S) \in Nat
         /\ \A T \in SUBSET S : Cardinality(T) \in Nat /\ Cardinality(T) <= Cardinality(S)
         /\ \A t \in Tasks : Cardinality(S \cup {t}) \in Nat
                              /\ Cardinality(S \cup {t}) <= Cardinality(S) + 1
<1>1. IsFiniteSet(S)
  BY TaskQueueAssumption, FS_Subset
<1>2. QED
  BY <1>1, FS_Subset, FS_CardinalityType, FS_AddElement

LEMMA SlotStep == SlotInv /\ [Next]_vars => SlotInv'
<1> SUFFICES ASSUME SlotInv, [Next]_vars PROVE SlotInv'
  OBVIOUS
<1>1. Typed' BY TypedStep DEF SlotInv
<1>2. Running \subseteq Tasks /\ MaxConcurrent \in Nat /\ slots \in Nat /\ slots' \in Nat
  BY <1>1, TaskQueueAssumption DEF Running, InStatus, SlotInv, Typed, TypeOK
<1>3. Cardinality(Running) \in Nat /\ Cardinality(Running) <= MaxConcurrent
  BY <1>2, CountTasks DEF SlotInv, SlotsRespected, Running
<1>4. CASE Claim
  <2>1. cur \in Tasks /\ dpc = "claim" /\ dpc' = "visit"
    BY <1>4 DEF Claim, SlotInv, Typed, LocalsOK
  <2>2. CASE UNCHANGED <<status, slots>>
    BY <1>1, <2>1, <2>2
    DEF SlotInv, SlotsRespected, Dispatching, Running, InStatus
  <2>3. CASE status' = [status EXCEPT ![cur] = "running"] /\ slots' = slots + 1
    <3>1. Running' = Running \cup {cur}
      BY <2>1, <2>3 DEF Running, InStatus, SlotInv, Typed, TypeOK
    <3>2. Cardinality(Running') \in Nat /\ Cardinality(Running') <= Cardinality(Running) + 1
      BY <3>1, <2>1, <1>2, CountTasks
    <3>3. Cardinality(Running) <= slots /\ slots < MaxConcurrent
      BY <2>1 DEF SlotInv, Dispatching
    <3>4. QED
      BY <1>1, <1>2, <1>3, <2>1, <2>3, <3>2, <3>3 DEF SlotInv, SlotsRespected, Running
  <2>4. QED BY <1>4, <2>2, <2>3 DEF Claim
<1>5. CASE ~Claim
  <2>1. Running' \subseteq Running
    BY <1>5, OnlyClaimGrants DEF SlotInv, Modest, NoGrant, Running, InStatus
  <2>2. Cardinality(Running') \in Nat /\ Cardinality(Running') <= Cardinality(Running)
    BY <1>2, <2>1, CountTasks
  <2>3. SlotsRespected'
    BY <1>2, <1>3, <2>2 DEF SlotsRespected, Running
  <2>4. CASE LoopKept
    BY <1>1, <1>2, <1>3, <2>2, <2>3, <2>4 DEF SlotInv, LoopKept
  <2>5. CASE dpc' \notin Dispatching
    BY <1>1, <2>3, <2>5 DEF SlotInv, Dispatching
  <2>6. CASE CountRunning
    <3>1. status' = status /\ dpc' \in {"idle", "select"}
      BY <2>6 DEF CountRunning, rows
    <3>2. dpc' = "select" => slots' = Cardinality(Running)
      BY <2>6 DEF CountRunning, Running, InStatus
    <3>3. Running' = Running
      BY <3>1 DEF Running, InStatus
    <3>4. QED
      BY <1>1, <1>3, <2>3, <3>1, <3>2, <3>3 DEF SlotInv, Dispatching
  <2>7. CASE SelectPending
    <3>1. status' = status /\ slots' = slots /\ dpc = "select" /\ dpc' \in {"visit", "idle"}
      BY <2>7 DEF SelectPending, rows
    <3>2. QED
      BY <1>1, <2>3, <3>1 DEF SlotInv, Dispatching, Running, InStatus
  <2>8. ASSUME NEW t \in Tasks, Visit(t) PROVE SlotInv'
    <3>1. /\ status' = status /\ slots' = slots /\ dpc = "visit"
          /\ dpc' \in {"visit", "claim"} /\ slots < MaxConcurrent
      BY <2>8 DEF Visit, rows, SlotFree
    <3>2. QED
      BY <1>1, <2>3, <3>1 DEF SlotInv, Dispatching, Running, InStatus
  <2>9. QED
    BY <1>5, <2>4, <2>5, <2>6, <2>7, <2>8, DispatchSteps DEF SlotInv
<1>6. QED BY <1>4, <1>5

\* Never more than MaxConcurrent rows in status running.
THEOREM SlotBound == Spec => []SlotsRespected
<1>1. Init => SlotInv
  <2> SUFFICES ASSUME Init PROVE SlotInv
    OBVIOUS
  <2>1. InStatus({"running"}) = {} BY DEF Init, InStatus
  <2>2. Cardinality(InStatus({"running"})) = 0 BY <2>1, FS_EmptySet
  <2>3. QED
    BY <2>2, TypedInit, TaskQueueAssumption
    DEF Init, SlotInv, SlotsRespected, Dispatching, Running
<1>2. SlotInv => SlotsRespected
  BY DEF SlotInv
<1>3. QED BY <1>1, <1>2, SlotStep, PTL DEF Spec

-----------------------------------------------------------------------------
(* The queue implements ResourceLock.                                      *)

LEMMA GrantStep == LockInv /\ [Next]_vars => [Grant!Next]_Phase
<1> SUFFICES ASSUME LockInv, [Next]_vars, Phase' # Phase PROVE Grant!Next
  OBVIOUS
<1> USE DEF Phase
<1>1. status' # status
  OBVIOUS
<1>2. status \in [Tasks -> Statuses] /\ status' \in [Tasks -> Statuses]
  BY TypedStep DEF LockInv, Typed, TypeOK
<1>3. CASE Claim
  <2>1. /\ cur \in Tasks /\ status[cur] = "pending"
        /\ status' = [status EXCEPT ![cur] = "running"]
        /\ LockOf[cur] = NoLock \/ HoldersOf(LockOf[cur]) = {}
    BY <1>1, <1>3 DEF Claim, Claimable, LockInv, ClaimSafe, Typed, LocalsOK
  <2>2. Phase[cur] = "waiting" /\ Phase' = [Phase EXCEPT ![cur] = "holding"]
    BY <1>2, <2>1
  <2>3. \A u \in Tasks : Phase[u] = "holding" => status[u] \in {"running", "unknown"}
    OBVIOUS
  <2>4. LockOf[cur] = NoLock \/ \A u \in Tasks : Phase[u] = "holding" => LockOf[u] # LockOf[cur]
    BY <2>1, <2>3 DEF HoldersOf, InStatus
  <2>5. QED BY <2>1, <2>2, <2>4 DEF Grant!Next, Grant!Acquire
<1>4. CASE ~Claim
  <2>1. /\ \A t \in Tasks : NoGrant(t)
        /\ OneRow
    BY <1>1, <1>4, OnlyClaimGrants DEF LockInv, Modest
  <2>2. PICK t \in Tasks : \A u \in Tasks \ {t} : status'[u] = status[u]
    BY <2>1 DEF OneRow
  <2>3. Phase' = [Phase EXCEPT ![t] = Phase'[t]]
    BY <2>2
  <2>4. Phase[t] # Phase'[t]
    BY <2>3
  <2>5. Phase[t] \in {"waiting", "holding"} /\ Phase'[t] = "released"
    BY <2>1, <2>4 DEF NoGrant, Waiting, Holding
  <2>6. Grant!Release(t)
    BY <2>3, <2>5 DEF Grant!Release
  <2>7. QED BY <2>6 DEF Grant!Next
<1>5. QED BY <1>3, <1>4

\* Every behaviour of the queue is one of the abstract exclusive lock.
THEOREM ImplementsLock == Spec => LockSpec
<1>1. Init => LockInv
  BY TypedInit DEF Init, LockInv, LockExclusive, ClaimSafe, InStatus
<1>2. Init => Grant!Init
  BY DEF Init, Grant!Init, Phase
<1>3. QED BY <1>1, <1>2, LockStep, GrantStep, PTL DEF Spec, LockSpec, Grant!Spec

-----------------------------------------------------------------------------
(* Verdicts stand.                                                         *)

\* Outside of a serving process there are no goroutines of tasks or requests,
\* and recovery runs only there.
LifeOK ==
    /\ life \notin {"up", "stopping"} =>
          /\ \A t \in Tasks : run[t] = "idle"
          /\ \A c \in Cancellers : handler[c].pc = "idle"
    /\ dpc \in {"recover", "recoverStages"} => life = "recovering"

\* Whoever is about to write a row by its identifier alone finds no success or
\* failure recorded there: a task's goroutine finds its row running, or canceled
\* (and perhaps deleted) by a request that read it too early ...
RunRows == \A t \in Tasks : run[t] # "idle" => status[t] \in {"running", "canceled", "gone"}

\* ... the sweep finds its rows unknown ...
SweepRows ==
    /\ dpc \in {"sweep", "sweepFinish"} => batch \subseteq InStatus({"unknown"})
    /\ dpc = "sweepFinish" => status[cur] = "unknown" /\ cur \notin batch

\* ... because no request is about to write an unknown row.
HandlerRows == \A c \in Cancellers :
    handler[c].pc = "write" => status[handler[c].task] # "unknown"

VerdictInv == Typed /\ LifeOK /\ RunRows /\ SweepRows /\ HandlerRows

LEMMA VerdictInit == Init => VerdictInv
  BY TypedInit DEF Init, VerdictInv, LifeOK, RunRows, SweepRows, HandlerRows, Idle

LEMMA LifeStep == Typed /\ LifeOK /\ [Next]_vars => LifeOK'
<1> SUFFICES ASSUME Typed, LifeOK, [Next]_vars PROVE LifeOK'
  OBVIOUS
<1> USE DEF LifeOK, Typed, TypeOK, rows, loop
<1>1. CASE Process
  BY <1>1 DEF Process, Start, Recovered, RecoverStages, LoopExit, Stop, Vanish, Idle, RecoverOne
<1>2. CASE Crash BY <1>2 DEF Crash, Vanish, Idle
<1>3. CASE Shutdown BY <1>3 DEF Shutdown
<1>4. CASE Scheduler
  BY <1>4 DEF Scheduler, Tick, SweepFinish, SweepDone, CountRunning, SelectPending,
              DispatchDone, Visit, Claim, SweepStages, LoopRuns
<1>5. ASSUME NEW t \in Tasks, Runner(t) PROVE LifeOK'
  BY <1>5 DEF Runner, ExecStart, ExecReturn, CheckCancel, CloseStage, Finish, Alive
<1>6. ASSUME NEW t \in Tasks, Other(t) PROVE LifeOK'
  BY <1>6 DEF Other, ExecLost, StageBegin, NodeDone, Age, Enqueue, Cleanup, Alive
<1>7. ASSUME NEW c \in Cancellers, CancelWrite(c) PROVE LifeOK'
  BY <1>7 DEF CancelWrite, Alive
<1>8. ASSUME NEW c \in Cancellers, NEW t \in Tasks, CancelRead(c, t) PROVE LifeOK'
  BY <1>8 DEF CancelRead
<1>9. CASE UNCHANGED vars BY <1>9 DEF vars
<1>10. QED BY <1>1, <1>2, <1>3, <1>4, <1>5, <1>6, <1>7, <1>8, <1>9 DEF Next

\* The only steps that write the status column.
WritesRow(t) ==
    \/ RecoverOne(t) \/ Finish(t) \/ Enqueue(t) \/ Cleanup(t)
    \/ (Claim \/ SweepFinish) /\ t = cur
    \/ \E c \in Cancellers : CancelWrite(c) /\ t = handler[c].task

LEMMA StatusWriters ==
  ASSUME Typed, [Next]_vars
  PROVE  status' = status \/ \E t \in Tasks : WritesRow(t)
<1> USE DEF WritesRow, rows
<1>1. CASE Process
  BY <1>1 DEF Process, Start, Recovered, RecoverStages, LoopExit, Stop, Vanish
<1>2. CASE Crash \/ Shutdown BY <1>2 DEF Crash, Vanish, Shutdown
<1>3. CASE Scheduler
  <2>1. CASE Claim \/ SweepFinish
    <3>1. cur \in Tasks BY <2>1 DEF Claim, SweepFinish, Typed, LocalsOK
    <3>2. QED BY <2>1, <3>1
  <2>2. CASE ~(Claim \/ SweepFinish)
    BY <1>3, <2>2 DEF Scheduler, Tick, SweepDone, CountRunning, SelectPending,
                      DispatchDone, Visit, SweepStages
  <2>3. QED BY <2>1, <2>2
<1>4. ASSUME NEW t \in Tasks, Runner(t) PROVE status' = status \/ WritesRow(t)
  BY <1>4 DEF Runner, ExecStart, ExecReturn, CheckCancel, CloseStage
<1>5. ASSUME NEW t \in Tasks, Other(t) PROVE status' = status \/ WritesRow(t)
  BY <1>5 DEF Other, ExecLost, StageBegin, NodeDone, Age
<1>6. ASSUME NEW c \in Cancellers, CancelWrite(c) PROVE \E t \in Tasks : WritesRow(t)
  <2>1. handler[c].task \in Tasks BY <1>6 DEF CancelWrite, Typed, LocalsOK
  <2>2. QED BY <1>6, <2>1
<1>7. ASSUME NEW c \in Cancellers, NEW t \in Tasks, CancelRead(c, t) PROVE status' = status
  BY <1>7 DEF CancelRead
<1>8. CASE UNCHANGED vars BY <1>8 DEF vars
<1>9. QED BY <1>1, <1>2, <1>3, <1>4, <1>5, <1>6, <1>7, <1>8 DEF Next

\* What one write does to the row it writes, and to nothing else.
RowChange(t) ==
    /\ status' \in [Tasks -> Statuses]
    /\ \A u \in Tasks \ {t} : status'[u] = status[u]
    /\ \/ status'[t] = status[t]
       \/ status[t] = "running" /\ status'[t] = "unknown" /\ dpc = "recover"
       \/ status[t] \in {"running", "canceled"} /\ run[t] # "idle" /\ run'[t] = "idle"
              /\ status'[t] \in Terminal
       \/ status[t] = "absent" /\ status'[t] = "pending"
       \/ status[t] \in Terminal /\ status'[t] = "gone"
       \/ status[t] = "pending" /\ status'[t] = "running"
       \/ status[t] = "unknown" /\ status'[t] = "failed" /\ t = cur
              /\ dpc = "sweepFinish" /\ dpc' = "sweep"
       \/ status[t] # "unknown" /\ status'[t] = "canceled"

LEMMA RowWrites ==
  ASSUME VerdictInv, NEW t \in Tasks, WritesRow(t)
  PROVE  RowChange(t)
<1> USE DEF RowChange, VerdictInv, Typed, TypeOK, Statuses, Terminal, SetStatus
<1>1. CASE RecoverOne(t) BY <1>1 DEF RecoverOne, RecoveredStatus
<1>2. CASE Finish(t) BY <1>2 DEF Finish, LocalsOK, RunRows
<1>3. CASE Enqueue(t) BY <1>3 DEF Enqueue
<1>4. CASE Cleanup(t) BY <1>4 DEF Cleanup
<1>5. CASE Claim /\ t = cur BY <1>5 DEF Claim, Claimable
<1>6. CASE SweepFinish /\ t = cur BY <1>6 DEF SweepFinish, SweepRows
<1>7. ASSUME NEW c \in Cancellers, CancelWrite(c), t = handler[c].task PROVE RowChange(t)
  BY <1>7 DEF CancelWrite, HandlerRows
<1>8. QED BY <1>1, <1>2, <1>3, <1>4, <1>5, <1>6, <1>7 DEF WritesRow

LEMMA RowChanges ==
  ASSUME VerdictInv, [Next]_vars, NEW t \in Tasks, status'[t] # status[t]
  PROVE  RowChange(t)
<1>1. PICK u \in Tasks : WritesRow(u)
  BY StatusWriters DEF VerdictInv
<1>2. RowChange(u)
  BY <1>1, RowWrites
<1>3. t = u
  BY <1>2 DEF RowChange
<1>4. QED BY <1>2, <1>3

\* A goroutine appears only with the row it runs.
LEMMA NewRuns ==
  ASSUME Typed, [Next]_vars, NEW t \in Tasks, run'[t] # "idle"
  PROVE  run[t] # "idle" \/ status'[t] = "running"
<1> USE DEF Typed, TypeOK
<1>1. CASE Process
  BY <1>1 DEF Process, Start, Recovered, RecoverStages, LoopExit, Stop, Vanish, RecoverOne
<1>2. CASE Crash \/ Shutdown BY <1>2 DEF Crash, Shutdown, Vanish
<1>3. CASE Scheduler
  <2>1. CASE Claim BY <2>1 DEF Claim, LocalsOK
  <2>2. CASE ~Claim
    BY <1>3, <2>2 DEF Scheduler, Tick, SweepFinish, SweepDone, CountRunning, SelectPending,
                      DispatchDone, Visit, SweepStages
  <2>3. QED BY <2>1, <2>2
<1>4. ASSUME NEW u \in Tasks, Runner(u) PROVE run[t] # "idle"
  BY <1>4 DEF Runner, ExecStart, ExecReturn, CheckCancel, CloseStage, Finish
<1>5. ASSUME NEW u \in Tasks, Other(u) PROVE run[t] # "idle"
  BY <1>5 DEF Other, ExecLost, StageBegin, NodeDone, Age, Enqueue, Cleanup
<1>6. ASSUME NEW c \in Cancellers, CancelWrite(c) PROVE run[t] # "idle"
  BY <1>6 DEF CancelWrite
<1>7. ASSUME NEW c \in Cancellers, NEW u \in Tasks, CancelRead(c, u) PROVE run[t] # "idle"
  BY <1>7 DEF CancelRead
<1>8. CASE UNCHANGED vars BY <1>8 DEF vars
<1>9. QED BY <1>1, <1>2, <1>3, <1>4, <1>5, <1>6, <1>7, <1>8 DEF Next

LEMMA RunRowsStep == VerdictInv /\ [Next]_vars => RunRows'
<1> SUFFICES ASSUME VerdictInv, [Next]_vars, NEW t \in Tasks, run'[t] # "idle"
             PROVE  status'[t] \in {"running", "canceled", "gone"}
  BY DEF RunRows
<1>1. CASE status'[t] = "running"
  BY <1>1
<1>2. CASE run[t] # "idle"
  <2>1. status[t] \in {"running", "canceled", "gone"} /\ dpc # "recover"
    BY <1>2 DEF VerdictInv, RunRows, LifeOK
  <2>2. CASE status'[t] = status[t] BY <2>1, <2>2
  <2>3. CASE RowChange(t) BY <2>1, <2>3 DEF RowChange, Terminal
  <2>4. QED BY <2>2, <2>3, RowChanges
<1>3. QED BY <1>1, <1>2, NewRuns DEF VerdictInv

\* A request is about to write only what it read as pending or running.
LEMMA NewHandlers ==
  ASSUME Typed, [Next]_vars, NEW c \in Cancellers, handler'[c].pc = "write"
  PROVE  \/ handler'[c] = handler[c]
         \/ status' = status /\ status[handler'[c].task] \in {"pending", "running"}
<1> USE DEF Typed, TypeOK
<1>1. CASE Process
  BY <1>1 DEF Process, Start, Recovered, RecoverStages, LoopExit, Stop, Vanish, Idle, RecoverOne
<1>2. CASE Crash \/ Shutdown BY <1>2 DEF Crash, Shutdown, Vanish, Idle
<1>3. CASE Scheduler
  BY <1>3 DEF Scheduler, Tick, SweepFinish, SweepDone, CountRunning, SelectPending,
              DispatchDone, Visit, SweepStages, Claim
<1>4. ASSUME NEW u \in Tasks, Runner(u) PROVE handler'[c] = handler[c]
  BY <1>4 DEF Runner, ExecStart, ExecReturn, CheckCancel, CloseStage, Finish
<1>5. ASSUME NEW u \in Tasks, Other(u) PROVE handler'[c] = handler[c]
  BY <1>5 DEF Other, ExecLost, StageBegin, NodeDone, Age, Enqueue, Cleanup
<1>6. ASSUME NEW d \in Cancellers, CancelWrite(d) PROVE handler'[c] = handler[c]
  BY <1>6 DEF CancelWrite, Idle
<1>7. ASSUME NEW d \in Cancellers, NEW u \in Tasks, CancelRead(d, u)
      PROVE  \/ handler'[c] = handler[c]
             \/ status' = status /\ status[handler'[c].task] \in {"pending", "running"}
  BY <1>7 DEF CancelRead, rows
<1>8. CASE UNCHANGED vars BY <1>8 DEF vars
<1>9. QED BY <1>1, <1>2, <1>3, <1>4, <1>5, <1>6, <1>7, <1>8 DEF Next

LEMMA HandlerRowsStep == VerdictInv /\ [Next]_vars => HandlerRows'
<1> SUFFICES ASSUME VerdictInv, [Next]_vars, NEW c \in Cancellers, handler'[c].pc = "write"
             PROVE  status'[handler'[c].task] # "unknown"
  BY DEF HandlerRows
<1>1. CASE status' = status /\ status[handler'[c].task] \in {"pending", "running"}
  BY <1>1
<1>2. CASE handler'[c] = handler[c]
  <2>1. /\ handler[c].task \in Tasks
        /\ status[handler[c].task] # "unknown"
        /\ dpc # "recover"
    BY <1>2 DEF VerdictInv, Typed, LocalsOK, HandlerRows, LifeOK
  <2>2. PICK t \in Tasks : t = handler[c].task
    BY <2>1
  <2>3. CASE status'[t] = status[t] BY <1>2, <2>1, <2>2, <2>3
  <2>4. CASE RowChange(t) BY <1>2, <2>1, <2>2, <2>4 DEF RowChange, Terminal
  <2>5. QED BY <2>3, <2>4, RowChanges
<1>3. QED BY <1>1, <1>2, NewHandlers DEF VerdictInv

\* How the sweep moves through its rows.
LEMMA SweepMoves ==
  ASSUME Typed, [Next]_vars, dpc' \in {"sweep", "sweepFinish"}
  PROVE  \/ dpc' = dpc /\ batch' = batch /\ cur' = cur
         \/ dpc' = "sweep" /\ status' = status /\ batch' = Overdue
         \/ dpc = "sweepFinish" /\ dpc' = "sweep" /\ batch' = batch
         \/ /\ dpc = "sweep" /\ dpc' = "sweepFinish" /\ status' = status
            /\ cur' \in batch /\ batch' = batch \ {cur'}
<1> USE DEF rows, loop
<1>1. CASE Process
  BY <1>1 DEF Process, Start, Recovered, RecoverStages, LoopExit, Stop, Vanish, RecoverOne
<1>2. CASE Crash \/ Shutdown BY <1>2 DEF Crash, Shutdown, Vanish
<1>3. CASE Scheduler
  <2>1. CASE Tick BY <2>1 DEF Tick
  <2>2. CASE SweepFinish BY <2>2 DEF SweepFinish
  <2>3. ASSUME NEW t \in Tasks, SweepStages(t)
        PROVE  /\ dpc = "sweep" /\ dpc' = "sweepFinish" /\ status' = status
               /\ cur' \in batch /\ batch' = batch \ {cur'}
    BY <2>3 DEF SweepStages
  <2>4. CASE SweepDone \/ CountRunning \/ SelectPending \/ DispatchDone \/ Claim
    BY <2>4 DEF SweepDone, CountRunning, SelectPending, DispatchDone, Claim
  <2>5. ASSUME NEW t \in Tasks, Visit(t) PROVE FALSE
    BY <2>5 DEF Visit
  <2>6. QED BY <1>3, <2>1, <2>2, <2>3, <2>4, <2>5 DEF Scheduler
<1>4. ASSUME NEW u \in Tasks, Runner(u) \/ Other(u) PROVE loop' = loop
  BY <1>4 DEF Runner, ExecStart, ExecReturn, CheckCancel, CloseStage, Finish,
              Other, ExecLost, StageBegin, NodeDone, Age, Enqueue, Cleanup
<1>5. ASSUME NEW d \in Cancellers, CancelWrite(d) \/ \E u \in Tasks : CancelRead(d, u)
      PROVE  loop' = loop
  BY <1>5 DEF CancelWrite, CancelRead
<1>6. CASE UNCHANGED vars BY <1>6 DEF vars
<1>7. QED BY <1>1, <1>2, <1>3, <1>4, <1>5, <1>6 DEF Next

LEMMA SweepRowsStep == VerdictInv /\ [Next]_vars => SweepRows'
<1> SUFFICES ASSUME VerdictInv, [Next]_vars, dpc' \in {"sweep", "sweepFinish"}
             PROVE  SweepRows'
  BY DEF SweepRows
<1> USE DEF SweepRows, InStatus
<1>1. ASSUME NEW u \in Tasks, status[u] = "unknown"
      PROVE  status'[u] = "unknown" \/ (u = cur /\ dpc = "sweepFinish" /\ dpc' = "sweep")
  BY <1>1, RowChanges DEF RowChange, Terminal
<1>2. batch \subseteq Tasks /\ (dpc = "sweepFinish" => cur \in Tasks)
  BY DEF VerdictInv, Typed, TypeOK, LocalsOK
<1>3. CASE dpc' = dpc /\ batch' = batch /\ cur' = cur
  BY <1>1, <1>2, <1>3 DEF VerdictInv
<1>4. CASE dpc' = "sweep" /\ status' = status /\ batch' = Overdue
  BY <1>4 DEF Overdue
<1>5. CASE dpc = "sweepFinish" /\ dpc' = "sweep" /\ batch' = batch
  BY <1>1, <1>2, <1>5 DEF VerdictInv
<1>6. CASE /\ dpc = "sweep" /\ dpc' = "sweepFinish" /\ status' = status
           /\ cur' \in batch /\ batch' = batch \ {cur'}
  BY <1>2, <1>6 DEF VerdictInv
<1>7. QED BY <1>3, <1>4, <1>5, <1>6, SweepMoves DEF VerdictInv

LEMMA VerdictInvStep == VerdictInv /\ [Next]_vars => VerdictInv'
  BY TypedStep, LifeStep, RunRowsStep, HandlerRowsStep, SweepRowsStep DEF VerdictInv

\* A terminal row stays terminal (or is deleted), and a success is never
\* rewritten as a failure nor a failure as a success.
THEOREM VerdictsStand == Spec => VerdictStands
<1>1. VerdictInv /\ [Next]_vars => [\A t \in Tasks : VerdictStep(t)]_vars
  <2> SUFFICES ASSUME VerdictInv, [Next]_vars, NEW t \in Tasks, status[t] \in Terminal
               PROVE  /\ status'[t] \in Terminal \cup {"gone"}
                      /\ {status[t], status'[t]} # {"success", "failed"}
    BY DEF VerdictStep
  <2>1. CASE status'[t] = status[t] BY <2>1 DEF Terminal
  <2>2. CASE RowChange(t)
    <3>1. status'[t] = status[t] \/ status[t] = "canceled" \/ status'[t] \in {"canceled", "gone"}
      BY <2>2 DEF RowChange, Terminal
    <3>2. status'[t] \in Terminal \cup {"gone"}
      BY <2>2 DEF RowChange, Terminal
    <3>3. QED BY <3>1, <3>2
  <2>3. QED BY <2>1, <2>2, RowChanges
<1>2. QED BY <1>1, VerdictInit, VerdictInvStep, PTL DEF Spec, VerdictStands

\* A task keeps its resource for as long as its executor works, unless a request
\* that read the row too early marked it canceled meanwhile.
THEOREM ExecutorsExclusive == Spec => []ExclusiveUnlessCanceled
<1>1. Init => LockInv
  BY TypedInit DEF Init, LockInv, LockExclusive, ClaimSafe, InStatus
<1>2. LockInv /\ VerdictInv => ExclusiveUnlessCanceled
  BY DEF LockInv, VerdictInv, LockExclusive, RunRows, InStatus, ExclusiveUnlessCanceled
<1>3. QED BY <1>1, <1>2, LockStep, VerdictInit, VerdictInvStep, PTL DEF Spec
-----------------------------------------------------------------------------
(* Stages and operations on the nodes.                                     *)

\* Without database errors, only a graceful stop makes a statement fail.
Faultless == MaxFaults = 0 => faults = 0

\* Who records a success or a failure has closed the stages first, unless the
\* process is stopping, when it records nothing.
StagesInv ==
    /\ VerdictInv /\ Faultless
    /\ MaxFaults = 0 =>
          /\ SettledStagesClosed
          /\ \A t \in Tasks : run[t] = "finish" /\ life # "stopping" => t \notin openStage
          /\ dpc = "sweepFinish" => cur \notin openStage

\* What the steps that write stages, or precede a verdict, do.
LEMMA FaultlessStep == Typed /\ Faultless /\ [Next]_vars => Faultless'
<1> SUFFICES ASSUME Typed, Faultless, [Next]_vars, MaxFaults = 0 PROVE faults' = 0
  BY DEF Faultless
<1> USE TaskQueueAssumption DEF Faultless, DbFails, counts
<1>1. CASE Process
  BY <1>1 DEF Process, Start, Recovered, RecoverStages, LoopExit, Stop, Vanish, RecoverOne
<1>2. CASE Crash \/ Shutdown BY <1>2 DEF Crash, Shutdown, Vanish
<1>3. CASE Scheduler
  BY <1>3 DEF Scheduler, Tick, SweepFinish, SweepDone, CountRunning, SelectPending,
              DispatchDone, Visit, SweepStages, Claim
<1>4. ASSUME NEW t \in Tasks, Runner(t) PROVE faults' = 0
  BY <1>4 DEF Runner, ExecStart, ExecReturn, CheckCancel, CloseStage, Finish
<1>5. ASSUME NEW t \in Tasks, Other(t) PROVE faults' = 0
  BY <1>5 DEF Other, ExecLost, StageBegin, NodeDone, Age, Enqueue, Cleanup
<1>6. ASSUME NEW c \in Cancellers, CancelWrite(c) \/ \E t \in Tasks : CancelRead(c, t) PROVE faults' = 0
  BY <1>6 DEF CancelWrite, CancelRead
<1>7. CASE UNCHANGED vars BY <1>7 DEF vars
<1>8. QED BY <1>1, <1>2, <1>3, <1>4, <1>5, <1>6, <1>7 DEF Next

\* A stage opens only for a task whose goroutine executes.
LEMMA NewStages ==
  ASSUME Typed, [Next]_vars, NEW t \in Tasks, t \in openStage'
  PROVE  t \in openStage \/ (run[t] = "exec" /\ run' = run /\ status' = status /\ dpc' = dpc /\ cur' = cur)
<1> USE DEF rows, loop
<1>1. CASE Process
  BY <1>1 DEF Process, Start, Recovered, RecoverStages, LoopExit, Stop, Vanish, RecoverOne
<1>2. CASE Crash \/ Shutdown BY <1>2 DEF Crash, Shutdown, Vanish
<1>3. CASE Scheduler
  BY <1>3 DEF Scheduler, Tick, SweepFinish, SweepDone, CountRunning, SelectPending,
              DispatchDone, Visit, SweepStages, SweptStages, Claim
<1>4. ASSUME NEW u \in Tasks, Runner(u) PROVE t \in openStage
  BY <1>4 DEF Runner, ExecStart, ExecReturn, CheckCancel, CloseStage, Finish
<1>5. ASSUME NEW u \in Tasks, Other(u)
      PROVE  t \in openStage \/ (run[t] = "exec" /\ run' = run /\ status' = status /\ dpc' = dpc /\ cur' = cur)
  BY <1>5 DEF Other, ExecLost, StageBegin, NodeDone, Age, Enqueue, Cleanup
<1>6. ASSUME NEW c \in Cancellers, CancelWrite(c) \/ \E u \in Tasks : CancelRead(c, u) PROVE t \in openStage
  BY <1>6 DEF CancelWrite, CancelRead
<1>7. CASE UNCHANGED vars BY <1>7 DEF vars
<1>8. QED BY <1>1, <1>2, <1>3, <1>4, <1>5, <1>6, <1>7 DEF Next

\* A goroutine gets to finish through CloseStage, and a process that is stopping
\* does not come back with it.
LEMMA NewFinish ==
  ASSUME VerdictInv, [Next]_vars, NEW t \in Tasks, run'[t] = "finish", life' # "stopping"
  PROVE  (run[t] = "finish" /\ life # "stopping") \/ CloseStage(t)
<1> USE DEF VerdictInv, LifeOK, Typed, TypeOK
<1>1. CASE Process
  BY <1>1 DEF Process, Start, Recovered, RecoverStages, LoopExit, Stop, Vanish, RecoverOne
<1>2. CASE Crash \/ Shutdown BY <1>2 DEF Crash, Shutdown, Vanish
<1>3. CASE Scheduler
  BY <1>3 DEF Scheduler, Tick, SweepFinish, SweepDone, CountRunning, SelectPending,
              DispatchDone, Visit, SweepStages, Claim, LocalsOK
<1>4. ASSUME NEW u \in Tasks, Runner(u)
      PROVE  (run[t] = "finish" /\ life # "stopping") \/ CloseStage(t)
  <2>1. CASE CloseStage(u) /\ u = t BY <2>1
  <2>2. CASE CloseStage(u) /\ u # t BY <2>2 DEF CloseStage
  <2>3. CASE ~CloseStage(u) BY <1>4, <2>3 DEF Runner, ExecStart, ExecReturn, CheckCancel, Finish
  <2>4. QED BY <2>1, <2>2, <2>3
<1>5. ASSUME NEW u \in Tasks, Other(u) PROVE run[t] = "finish" /\ life # "stopping"
  BY <1>5 DEF Other, ExecLost, StageBegin, NodeDone, Age, Enqueue, Cleanup
<1>6. ASSUME NEW c \in Cancellers, CancelWrite(c) \/ \E u \in Tasks : CancelRead(c, u)
      PROVE  run[t] = "finish" /\ life # "stopping"
  BY <1>6 DEF CancelWrite, CancelRead
<1>7. CASE UNCHANGED vars BY <1>7 DEF vars
<1>8. QED BY <1>1, <1>2, <1>3, <1>4, <1>5, <1>6, <1>7 DEF Next

\* Only finish and the sweep record a success or a failure.
LEMMA NewVerdicts ==
  ASSUME VerdictInv, [Next]_vars, NEW t \in Tasks, status'[t] \in {"success", "failed"}
  PROVE  \/ status[t] = status'[t]
         \/ Finish(t) /\ DbWorks
         \/ SweepFinish /\ t = cur
<1> SUFFICES ASSUME status'[t] # status[t] PROVE (Finish(t) /\ DbWorks) \/ (SweepFinish /\ t = cur)
  OBVIOUS
<1> USE DEF VerdictInv, Typed, TypeOK
<1>1. PICK u \in Tasks : WritesRow(u) BY StatusWriters
<1>2. u = t BY <1>1, RowWrites DEF RowChange
<1>3. CASE RecoverOne(t) BY <1>3 DEF RecoverOne, RecoveredStatus
<1>4. CASE Enqueue(t) BY <1>4 DEF Enqueue
<1>5. CASE Cleanup(t) BY <1>5 DEF Cleanup
<1>6. CASE Claim BY <1>6 DEF Claim, LocalsOK
<1>7. ASSUME NEW c \in Cancellers, CancelWrite(c) PROVE FALSE BY <1>7 DEF CancelWrite, SetStatus, LocalsOK
<1>8. CASE Finish(t) BY <1>8 DEF Finish
<1>9. QED BY <1>1, <1>2, <1>3, <1>4, <1>5, <1>6, <1>7, <1>8 DEF WritesRow

\* The sweep takes its next row in SweepStages.
LEMMA SweepSteps ==
  ASSUME Typed, [Next]_vars, dpc' = "sweepFinish"
  PROVE  (dpc = "sweepFinish" /\ cur' = cur) \/ \E t \in Tasks : SweepStages(t)
<1> USE DEF loop
<1>1. CASE Process
  BY <1>1 DEF Process, Start, Recovered, RecoverStages, LoopExit, Stop, Vanish, RecoverOne
<1>2. CASE Crash \/ Shutdown BY <1>2 DEF Crash, Shutdown, Vanish
<1>3. CASE Scheduler
  BY <1>3 DEF Scheduler, Tick, SweepFinish, SweepDone, CountRunning, SelectPending,
              DispatchDone, Visit, Claim
<1>4. ASSUME NEW u \in Tasks, Runner(u) \/ Other(u) PROVE loop' = loop
  BY <1>4 DEF Runner, ExecStart, ExecReturn, CheckCancel, CloseStage, Finish,
              Other, ExecLost, StageBegin, NodeDone, Age, Enqueue, Cleanup
<1>5. ASSUME NEW d \in Cancellers, CancelWrite(d) \/ \E u \in Tasks : CancelRead(d, u)
      PROVE  loop' = loop
  BY <1>5 DEF CancelWrite, CancelRead
<1>6. CASE UNCHANGED vars BY <1>6 DEF vars
<1>7. QED BY <1>1, <1>2, <1>3, <1>4, <1>5, <1>6 DEF Next

LEMMA StagesStep == StagesInv /\ [Next]_vars => StagesInv'
<1> SUFFICES ASSUME StagesInv, [Next]_vars, MaxFaults = 0
             PROVE  /\ SettledStagesClosed'
                    /\ \A t \in Tasks : run'[t] = "finish" /\ life' # "stopping" => t \notin openStage'
                    /\ dpc' = "sweepFinish" => cur' \notin openStage'
  BY FaultlessStep, VerdictInvStep DEF StagesInv, VerdictInv
<1>1. VerdictInv /\ Typed /\ ~(DbFails /\ life # "stopping")
  BY TaskQueueAssumption DEF StagesInv, VerdictInv, Faultless, DbFails
<1>2. ASSUME NEW t \in Tasks, status'[t] \in {"success", "failed"}, t \in openStage' PROVE FALSE
  <2>1. CASE t \notin openStage
    <3>1. run[t] = "exec" /\ status'[t] = status[t] BY <1>1, <1>2, <2>1, NewStages
    <3>2. QED BY <1>1, <1>2, <3>1 DEF VerdictInv, RunRows
  <2>2. CASE t \in openStage
    <3>1. status[t] \notin {"success", "failed"} BY <2>2 DEF StagesInv, SettledStagesClosed, InStatus
    <3>2. CASE Finish(t) /\ DbWorks BY <2>2, <3>2 DEF Finish, StagesInv, DbWorks
    <3>3. CASE SweepFinish /\ t = cur BY <2>2, <3>3 DEF SweepFinish, StagesInv
    <3>4. QED BY <1>1, <1>2, <3>1, <3>2, <3>3, NewVerdicts
  <2>3. QED BY <2>1, <2>2
<1>3. ASSUME NEW t \in Tasks, run'[t] = "finish", life' # "stopping", t \in openStage' PROVE FALSE
  <2>1. CASE t \notin openStage BY <1>1, <1>3, <2>1, NewStages
  <2>2. CASE t \in openStage
    <3>1. CloseStage(t) BY <1>1, <1>3, <2>2, NewFinish DEF StagesInv
    <3>2. life # "stopping" BY <1>3, <3>1 DEF CloseStage
    <3>3. QED BY <1>1, <1>3, <3>1, <3>2 DEF CloseStage
  <2>3. QED BY <2>1, <2>2
<1>4. ASSUME dpc' = "sweepFinish", cur' \in openStage' PROVE FALSE
  <2>1. cur' \in Tasks BY <1>1, <1>4, TypedStep DEF Typed, LocalsOK
  <2>2. CASE cur' \notin openStage
    <3>1. run[cur'] = "exec" /\ dpc' = dpc /\ cur' = cur BY <1>1, <1>4, <2>1, <2>2, NewStages
    <3>2. QED BY <1>1, <1>4, <2>1, <3>1 DEF VerdictInv, RunRows, SweepRows
  <2>3. CASE cur' \in openStage
    <3>1. CASE dpc = "sweepFinish" /\ cur' = cur BY <2>3, <3>1 DEF StagesInv
    <3>2. ASSUME NEW t \in Tasks, SweepStages(t) PROVE FALSE
      <4>1. life # "stopping" BY <3>2 DEF SweepStages, LoopRuns
      <4>2. QED BY <1>1, <1>4, <3>2, <4>1 DEF SweepStages, SweptStages
    <3>3. QED BY <1>1, <1>4, <3>1, <3>2, SweepSteps
  <2>4. QED BY <2>2, <2>3
<1>5. QED BY <1>2, <1>3, <1>4 DEF SettledStagesClosed, InStatus

\* A settled task has no stage left running, across crashes and graceful stops,
\* as long as no database call fails of itself (failOpenStages, closeOpen).
THEOREM StagesClosed == ASSUME MaxFaults = 0 PROVE Spec => []SettledStagesClosed
<1>1. Init => StagesInv
  BY VerdictInit DEF Init, StagesInv, Faultless, SettledStagesClosed, InStatus
<1>2. StagesInv => SettledStagesClosed
  BY DEF StagesInv
<1>3. QED BY <1>1, <1>2, StagesStep, PTL DEF Spec

\* As long as no answer is lost, a task whose operation the node carries out
\* keeps its lock, or was canceled, or the sweep took the lock from it after the
\* grace; unless the process stops, its goroutine waits for the operation.
Occupied == \A t \in node :
    /\ status[t] \in {"running", "unknown", "canceled", "gone"} \/ OutlivesGrace(t)
    /\ life # "stopping" => run[t] \notin {"check", "close", "finish"}

\* The sweep looks at overdue rows only.
SweepsOverdue ==
    /\ dpc \in {"sweep", "sweepFinish"} => batch \subseteq aged
    /\ dpc = "sweepFinish" => cur \in aged

NodeInv == VerdictInv /\ LockInv /\ SweepsOverdue /\ (losses = 0 => Occupied)

\* Answers are lost for good.
LEMMA LossesGrow ==
  ASSUME Typed, [Next]_vars, losses' = 0
  PROVE  losses = 0 /\ \A t \in Tasks : ExecLost(t) => life = "stopping"
<1> USE DEF Typed, TypeOK, counts
<1>1. CASE Process
  BY <1>1 DEF Process, Start, Recovered, RecoverStages, LoopExit, Stop, Vanish, RecoverOne, ExecLost, Alive
<1>2. CASE Crash \/ Shutdown BY <1>2 DEF Crash, Shutdown, Vanish, ExecLost, Alive
<1>3. CASE Scheduler
  BY <1>3 DEF Scheduler, Tick, SweepFinish, SweepDone, CountRunning, SelectPending,
              DispatchDone, Visit, SweepStages, Claim, ExecLost
<1>4. ASSUME NEW t \in Tasks, Runner(t) PROVE losses' = losses
  BY <1>4 DEF Runner, ExecStart, ExecReturn, CheckCancel, CloseStage, Finish
<1>5. ASSUME NEW t \in Tasks, Other(t) PROVE losses' = losses \/ losses' = losses + 1
  BY <1>5 DEF Other, ExecLost, StageBegin, NodeDone, Age, Enqueue, Cleanup
<1>6. ASSUME NEW c \in Cancellers, CancelWrite(c) \/ \E t \in Tasks : CancelRead(c, t) PROVE losses' = losses
  BY <1>6 DEF CancelWrite, CancelRead
<1>7. CASE UNCHANGED vars BY <1>7 DEF vars, ExecLost
<1>8. losses = 0 BY <1>1, <1>2, <1>3, <1>4, <1>5, <1>6, <1>7 DEF Next
<1>9. ASSUME NEW t \in Tasks, ExecLost(t), life # "stopping" PROVE FALSE
  BY <1>8, <1>9 DEF ExecLost
<1>10. QED BY <1>8, <1>9
\* A task that the node starts on is running for its goroutine.
LEMMA NewOnNode ==
  ASSUME Typed, [Next]_vars, NEW t \in Tasks, t \in node'
  PROVE  t \in node \/ (ExecStart(t) /\ run'[t] = "exec" /\ status' = status /\ dpc' = dpc /\ cur' = cur /\ batch' = batch)
<1> USE DEF rows, loop, Typed, TypeOK
<1>1. CASE Process
  BY <1>1 DEF Process, Start, Recovered, RecoverStages, LoopExit, Stop, Vanish, RecoverOne
<1>2. CASE Crash \/ Shutdown BY <1>2 DEF Crash, Shutdown, Vanish
<1>3. CASE Scheduler
  BY <1>3 DEF Scheduler, Tick, SweepFinish, SweepDone, CountRunning, SelectPending,
              DispatchDone, Visit, SweepStages, Claim
<1>4. ASSUME NEW u \in Tasks, Runner(u)
      PROVE  t \in node \/ (ExecStart(t) /\ run'[t] = "exec" /\ status' = status /\ dpc' = dpc /\ cur' = cur /\ batch' = batch)
  <2>1. CASE ExecStart(u) /\ u = t BY <2>1 DEF ExecStart
  <2>2. CASE ExecStart(u) /\ u # t BY <2>2 DEF ExecStart
  <2>3. CASE ~ExecStart(u) BY <1>4, <2>3 DEF Runner, ExecReturn, CheckCancel, CloseStage, Finish
  <2>4. QED BY <2>1, <2>2, <2>3
<1>5. ASSUME NEW u \in Tasks, Other(u) PROVE t \in node
  BY <1>5 DEF Other, ExecLost, StageBegin, NodeDone, Age, Enqueue, Cleanup
<1>6. ASSUME NEW c \in Cancellers, CancelWrite(c) \/ \E u \in Tasks : CancelRead(c, u) PROVE t \in node
  BY <1>6 DEF CancelWrite, CancelRead
<1>7. CASE UNCHANGED vars BY <1>7 DEF vars
<1>8. QED BY <1>1, <1>2, <1>3, <1>4, <1>5, <1>6, <1>7 DEF Next

\* A goroutine leaves exec when the node is done, or loses the answer.
LEMMA NewAnswer ==
  ASSUME VerdictInv, [Next]_vars, NEW t \in Tasks, run'[t] \in {"check", "close", "finish"}, life' # "stopping"
  PROVE  (run[t] \in {"check", "close", "finish"} /\ life # "stopping") \/ (t \notin node /\ node' = node) \/ ExecLost(t)
<1> USE DEF VerdictInv, LifeOK, Typed, TypeOK
<1>1. CASE Process
  BY <1>1 DEF Process, Start, Recovered, RecoverStages, LoopExit, Stop, Vanish, RecoverOne
<1>2. CASE Crash \/ Shutdown BY <1>2 DEF Crash, Shutdown, Vanish
<1>3. CASE Scheduler
  BY <1>3 DEF Scheduler, Tick, SweepFinish, SweepDone, CountRunning, SelectPending,
              DispatchDone, Visit, SweepStages, Claim, LocalsOK
<1>4. ASSUME NEW u \in Tasks, Runner(u)
      PROVE  (run[t] \in {"check", "close", "finish"} /\ life # "stopping") \/ (t \notin node /\ node' = node)
  <2>1. CASE u # t BY <1>4, <2>1 DEF Runner, ExecStart, ExecReturn, CheckCancel, CloseStage, Finish
  <2>2. CASE u = t BY <1>4, <2>2 DEF Runner, ExecStart, ExecReturn, CheckCancel, CloseStage, Finish
  <2>3. QED BY <2>1, <2>2
<1>5. ASSUME NEW u \in Tasks, Other(u), ~(ExecLost(u) /\ u = t)
      PROVE  run[t] \in {"check", "close", "finish"} /\ life # "stopping"
  BY <1>5 DEF Other, ExecLost, StageBegin, NodeDone, Age, Enqueue, Cleanup
<1>6. ASSUME NEW c \in Cancellers, CancelWrite(c) \/ \E u \in Tasks : CancelRead(c, u)
      PROVE  run[t] \in {"check", "close", "finish"} /\ life # "stopping"
  BY <1>6 DEF CancelWrite, CancelRead
<1>7. CASE UNCHANGED vars BY <1>7 DEF vars
<1>8. QED BY <1>1, <1>2, <1>3, <1>4, <1>5, <1>6, <1>7 DEF Next

\* Only recovery makes a row young again, and only one it reads as running.
LEMMA AgedStays ==
  ASSUME Typed, [Next]_vars, NEW t \in aged, status[t] # "running"
  PROVE  t \in aged'
<1> USE DEF Typed, TypeOK
<1>1. CASE Process
  BY <1>1 DEF Process, Start, Recovered, RecoverStages, LoopExit, Stop, Vanish, RecoverOne
<1>2. CASE Crash \/ Shutdown BY <1>2 DEF Crash, Shutdown, Vanish
<1>3. CASE Scheduler
  BY <1>3 DEF Scheduler, Tick, SweepFinish, SweepDone, CountRunning, SelectPending,
              DispatchDone, Visit, SweepStages, Claim
<1>4. ASSUME NEW u \in Tasks, Runner(u) PROVE t \in aged'
  BY <1>4 DEF Runner, ExecStart, ExecReturn, CheckCancel, CloseStage, Finish
<1>5. ASSUME NEW u \in Tasks, Other(u) PROVE t \in aged'
  BY <1>5 DEF Other, ExecLost, StageBegin, NodeDone, Age, Enqueue, Cleanup
<1>6. ASSUME NEW c \in Cancellers, CancelWrite(c) \/ \E u \in Tasks : CancelRead(c, u) PROVE t \in aged'
  BY <1>6 DEF CancelWrite, CancelRead
<1>7. CASE UNCHANGED vars BY <1>7 DEF vars
<1>8. QED BY <1>1, <1>2, <1>3, <1>4, <1>5, <1>6, <1>7 DEF Next

LEMMA SweepsOverdueStep == VerdictInv /\ SweepsOverdue /\ [Next]_vars => SweepsOverdue'
<1> SUFFICES ASSUME VerdictInv, SweepsOverdue, [Next]_vars, dpc' \in {"sweep", "sweepFinish"}
             PROVE  SweepsOverdue'
  BY DEF SweepsOverdue
<1> USE DEF SweepsOverdue, VerdictInv, Typed
<1>1. ASSUME NEW t \in aged, status[t] = "unknown" PROVE t \in aged'
  BY <1>1, AgedStays
<1>2. dpc \in {"sweep", "sweepFinish"} => \A t \in batch : t \in aged'
  BY <1>1 DEF SweepRows, InStatus
<1>3. dpc = "sweepFinish" => cur \in aged'
  BY <1>1 DEF SweepRows, InStatus
<1>4. ASSUME dpc' = "sweep", status' = status, batch' = Overdue PROVE batch' \subseteq aged'
  BY <1>1, <1>4 DEF Overdue, InStatus
<1>5. QED BY <1>2, <1>3, <1>4, SweepMoves

LEMMA NodeStep == ASSUME NodeInv, [Next]_vars PROVE NodeInv'
<1> SUFFICES ASSUME losses' = 0, NEW t \in Tasks, t \in node'
             PROVE  /\ \/ status'[t] \in {"running", "unknown", "canceled", "gone"}
                       \/ OutlivesGrace(t)'
                    /\ life' # "stopping" => run'[t] \notin {"check", "close", "finish"}
  <2>1. node' \subseteq Tasks BY TypedStep DEF NodeInv, VerdictInv, Typed, TypeOK
  <2>2. QED BY <2>1, LockStep, VerdictInvStep, SweepsOverdueStep DEF NodeInv, Occupied
<1>1. /\ VerdictInv /\ Typed /\ losses = 0 /\ Occupied /\ SweepsOverdue
      /\ \A u \in Tasks : ExecLost(u) => life = "stopping"
  BY LossesGrow DEF NodeInv, VerdictInv
<1>2. CASE t \notin node
  <2>1. ExecStart(t) /\ run'[t] = "exec" /\ status' = status BY <1>1, <1>2, NewOnNode
  <2>2. status[t] \in {"running", "canceled", "gone"}
    BY <1>1, <2>1 DEF ExecStart, VerdictInv, RunRows
  <2>3. QED BY <2>1, <2>2
<1>3. CASE t \in node
  <2>1. life' # "stopping" => run'[t] \notin {"check", "close", "finish"}
    BY <1>1, <1>3, NewAnswer DEF Occupied, ExecLost
  <2>2. CASE status'[t] = status[t]
    <3>1. OutlivesGrace(t) => OutlivesGrace(t)'
      BY <1>1, <2>2, AgedStays DEF OutlivesGrace
    <3>2. QED BY <1>1, <1>3, <2>1, <2>2, <3>1 DEF Occupied
  <2>3. CASE status'[t] # status[t] /\ status'[t] \in {"success", "failed"}
    <3>1. CASE Finish(t) /\ DbWorks BY <1>1, <1>3, <3>1 DEF Finish, DbWorks, Occupied
    <3>2. CASE SweepFinish /\ t = cur
      <4>1. dpc = "sweepFinish" /\ t \in aged /\ aged' = aged
        BY <1>1, <3>2 DEF SweepFinish, SweepsOverdue
      <4>2. status'[t] = "failed"
        BY <2>3, <3>2, <1>1 DEF SweepFinish, SetStatus, Typed, TypeOK
      <4>3. QED BY <2>1, <4>1, <4>2 DEF OutlivesGrace
    <3>3. QED BY <1>1, <2>3, <3>1, <3>2, NewVerdicts
  <2>4. CASE status'[t] # status[t] /\ status'[t] \notin {"success", "failed"}
    <3>1. RowChange(t) BY <1>1, <2>4, RowChanges
    <3>2. status'[t] \in {"running", "unknown", "canceled", "gone"}
      BY <1>1, <1>3, <2>4, <3>1 DEF RowChange, Occupied, OutlivesGrace, Terminal
    <3>3. QED BY <2>1, <3>2
  <2>5. QED BY <2>2, <2>3, <2>4
<1>4. QED BY <1>2, <1>3

\* As long as no answer is lost and nobody cancels, a node never carries out two
\* operations on one resource, unless the first one outlives unknownGrace.
THEOREM NodesExclusive == Spec => []NodeExclusive
<1>1. Init => NodeInv
  BY VerdictInit DEF Init, NodeInv, VerdictInv, LockInv, LockExclusive, ClaimSafe, InStatus, Occupied, SweepsOverdue
<1>2. NodeInv => NodeExclusive
  BY DEF NodeInv, LockInv, LockExclusive, Typed, TypeOK, Occupied, InStatus, NodeExclusive
<1>3. NodeInv /\ [Next]_vars => NodeInv' BY NodeStep
<1>4. QED BY <1>1, <1>2, <1>3, PTL DEF Spec
=============================================================================
