---------------------------- MODULE VMLifecycle ----------------------------
(***************************************************************************)
(* The life of the virtual machines of one name on one node                *)
(* (service/compute/vm): the requests that create, start, stop, lock,      *)
(* delete, restore, purge and adopt them, the executors of their tasks,    *)
(* what nodeagent does to the domain and its disk, and the collector that  *)
(* writes what the node has into the row. A request makes one step for     *)
(* each round trip it makes to the database or to the node.                *)
(*                                                                         *)
(* The task queue is what module TaskQueue promises: the tasks of one      *)
(* resource run one at a time in the order of their rows.                  *)
(***************************************************************************)
EXTENDS Naturals, Sequences, SequencesExt

CONSTANTS
    Requests,  \* handlers at work
    Kinds,     \* the requests they get
    MaxCalls,  \* requests (bound)
    MaxLost    \* answers of the node that are lost (bound)

ASSUME LifecycleAssumption == MaxCalls \in Nat /\ MaxLost \in Nat

VARIABLES
    row,      \* model.VM of the name, or NoRow: one at a time (unique index)
    domain,   \* what libvirt has under the name: who made it, is it running
    disk,     \* who made the disk file, or Nobody
    tasks,    \* tasks in flight, in the order of their rows
    ops,      \* operations the node has got and not done
    req,      \* each request: where it is, and what it read
    scan,     \* the collector: what it saw, or NotSeen
    calls,    \* requests so far: the number of a request is that of its machine and task
    lost,     \* lost answers so far
    overlap,  \* two requests to bring the machine into being overlapped (history)
    stray     \* the node did something to the name for a machine whose row was gone (history)

vars == <<row, domain, disk, tasks, ops, req, scan, calls, lost, overlap, stray>>

Nobody == 0
NoRow == [id |-> Nobody]
NoDomain == [of |-> Nobody, on |-> FALSE]
NotSeen == [of |-> Nobody, on |-> TRUE]
Idle == [pc |-> "idle"]

MachineKinds == {"create", "clone"}
PowerKinds == {"start", "poweroff"}
DeleteKinds == {"delete", "keep", "force"}

Exists == row # NoRow
StatusOf(d) == IF d = NoDomain THEN "unknown" ELSE IF d.on THEN "running" ELSE "stopped"

Init ==
    /\ row = NoRow /\ domain = NoDomain /\ disk = Nobody
    /\ tasks = <<>> /\ ops = {} /\ req = [r \in Requests |-> Idle] /\ scan = NotSeen
    /\ calls = 0 /\ lost = 0 /\ overlap = FALSE /\ stray = FALSE

-----------------------------------------------------------------------------
(* Requests.                                                               *)

\* The round trips of each request after it loaded the row: CreateBatch, Power,
\* Delete, ForceDelete, Purge, Restore, AdoptDomain, SetLock. (Mutant: Delete asks
\* the node before it asks for tasks.)
CreateSteps == <<"name", "enqueue">>
PowerSteps == <<"probe", "enqueue">>
DeleteSteps_ProbeFirst == <<"lock", "probe", "active", "mark", "enqueue">>
DeleteSteps == <<"lock", "active", "probe", "mark", "enqueue">>
ForceDeleteSteps == <<"lock", "active", "mark", "enqueue">>
PurgeSteps == <<"active", "enqueue">>
RestoreSteps == <<"restore">>
AdoptSteps == <<"scan", "insert">>
SetLockSteps == <<"setlock">>

\* Scheduler.enqueue: a schedule that is due starts a machine, or deletes it and
\* keeps its disk. It looks at nothing but the row.
ScheduleSteps == <<"enqueue">>
Schedulable == {"start", "keep"}

Steps(k) ==
    CASE k \in MachineKinds -> CreateSteps
      [] k \in PowerKinds -> PowerSteps
      [] k \in {"delete", "keep"} -> DeleteSteps
      [] k = "force" -> ForceDeleteSteps
      [] k = "purge" -> PurgeSteps
      [] k = "restore" -> RestoreSteps
      [] k = "adopt" -> AdoptSteps
      [] OTHER -> SetLockSteps
Ways(k) == {Steps(k)} \cup (IF k \in Schedulable THEN {ScheduleSteps} ELSE {})

BirthKinds == MachineKinds \cup {"adopt"}
\* load takes the row whatever its present is; the recycle bin only takes rows
\* that are not present.
Load(k) == k \in BirthKinds \/ (Exists /\ (k \in {"purge", "restore"} => ~row.present))

Arrive(r) ==
    /\ req[r] = Idle /\ calls < MaxCalls /\ calls' = calls + 1
    /\ \E k \in Kinds : \E w \in Ways(k) :
        /\ Load(k)
        /\ req' = [req EXCEPT ![r] =
            [pc |-> Head(w), todo |-> Tail(w), kind |-> k, no |-> calls + 1,
             vm |-> IF k \in BirthKinds THEN calls + 1 ELSE row.id, found |-> NoDomain,
             unchecked |-> w = ScheduleSteps, cleared |-> FALSE,
             locked |-> k \notin BirthKinds /\ row.locked]]
    /\ UNCHANGED <<row, domain, disk, tasks, ops, scan, lost, overlap, stray>>

At(r, s) == req[r].pc = s
Advanced(q) == IF q.todo = <<>> THEN Idle ELSE [q EXCEPT !.pc = Head(q.todo), !.todo = Tail(q.todo)]
Refuse(r) == req' = [req EXCEPT ![r] = Idle]
OnwardIf(r, ok) == req' = [req EXCEPT ![r] = IF ok THEN Advanced(req[r]) ELSE Idle]

IsOfMachine(t, vm) == t.kind \notin MachineKinds /\ t.vm = vm

\* Bringing a machine of this name into being is under way, but for request r.
BirthUnderWay(r) ==
    \/ \E o \in Requests \ {r} : req[o] # Idle /\ req[o].kind \in BirthKinds
                                 /\ req[o].pc \in {"enqueue", "insert"}
    \/ \E i \in DOMAIN tasks : tasks[i].kind \in MachineKinds
    \/ \E o \in ops : o.kind \in MachineKinds

\* ensureNameAvailable counts every row, those in the recycle bin too. (Mutant:
\* only those that are present.)
NameTaken_Present == Exists /\ row.present
NameTaken == Exists
CheckName(r) ==
    /\ At(r, "name") /\ OnwardIf(r, ~NameTaken)
    /\ overlap' = (overlap \/ (~NameTaken /\ BirthUnderWay(r)))
    /\ UNCHANGED <<row, domain, disk, tasks, ops, scan, calls, lost, stray>>

\* ensureNotLocked.
CheckLock(r) ==
    /\ At(r, "lock") /\ OnwardIf(r, ~(Exists /\ row.id = req[r].vm /\ row.locked))
    /\ UNCHANGED <<row, domain, disk, tasks, ops, scan, calls, lost, overlap, stray>>

\* hasActiveTask.
CheckActive(r) ==
    /\ At(r, "active")
    /\ IF \E i \in DOMAIN tasks : IsOfMachine(tasks[i], req[r].vm)
       THEN Refuse(r)
       ELSE req' = [req EXCEPT ![r] = [Advanced(req[r]) EXCEPT !.cleared = TRUE]]
    /\ UNCHANGED <<row, domain, disk, tasks, ops, scan, calls, lost, overlap, stray>>

\* probeStatus, and what the request makes of the answer.
Allowed(k) ==
    CASE k = "start" -> ~domain.on
      [] k = "poweroff" -> domain.on
      [] OTHER -> ~domain.on
Probe(r) ==
    /\ At(r, "probe") /\ OnwardIf(r, domain # NoDomain /\ Allowed(req[r].kind))
    /\ UNCHANGED <<row, domain, disk, tasks, ops, scan, calls, lost, overlap, stray>>

\* Delete and ForceDelete write deleted_at before they enqueue.
Mark(r) ==
    /\ At(r, "mark") /\ OnwardIf(r, TRUE)
    /\ row' = IF Exists /\ row.id = req[r].vm THEN [row EXCEPT !.trashed = TRUE] ELSE row
    /\ UNCHANGED <<domain, disk, tasks, ops, scan, calls, lost, overlap, stray>>

TaskOf(q) == [no |-> q.no, kind |-> q.kind, vm |-> q.vm, st |-> "pending", unchecked |-> q.unchecked]

\* Queue.Enqueue. A purge has an idempotency key, and a second one gets the task
\* of the first. (The history: a start accepted behind a delete's check; nothing
\* checks what a schedule asks for.)
Enqueue(r) ==
    /\ At(r, "enqueue")
    /\ LET q == req[r]
           known == q.kind = "purge" /\ \E i \in DOMAIN tasks : tasks[i].kind = "purge" /\ tasks[i].vm = q.vm
       IN /\ tasks' = IF known THEN tasks ELSE Append(tasks, TaskOf(q))
          /\ req' = [o \in Requests |->
                IF o = r THEN Idle
                ELSE IF q.kind = "start" /\ req[o] # Idle /\ req[o].cleared
                     THEN [req[o] EXCEPT !.unchecked = TRUE] ELSE req[o]]
    /\ UNCHANGED <<row, domain, disk, ops, scan, calls, lost, overlap, stray>>

\* Restore's update, by the row's id.
Restore(r) ==
    /\ At(r, "restore") /\ Refuse(r)
    /\ row' = IF Exists /\ row.id = req[r].vm THEN [row EXCEPT !.present = TRUE, !.trashed = FALSE] ELSE row
    /\ UNCHANGED <<domain, disk, tasks, ops, scan, calls, lost, overlap, stray>>

\* SetLock.
SetLock(r) ==
    /\ At(r, "setlock") /\ Refuse(r)
    /\ row' = IF Exists /\ row.id = req[r].vm THEN [row EXCEPT !.locked = req[r].kind = "lock"] ELSE row
    /\ UNCHANGED <<domain, disk, tasks, ops, scan, calls, lost, overlap, stray>>

\* AdoptDomain: the node is asked for its domains, and the row is made of its
\* answer. It is the unique index that refuses a name which has a row.
AdoptScan(r) ==
    /\ At(r, "scan")
    /\ LET ok == domain # NoDomain
       IN /\ req' = [req EXCEPT ![r] = IF ok THEN [Advanced(req[r]) EXCEPT !.found = domain] ELSE Idle]
          /\ overlap' = (overlap \/ (ok /\ BirthUnderWay(r)))
    /\ UNCHANGED <<row, domain, disk, tasks, ops, scan, calls, lost, stray>>

NewRow(id, of, status) ==
    [id |-> id, of |-> of, present |-> TRUE, trashed |-> FALSE, locked |-> FALSE, status |-> status]
\* Create of a row: the unique index refuses a second one.
InsertRow(id, of, status) == row' = IF Exists THEN row ELSE NewRow(id, of, status)

AdoptInsert(r) ==
    /\ At(r, "insert") /\ Refuse(r)
    /\ InsertRow(req[r].vm, req[r].found.of, StatusOf(req[r].found))
    /\ UNCHANGED <<domain, disk, tasks, ops, scan, calls, lost, overlap, stray>>

Request(r) ==
    \/ CheckName(r) \/ CheckLock(r) \/ CheckActive(r) \/ Probe(r) \/ Mark(r) \/ Enqueue(r)
    \/ Restore(r) \/ SetLock(r) \/ AdoptScan(r) \/ AdoptInsert(r)

-----------------------------------------------------------------------------
(* Tasks and the node.                                                     *)

SameResource(t, u) ==
    \/ t.kind \in MachineKinds /\ u.kind \in MachineKinds
    \/ t.kind \notin MachineKinds /\ IsOfMachine(u, t.vm)

\* The queue runs the oldest task of a resource; its executor dispatches.
Dispatch(i) ==
    /\ tasks[i].st = "pending" /\ \A j \in 1 .. i - 1 : ~SameResource(tasks[i], tasks[j])
    /\ tasks' = [tasks EXCEPT ![i].st = "running"] /\ ops' = ops \cup {tasks[i]}
    /\ UNCHANGED <<row, domain, disk, req, scan, calls, lost, overlap, stray>>

\* vmCreate refuses a name that libvirt has, and a disk file that is there unless
\* it makes a clone of a template; virsh refuses to start what runs and to stop
\* what does not.
Refuses(o) ==
    \/ o.kind \in MachineKinds /\ (domain # NoDomain \/ (o.kind = "create" /\ disk # Nobody))
    \/ o.kind \in PowerKinds /\ (domain = NoDomain \/ domain.on = (o.kind = "start"))

VMCreate(o) == domain' = [of |-> o.no, on |-> FALSE] /\ disk' = o.no
PowerOp(o) == domain' = [domain EXCEPT !.on = o.kind = "start"] /\ UNCHANGED disk
\* vmDelete takes a missing domain for a deleted one, and knows its disks from it.
VMDelete(o) ==
    /\ domain' = NoDomain
    /\ disk' = IF o.kind = "keep" \/ domain = NoDomain THEN disk ELSE Nobody

Perform(o) ==
    \/ o.kind \in MachineKinds /\ VMCreate(o)
    \/ o.kind \in PowerKinds /\ PowerOp(o)
    \/ o.kind \in DeleteKinds \cup {"purge"} /\ VMDelete(o)

\* The row is still that of the machine the task is about. The node goes by the
\* name alone.
Mine(t) == Exists /\ row.id = t.vm

Answered(t, o) == IF t.no = o.no THEN [t EXCEPT !.st = "answered"] ELSE t
Work(o) ==
    /\ ops' = ops \ {o}
    /\ \/ ~Refuses(o) /\ Perform(o) /\ tasks' = [i \in DOMAIN tasks |-> Answered(tasks[i], o)]
       \/ /\ Refuses(o) /\ UNCHANGED <<domain, disk>>
          /\ \/ \E i \in DOMAIN tasks : tasks[i].no = o.no /\ tasks' = RemoveAt(tasks, i)
             \/ (\A i \in DOMAIN tasks : tasks[i].no # o.no) /\ UNCHANGED tasks
    /\ stray' = (stray \/ (o.kind \notin MachineKinds /\ ~Mine(o)))
    /\ UNCHANGED <<row, req, scan, calls, lost, overlap>>

\* Dispatch returns an error: the task fails, whatever the node does.
LoseAnswer(i) ==
    /\ tasks[i].st \in {"running", "answered"} /\ lost < MaxLost /\ lost' = lost + 1
    /\ tasks' = RemoveAt(tasks, i)
    /\ UNCHANGED <<row, domain, disk, ops, req, scan, calls, overlap, stray>>

\* The rest of Run of the executors, once the node has answered.
FinishCreate(t) == t.kind \in MachineKinds /\ InsertRow(t.no, t.no, "stopped")
FinishPower(t) ==
    /\ t.kind \in PowerKinds
    /\ row' = IF Mine(t) THEN [row EXCEPT !.status = IF t.kind = "start" THEN "running" ELSE "stopped"] ELSE row
FinishDelete(t) ==
    \/ t.kind = "purge" /\ row' = IF Mine(t) THEN NoRow ELSE row
    \/ t.kind \in DeleteKinds
       /\ row' = IF Mine(t) THEN [row EXCEPT !.present = FALSE, !.status = "unknown"] ELSE row
Finish(i) ==
    /\ tasks[i].st = "answered" /\ tasks' = RemoveAt(tasks, i)
    /\ FinishCreate(tasks[i]) \/ FinishPower(tasks[i]) \/ FinishDelete(tasks[i])
    /\ UNCHANGED <<domain, disk, ops, req, scan, calls, lost, overlap, stray>>

\* Collector.syncRuntime: the node's domains, then the rows. (Mutant: only those
\* that are present.)
Look ==
    /\ scan = NotSeen /\ scan' = domain
    /\ UNCHANGED <<row, domain, disk, tasks, ops, req, calls, lost, overlap, stray>>

Watched_Mutant == Exists /\ row.present
Watched == Exists
Sync ==
    /\ scan # NotSeen /\ scan' = NotSeen
    /\ row' = IF Watched THEN [row EXCEPT !.present = scan # NoDomain, !.status = StatusOf(scan)] ELSE row
    /\ UNCHANGED <<domain, disk, tasks, ops, req, calls, lost, overlap, stray>>

Next ==
    \/ \E r \in Requests : Arrive(r) \/ Request(r)
    \/ \E i \in DOMAIN tasks : Dispatch(i) \/ LoseAnswer(i) \/ Finish(i)
    \/ \E o \in ops : Work(o)
    \/ Look \/ Sync

Spec == Init /\ [][Next]_vars

\* The ticker of the collector; nothing else has to happen.
FairSpec == Spec /\ WF_vars(Look) /\ WF_vars(Sync)

-----------------------------------------------------------------------------
(* Properties.                                                             *)

\* A row in the list stands for the machine its own creation made: what is
\* started, deleted or billed through it is not another machine of the same
\* name (unique index, ensureNameAvailable, the refusal of vmCreate). Only
\* creations or adoptions of one name that overlap can mix them up.
RowsOwnDomains == Exists /\ row.present /\ domain # NoDomain /\ ~overlap => row.of = domain.of

\* A deletion that a user asked for, neither forced nor a purge, never kills a
\* machine that runs, although its check is long past when the node deletes:
\* only a start accepted behind the check, one whose answer was lost, or a start
\* or deletion that outlived the row of its machine (stray) gets that far
\* (Service.Delete, and the comment in vmDelete). What a schedule deletes was
\* never checked, and is killed although it runs: no claim is made of it.
SparesTheRunning ==
    [][\A o \in ops :
        Work(o) /\ o.kind \in {"delete", "keep"} /\ domain.on => o.unchecked \/ lost > 0 \/ stray']_vars

\* Once no requests come, the row shows what the node has, whatever stale scan
\* or lost answer it was written from (comment of syncRuntime: the projection
\* must heal itself).
Shows == row.present = (domain # NoDomain) /\ row.status = StatusOf(domain)
ProjectionConverges == <>[](Exists => Shows)

\* Every entry that deletes calls ensureNotLocked (lock.go:117): none accepts a
\* machine that was locked when the request came, and still is.
LockStopsDeletion ==
    [][\A r \in Requests :
        Enqueue(r) /\ req[r].kind \in DeleteKinds \cup {"purge"} /\ req[r].locked
            /\ Exists /\ row.id = req[r].vm => ~row.locked]_vars
=============================================================================
