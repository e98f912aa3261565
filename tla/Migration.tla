----------------------------- MODULE Migration -----------------------------
(***************************************************************************)
(* Moving one virtual machine between nodes (migrate.go, its executor),    *)
(* with what nodeagent does on both sides: the source stages the disk and  *)
(* keeps its definition, the target takes over from its own staging area,  *)
(* the row changes nodes, the source is cleaned up. Nothing in the         *)
(* repository carries the staged files from one node to the other: Relay   *)
(* stands for whoever does.                                                *)
(***************************************************************************)
EXTENDS Naturals, Sequences, FiniteSets

CONSTANTS
    Nodes,      \* nodes
    Home,       \* where the machine is first
    Requests,   \* handlers at work
    MaxMoves,   \* migration records (bound)
    MaxCalls,   \* requests (bound)
    MaxFaults   \* messages and answers lost, refusals, failed commits (bound)

MigrationAssumption ==
    Home \in Nodes /\ MaxMoves \in Nat /\ MaxCalls \in Nat /\ MaxFaults \in Nat

VARIABLES
    node,     \* VM.NodeID
    domain,   \* each node's libvirt: "none", "off" or "on"
    disk,     \* the nodes that have the disk in their image directory
    staged,   \* the nodes that have it in their staging area
    memory,   \* the nodes that have the saved memory there
    record,   \* VMMigration.Status of each migration
    tasks,    \* tasks of the machine in flight, in the order of their rows
    req,      \* each request: where it is, and what it read
    late,     \* operations on their way to a node after their task has ended
    calls, faults,
    outlived, \* such an operation was carried out (history)
    astray,   \* a task ran on a node that was not the machine's any more (history)
    unknown   \* a takeover was carried out and not committed (history)

vars == <<node, domain, disk, staged, memory, record, tasks, req, late, calls, faults,
          outlived, astray, unknown>>
onNodes == <<domain, disk, staged, memory>>
history == <<outlived, astray, unknown>>

Moves == 1 .. MaxMoves
Idle == [pc |-> "idle"]
NoMove == 0

Init ==
    /\ node = Home /\ domain \in [Nodes -> {"none", "off", "on"}]
    /\ \A n \in Nodes : (domain[n] = "none") = (n # Home)
    /\ disk = {Home} /\ staged = {} /\ memory = {}
    /\ record = [m \in Moves |-> "absent"] /\ tasks = <<>>
    /\ req = [r \in Requests |-> Idle] /\ late = {} /\ calls = 0 /\ faults = 0
    /\ outlived = FALSE /\ astray = FALSE /\ unknown = FALSE

-----------------------------------------------------------------------------
(* Requests.                                                               *)

At(r, pc) == req[r].pc = pc
Pass(r, ok, pc) == req' = [req EXCEPT ![r] = IF ok THEN [@ EXCEPT !.pc = pc] ELSE Idle]

\* Migrate loads the row: it keeps the node that it read.
Arrive(r) ==
    /\ req[r] = Idle /\ calls < MaxCalls /\ calls' = calls + 1
    /\ \E to \in Nodes \ {node} :
        req' = [req EXCEPT ![r] = [pc |-> "probe", from |-> node, to |-> to, mode |-> "none", move |-> NoMove]]
    /\ UNCHANGED <<node, onNodes, record, tasks, late, faults, history>>

\* migrationBlockers: the state of the machine chooses the mode; an unknown state
\* only passes after a migration that failed.
Probe(r) ==
    /\ At(r, "probe")
    /\ LET s == domain[req[r].from]
           ok == s # "none" \/ \E m \in Moves : record[m] = "failed"
       IN req' = [req EXCEPT ![r] = IF ok THEN [@ EXCEPT !.pc = "active", !.mode = IF s = "on" THEN "warm" ELSE "offline"]
                                    ELSE Idle]
    /\ UNCHANGED <<node, onNodes, record, tasks, late, calls, faults, history>>

Active(r) ==
    /\ At(r, "active") /\ Pass(r, tasks = <<>>, "running")
    /\ UNCHANGED <<node, onNodes, record, tasks, late, calls, faults, history>>

Running(r) ==
    /\ At(r, "running") /\ Pass(r, \A m \in Moves : record[m] \notin {"pending", "running"}, "insert")
    /\ UNCHANGED <<node, onNodes, record, tasks, late, calls, faults, history>>

Insert(r) ==
    /\ At(r, "insert")
    /\ \E m \in Moves :
        /\ record[m] = "absent" /\ \A k \in Moves : k < m => record[k] # "absent"
        /\ record' = [record EXCEPT ![m] = "pending"]
        /\ req' = [req EXCEPT ![r].pc = "enqueue", ![r].move = m]
    /\ UNCHANGED <<node, onNodes, tasks, late, calls, faults, history>>

Enqueue(r) ==
    /\ At(r, "enqueue") /\ req' = [req EXCEPT ![r] = Idle]
    /\ tasks' = Append(tasks, [step |-> "start", from |-> req[r].from, to |-> req[r].to,
                               mode |-> req[r].mode, move |-> req[r].move, memory |-> FALSE])
    /\ UNCHANGED <<node, onNodes, record, late, calls, faults, history>>

\* Without a task the record is deleted.
EnqueueFails(r) ==
    /\ At(r, "enqueue") /\ faults < MaxFaults /\ faults' = faults + 1 /\ req' = [req EXCEPT ![r] = Idle]
    /\ record' = [record EXCEPT ![req[r].move] = "dropped"]
    /\ UNCHANGED <<node, onNodes, tasks, late, calls, history>>

\* Service.Power meanwhile: a task like the others.
Power ==
    /\ calls < MaxCalls /\ calls' = calls + 1 /\ domain[node] # "none"
    /\ tasks' = Append(tasks, [step |-> IF domain[node] = "on" THEN "poweroff" ELSE "poweron", from |-> node])
    /\ UNCHANGED <<node, onNodes, record, req, late, faults, history>>

-----------------------------------------------------------------------------
(* What an operation does on a node. Answers: "ok" or "error".             *)

\* vmMigrate: stop the machine, or save its memory, and stage the disk. The
\* definition stays. Without a definition, what was staged is sent again. (Mutant:
\* the disk of a machine that runs is staged under it.)
LeftAs_Mutant(was) == was
LeftAs(was) == "off"
Source(t, answer) ==
    LET n == t.from
        saves == t.mode = "warm" /\ domain[n] = "on"
    IN IF domain[n] = "none"
       THEN answer = (IF n \in staged THEN "ok" ELSE "error") /\ UNCHANGED onNodes
       ELSE /\ domain' = [domain EXCEPT ![n] = LeftAs(@)]
            /\ memory' = IF saves THEN memory \cup {n} ELSE memory
            /\ staged' = IF n \in disk THEN staged \cup {n} ELSE staged
            /\ answer = (IF n \in disk THEN "ok" ELSE "error")
            /\ UNCHANGED disk

\* vmMigrateTakeover: place the disk, replace a definition of the same machine,
\* define it, and let it run on if its memory was saved.
Takeover(t, answer) ==
    LET n == t.to
        placed == n \in staged \cup disk
        resumes == t.memory /\ n \in memory /\ domain[n] # "on"
    IN /\ disk' = IF placed THEN disk \cup {n} ELSE disk
       /\ answer = (IF placed /\ (t.memory => resumes) THEN "ok" ELSE "error")
       /\ domain' = IF ~placed \/ domain[n] = "on" THEN domain
                    ELSE [domain EXCEPT ![n] = IF ~t.memory THEN "off" ELSE IF resumes THEN "on" ELSE "none"]
       /\ staged' = staged \ {n}
       /\ memory' = IF answer = "ok" THEN memory \ {n} ELSE memory

\* migrateCleanup: a machine that runs loses its definition, not its process.
Cleanup(t, answer) ==
    LET n == t.from
    IN /\ domain' = [domain EXCEPT ![n] = IF @ = "on" THEN "on" ELSE "none"]
       /\ disk' = disk \ {n} /\ staged' = staged \ {n} /\ memory' = memory \ {n}
       /\ answer = "ok"

Operation(t, answer) ==
    \/ t.step = "source" /\ Source(t, answer)
    \/ t.step = "takeover" /\ Takeover(t, answer)
    \/ t.step = "cleanup" /\ Cleanup(t, answer)

\* Someone copies what the source staged.
Relay ==
    /\ \E a \in staged, b \in Nodes \ staged :
        staged' = staged \cup {b} /\ memory' = IF a \in memory THEN memory \cup {b} ELSE memory
    /\ UNCHANGED <<node, domain, disk, record, tasks, req, late, calls, faults, history>>

-----------------------------------------------------------------------------
(* MigrateExecutor.Run.                                                    *)

Now == tasks[1]
Step(s) == tasks' = [tasks EXCEPT ![1].step = s]
Mark(st) == record' = [record EXCEPT ![Now.move] = st]

MarkRunning ==
    /\ Now.step = "start" /\ Mark("running") /\ Step("source") /\ astray' = (astray \/ Now.from # node)
    /\ UNCHANGED <<node, onNodes, req, late, calls, faults, outlived, unknown>>

\* What follows a good answer. (Mutant: the source is cleaned up before the row
\* has changed nodes.)
Follow_Mutant(s) == CASE s = "source" -> "takeover" [] s = "takeover" -> "cleanup" [] OTHER -> "end"
Follow(s) == CASE s = "source" -> "takeover" [] s = "takeover" -> "commit" [] OTHER -> "end"

Ended == tasks' = Tail(tasks)
Fail == Ended /\ Mark("failed")

\* The step was answered: on with the next one; an error fails the migration, but
\* nobody looks at the answer of the cleanup.
Answered ==
    /\ Now.step \in {"source", "takeover", "cleanup"}
    /\ \E answer \in {"ok", "error"} :
        /\ Operation(Now, answer)
        /\ IF Follow(Now.step) = "end" THEN Ended /\ UNCHANGED record
           ELSE IF answer = "error" THEN Fail
           ELSE /\ UNCHANGED record
                /\ tasks' = [tasks EXCEPT ![1].step = Follow(@),
                             ![1].memory = IF Now.step = "source"
                                           THEN Now.mode = "warm" /\ Now.from \in memory' ELSE @]
    /\ UNCHANGED <<node, req, late, calls, faults, history>>

\* It was not: not delivered, the answer lost, or the node works on it still.
Unanswered ==
    /\ Now.step \in {"source", "takeover", "cleanup"} /\ faults < MaxFaults /\ faults' = faults + 1
    /\ \/ UNCHANGED <<onNodes, late, unknown>>
       \/ \E answer \in {"ok", "error"} : Operation(Now, answer) /\ UNCHANGED late
                                          /\ unknown' = (unknown \/ Now.step = "takeover")
       \/ late' = late \cup {Now} /\ UNCHANGED <<onNodes, unknown>>
    /\ IF Now.step = "cleanup" THEN Ended /\ UNCHANGED record ELSE Fail
    /\ UNCHANGED <<node, req, calls, outlived, astray>>

Late(t) ==
    /\ \E answer \in {"ok", "error"} : Operation(t, answer)
    /\ late' = late \ {t} /\ outlived' = TRUE
    /\ UNCHANGED <<node, record, tasks, req, calls, faults, astray, unknown>>

\* commitMigration, one transaction.
Commit ==
    /\ Now.step = "commit"
    /\ \/ node' = Now.to /\ Mark("success") /\ Step("cleanup") /\ UNCHANGED <<faults, unknown>>
       \/ faults < MaxFaults /\ faults' = faults + 1 /\ Fail /\ unknown' = TRUE /\ UNCHANGED node
    /\ UNCHANGED <<onNodes, req, late, calls, outlived, astray>>

\* PowerExecutor; a task that is canceled, or closed after a restart, leaves the
\* record of its migration as it is.
PowerOp ==
    /\ Now.step \in {"poweron", "poweroff"} /\ Ended
    /\ domain' = [domain EXCEPT ![Now.from] = IF @ = "none" THEN "none" ELSE IF Now.step = "poweron" THEN "on" ELSE "off"]
    /\ astray' = (astray \/ Now.from # node)
    /\ UNCHANGED <<node, disk, staged, memory, record, req, late, calls, faults, outlived, unknown>>

Cancel ==
    /\ Now.step = "start" /\ faults < MaxFaults /\ faults' = faults + 1 /\ Ended
    /\ UNCHANGED <<node, onNodes, record, req, late, calls, history>>

Run == tasks # <<>> /\ (MarkRunning \/ Answered \/ Unanswered \/ Commit \/ PowerOp \/ Cancel)

Next ==
    \/ \E r \in Requests : Arrive(r) \/ Probe(r) \/ Active(r) \/ Running(r) \/ Insert(r) \/ Enqueue(r) \/ EnqueueFails(r)
    \/ Power \/ Relay \/ Run
    \/ \E t \in late : Late(t)

Spec == Init /\ [][Next]_vars

-----------------------------------------------------------------------------
(* Properties.                                                             *)

\* The node that the row names has the machine: its definition and its disk, at
\* every moment of a migration, of its failure and of the next try (the comments
\* of vmMigrate and Run: never without a definition on either side). Only an
\* operation that outlives its task, or a task accepted before the move and run
\* behind it, takes it away.
RowFindsMachine == outlived \/ astray \/ (domain[node] # "none" /\ node \in disk)

\* It runs on one node at most, but for those and a takeover that succeeded and
\* the control plane does not know of: after it the source may be started
\* (vmMigrate: twice alive is worse than without a definition for a while).
RunsOnce == outlived \/ astray \/ unknown \/ Cardinality({n \in Nodes : domain[n] = "on"}) <= 1
=============================================================================
