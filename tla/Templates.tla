----------------------------- MODULE Templates ------------------------------
(***************************************************************************)
(* Templates of one node and the machines that are made of them            *)
(* (service/compute/template, and clone, independent, reinstall and purge  *)
(* of service/compute/vm): the tables, the image files with the file each  *)
(* is backed by, libvirt's domains, requests of several steps, and tasks.  *)
(* The tasks of one template or of one machine run one at a time, and so   *)
(* do the clones, which lock the node; the others run side by side. A      *)
(* template keeps its name, so that it stands for its path too. Checks of  *)
(* power and of snapshots only refuse: Refuse. The steps of making a       *)
(* machine are VMLifecycle's: a clone is one step on the node.             *)
(***************************************************************************)
EXTENDS Integers, Sequences, FiniteSets

CONSTANTS
    Machines,
    Originals,  \* number of templates (bound)
    Requests,   \* handlers at work
    Kinds,      \* of requests
    MaxCalls,   \* requests (bound)
    MaxFaults   \* refusals and lost answers (bound)

TemplatesAssumption ==
    /\ Originals \in Nat /\ MaxCalls \in Nat /\ MaxFaults \in Nat
    /\ Machines \cap (0 .. Originals) = {}

VARIABLES
    row,      \* table template: state and parent
    image,    \* a template's file, as the file it is backed by
    machine,  \* table vm: clone mode, template, whether a backup is recorded
    disk,     \* a machine's system disk, as the file it is backed by
    saved,    \* the disk that reinstalling set aside
    defined,  \* the machines that libvirt knows
    tasks,    \* in flight, for each template, each machine and the node; the head runs
    late,     \* steps the node goes on with though their answer is lost
    req,      \* each request: where it is and what it read
    calls, faults,
    doubtful, \* templates whose removal ended without an answer or half way (history)
    torn      \* machines whose new definition failed after their new disk was made (history)

vars == <<row, image, machine, disk, saved, defined, tasks, late, req, calls, faults, doubtful, torn>>

Templates == 1 .. Originals
Node == 0           \* as a lock: what clones wait for
Locks == Templates \cup Machines \cup {Node}
NoFile == -1
Alone == 0          \* backed by nothing; as a parent: none
Idle == [pc |-> "idle"]
Alive(t) == row[t].state = "ready"

First == CHOOSE m \in Machines : TRUE

\* One template, a second derived from it, whose image was rebased onto the first
\* or not, a linked clone of the second: earlier requests led here.
Init ==
    \E b \in {Alone, 1} :
        LET made(n) == n = First
        IN /\ row = [i \in Templates |->
                        IF i <= 2 THEN [state |-> "ready", parent |-> i - 1]
                        ELSE [state |-> "none", parent |-> Alone]]
           /\ image = [i \in Templates |-> CASE i = 1 -> Alone [] i = 2 -> b [] OTHER -> NoFile]
           /\ machine = [n \in Machines |->
                            IF made(n) THEN [mode |-> "linked", from |-> 2, backup |-> FALSE]
                            ELSE [mode |-> "none", from |-> Alone, backup |-> FALSE]]
           /\ disk = [n \in Machines |-> IF made(n) THEN 2 ELSE NoFile]
           /\ saved = [n \in Machines |-> NoFile] /\ defined = {n \in Machines : made(n)}
           /\ tasks = [x \in Locks |-> <<>>]
           /\ late = {} /\ req = [r \in Requests |-> Idle] /\ calls = 0 /\ faults = 0
           /\ doubtful = {} /\ torn = {}

Tables == UNCHANGED <<row, machine>>
Files == UNCHANGED <<image, disk, saved, defined, torn>>

\* What can be read: a file whose chain of backing files is there.
Readable ==
    LET onto(known) == known \cup {t \in Templates : image[t] \in known}
        chain[n \in 0 .. Originals] == IF n = 0 THEN {Alone} ELSE onto(chain[n - 1])
        end == chain[Originals]
    IN {t \in {Alone} \cup Templates : t \in end}

-----------------------------------------------------------------------------
(* Requests. Ask begins one; Enqueue is the last step of each.             *)

Ask(r, kind, s) ==
    /\ kind \in Kinds /\ req[r] = Idle /\ calls < MaxCalls /\ calls' = calls + 1
    /\ req' = [req EXCEPT ![r] = s]
    /\ Tables /\ Files /\ UNCHANGED <<tasks, late, faults, doubtful>>

Go(r, s) == req' = [req EXCEPT ![r] = s]
Step(r, pc) == req[r].pc = pc /\ Files /\ UNCHANGED <<tasks, late, calls, faults, doubtful>>

Task(k, x, t, ids, to) == [kind |-> k, on |-> x, template |-> t, ids |-> ids, to |-> to, todo |-> <<>>]
Ending(task) == [pc |-> "enqueue", task |-> task]

Clone(r, m, t, mode) ==
    /\ Alive(t) /\ machine[m].mode = "none"
    /\ Ask(r, "clone", Ending(Task(mode, m, t, {}, Alone)))

CreateFromVM(r, m, t, parent) ==
    /\ machine[m].mode # "none" /\ row[t].state = "none"
    /\ parent \in {Alone} \cup {p \in Templates : Alive(p)}
    /\ Ask(r, "prepare", Ending(Task("prepare", m, t, {}, parent)))

MakeDisksIndependent(r, m) ==
    /\ machine[m].mode = "linked"
    /\ Ask(r, "independent", Ending(Task("independent", m, Alone, {}, Alone)))

Reinstall(r, m, t) ==
    /\ machine[m].mode # "none" /\ ~machine[m].backup /\ tasks[m] = <<>> /\ Alive(t)
    /\ Ask(r, "reinstall", Ending(Task("reinstall", m, t, {}, Alone)))

PurgeBackup(r, m) ==
    /\ machine[m].backup
    /\ Ask(r, "purge", Ending(Task("purge", m, Alone, {}, Alone)))

Delete(r, t, strategy) ==
    /\ Alive(t)
    /\ Ask(r, "delete", [pc |-> "clones", template |-> t, strategy |-> strategy])

\* deleteBlockers: no strategy leads past a linked clone of the template itself.
LinkedClones(t) == {m \in Machines : machine[m].mode = "linked" /\ machine[m].from = t}

CheckClones(r) ==
    /\ Step(r, "clones") /\ Tables
    /\ Go(r, IF LinkedClones(req[r].template) # {} THEN Idle ELSE [req[r] EXCEPT !.pc = "children"])

\* descendants: level by level; rows that are deleted end a branch.
Descendants(t) ==
    LET below(found) == found \cup {c \in Templates : Alive(c) /\ row[c].parent \in found}
        level[n \in 0 .. Originals] == IF n = 0 THEN {t} ELSE below(level[n - 1])
        end == level[Originals]
    IN {c \in Templates \ {t} : Alive(c) /\ c \in end}

CheckChildren(r) ==
    /\ Step(r, "children") /\ Tables
    /\ LET t == req[r].template
           removal(ids) == Ending(Task("delete", t, t, ids, Alone))
       IN Go(r, CASE Descendants(t) = {} -> removal({t})
                  [] req[r].strategy = "cascade" -> removal({t} \cup Descendants(t))
                  [] req[r].strategy = "promote" -> [req[r] EXCEPT !.pc = "promote"]
                  [] OTHER -> Idle)

\* promoteChildren moves the rows at once, and no image at all.
Adopted(t) ==
    [c \in Templates |-> IF Alive(c) /\ row[c].parent = t
                         THEN [row[c] EXCEPT !.parent = row[t].parent] ELSE row[c]]

PromoteChildren(r) ==
    /\ Step(r, "promote") /\ UNCHANGED machine
    /\ LET t == req[r].template
       IN row' = Adopted(t) /\ Go(r, Ending(Task("delete", t, t, {t}, Alone)))

\* Maintain reads the parent that is alive, then the children it is about.
Maintain(r, t, action, child) ==
    /\ Alive(t)
    /\ Ask(r, "maintain", [pc |-> "parent", template |-> t, action |-> action, child |-> child])

ReadParent(r) ==
    /\ Step(r, "parent") /\ Tables
    /\ LET p == row[req[r].template].parent
           to == IF p \in Templates /\ Alive(p) THEN p ELSE Alone
       IN Go(r, CASE to = Alone /\ req[r].action \in {"rebase", "flatten"} -> Idle
                  [] req[r].action \in {"rebase", "flatten"} ->
                        Ending(Task(req[r].action, req[r].template, req[r].template, {}, to))
                  [] OTHER -> [pc |-> "choose", template |-> req[r].template,
                               action |-> req[r].action, child |-> req[r].child, to |-> to])

ReadChildren(r) ==
    /\ Step(r, "choose") /\ Tables
    /\ LET t == req[r].template
           of == {c \in Templates : Alive(c) /\ row[c].parent = t}
           ids == IF req[r].action = "promote_delete" THEN of ELSE of \cap {req[r].child}
       IN Go(r, IF req[r].action = "promote_child" /\ ids = {} THEN Idle
                ELSE Ending(Task(req[r].action, t, t, ids, req[r].to)))

-----------------------------------------------------------------------------
(* What the node does for a task, a file at a time.                        *)

Unlink(t) == [op |-> "remove", file |-> t, to |-> Alone]
Reparent(t, to) == [op |-> "reparent", file |-> t, to |-> to]

\* The files of a task in the order of their rows.
InOrder(S) == {q \in [1 .. Cardinality(S) -> S] : \A i, j \in DOMAIN q : i < j => q[i] < q[j]}

OnNode(k, ids) ==
    LET on(op, to) == [op |-> op, file |-> k.on, to |-> to]
        prepare(op) == [op |-> op, file |-> k.template, to |-> k.on]
        removed == [i \in DOMAIN ids |-> Unlink(ids[i])]
        reparented == [i \in DOMAIN ids |-> Reparent(ids[i], k.to)]
    IN CASE k.kind = "linked" -> <<on("overlay", k.template)>>
         [] k.kind = "full" -> <<on("copy", k.template)>>
         [] k.kind = "prepare" -> <<prepare("begin"), prepare("verify")>>
         [] k.kind = "independent" -> <<on("merge", Alone)>>
         [] k.kind = "reinstall" -> <<on("backup", Alone), on("rebuild", k.template), on("redefine", Alone)>>
         [] k.kind = "purge" -> <<on("purge", Alone)>>
         [] k.kind = "delete" -> removed
         [] k.kind = "rebase" -> <<Reparent(k.on, k.to)>>
         [] k.kind = "flatten" -> <<Reparent(k.on, Alone)>>
         [] k.kind = "promote_child" -> reparented
         [] OTHER -> Append(reparented, Unlink(k.on))

\* Whether the node can do a step: what it reads must be there, with all that it
\* is backed by; what it makes must not (DomainExists).
Can(s) ==
    CASE s.op \in {"overlay", "copy"} -> s.file \notin defined /\ s.to \in Readable
      [] s.op = "begin" -> image[s.file] = NoFile /\ s.to \in defined /\ disk[s.to] \in Readable
      [] s.op = "verify" -> image[s.file] # NoFile
      [] s.op = "merge" -> s.file \in defined /\ disk[s.file] \in Readable
      [] s.op = "backup" -> s.file \in defined /\ disk[s.file] # NoFile
      [] s.op = "rebuild" -> s.to \in Readable
      [] s.op = "reparent" -> {s.file, s.to} \subseteq Readable
      [] OTHER -> TRUE

\* What the disk that a step writes is backed by. (Mutant: reinstalling makes an
\* overlay too.)
Backing_Mutant(s) == IF s.op \in {"overlay", "rebuild"} THEN s.to ELSE Alone
Backing(s) == IF s.op = "overlay" THEN s.to ELSE Alone
Do(s) ==
    \/ /\ s.op \in {"overlay", "copy", "merge", "rebuild"} /\ UNCHANGED <<image, saved, torn>>
       /\ disk' = [disk EXCEPT ![s.file] = Backing(s)]
       /\ defined' = IF s.op \in {"overlay", "copy"} THEN defined \cup {s.file} ELSE defined
    \/ /\ s.op \in {"begin", "remove", "reparent"} /\ UNCHANGED <<disk, saved, defined, torn>>
       /\ image' = [image EXCEPT ![s.file] =
            CASE s.op = "begin" -> Alone [] s.op = "remove" -> NoFile [] OTHER -> s.to]
    \/ /\ s.op = "backup" /\ UNCHANGED <<image, defined, torn>>
       /\ saved' = [saved EXCEPT ![s.file] = disk[s.file]] /\ disk' = [disk EXCEPT ![s.file] = NoFile]
    \/ s.op = "purge" /\ saved' = [saved EXCEPT ![s.file] = NoFile] /\ UNCHANGED <<image, disk, defined, torn>>
    \/ s.op = "redefine" /\ defined' = defined \cup {s.file} /\ UNCHANGED <<image, disk, saved, torn>>
    \/ s.op = "verify" /\ Files

\* Reinstalling puts the disk back.
PutBack(m) ==
    /\ disk' = IF saved[m] = NoFile THEN disk ELSE [disk EXCEPT ![m] = saved[m]]
    /\ saved' = [saved EXCEPT ![m] = NoFile] /\ UNCHANGED image

\* What a step that fails leaves: the old definition may have gone when the new
\* one is refused, preparing removes what it copied.
Undo(s) ==
    \/ s.op = "rebuild" /\ PutBack(s.file) /\ UNCHANGED <<defined, torn>>
    \/ /\ s.op = "redefine" /\ PutBack(s.file)
       /\ defined' \in {defined, defined \ {s.file}} /\ torn' = torn \cup {s.file}
    \/ s.op = "verify" /\ image' = [image EXCEPT ![s.file] = NoFile] /\ UNCHANGED <<disk, saved, defined, torn>>
    \/ s.op \notin {"rebuild", "redefine", "verify"} /\ Files

-----------------------------------------------------------------------------
(* Tasks.                                                                  *)

\* A clone locks its node, every other task the machine or template it is about.
Lock(k) == IF k.kind \in {"linked", "full"} THEN Node ELSE k.on

Enqueue(r) ==
    /\ req[r].pc = "enqueue" /\ Go(r, Idle) /\ Tables /\ Files
    /\ LET k == req[r].task
       IN \E ids \in InOrder(k.ids) :
              tasks' = [tasks EXCEPT ![Lock(k)] = Append(@, [k EXCEPT !.todo = OnNode(k, ids)])]
    /\ UNCHANGED <<late, calls, faults, doubtful>>

Running(x) == tasks[x] # <<>>
Current(x) == Head(tasks[x])
Drop(x) == tasks' = [tasks EXCEPT ![x] = Tail(@)]
Removals(k) == CASE k.kind = "delete" -> k.ids [] k.kind = "promote_delete" -> {k.on} [] OTHER -> {}
Fail(x) == Drop(x) /\ doubtful' = doubtful \cup Removals(Current(x))

Work(x) ==
    /\ Running(x) /\ Current(x).todo # <<>>
    /\ LET s == Head(Current(x).todo)
       IN \/ /\ Can(s) /\ Do(s) /\ UNCHANGED doubtful
             /\ tasks' = [tasks EXCEPT ![x] = <<[Current(x) EXCEPT !.todo = Tail(@)]>> \o Tail(tasks[x])]
          \/ ~Can(s) /\ Undo(s) /\ Fail(x)
    /\ Tables /\ UNCHANGED <<late, req, calls, faults>>

Since(todo) == late \cup ({todo} \ {<<>>})

\* The node refuses a step for another reason: no space, it runs, it has
\* snapshots. vmTemplateDelete goes on with the other files and fails in the end.
Refuse(x) ==
    /\ Running(x) /\ Current(x).todo # <<>> /\ faults < MaxFaults /\ faults' = faults + 1
    /\ Undo(Head(Current(x).todo)) /\ Fail(x)
    /\ late' = IF Current(x).kind = "delete" THEN Since(Tail(Current(x).todo)) ELSE late
    /\ Tables /\ UNCHANGED <<req, calls>>

\* The answer is lost: the task fails, and the node goes on.
Lose(x) ==
    /\ Running(x) /\ faults < MaxFaults /\ faults' = faults + 1 /\ Fail(x)
    /\ late' = Since(Current(x).todo)
    /\ Tables /\ Files /\ UNCHANGED <<req, calls>>

\* What it goes on with can fail too.
Late(todo) ==
    /\ LET s == Head(todo)
           rest == {Tail(todo)} \ {<<>>}
       IN \/ Can(s) /\ Do(s) /\ late' = (late \ {todo}) \cup rest /\ UNCHANGED faults
          \/ /\ Undo(s) /\ late' = (late \ {todo}) \cup (IF s.op = "remove" THEN rest ELSE {})
             /\ \/ ~Can(s) /\ UNCHANGED faults
                \/ faults < MaxFaults /\ faults' = faults + 1
    /\ Tables /\ UNCHANGED <<tasks, req, calls, doubtful>>

\* What Run of the executors writes once the node has answered. A name has one
\* row: the second clone of that name fails (uniq_vm_node_name).
NewClone(k) ==
    /\ k.kind \in {"linked", "full"} /\ UNCHANGED row
    /\ machine' = IF machine[k.on].mode # "none" THEN machine
                  ELSE [machine EXCEPT ![k.on] = [mode |-> k.kind, from |-> k.template, backup |-> FALSE]]

NewTemplate(k) ==
    /\ k.kind = "prepare" /\ UNCHANGED machine
    /\ row' = IF row[k.template].state # "none" THEN row
              ELSE [row EXCEPT ![k.template] = [state |-> "ready", parent |-> k.to]]

ChangedMachine(k) ==
    /\ k.kind \in {"independent", "reinstall", "purge"} /\ UNCHANGED row
    /\ machine' = [machine EXCEPT ![k.on] =
        CASE k.kind = "independent" -> [@ EXCEPT !.mode = "full"]
          [] k.kind = "reinstall" -> [mode |-> "full", from |-> k.template, backup |-> TRUE]
          [] OTHER -> [@ EXCEPT !.backup = FALSE]]

Deleted(ids, rows) == [t \in Templates |-> IF t \in ids THEN [rows[t] EXCEPT !.state = "deleted"] ELSE rows[t]]
\* The rows that a deletion marks. (Mutant: only its own.)
Gone_Mutant(k) == {k.on}
Gone(k) == k.ids
ChangedTemplates(k) ==
    /\ k.kind \in {"delete", "rebase", "flatten", "promote_child", "promote_delete"} /\ UNCHANGED machine
    /\ row' = CASE k.kind = "delete" -> Deleted(Gone(k), row)
                [] k.kind = "promote_child" /\ Alive(k.on) ->
                    [c \in Templates |-> IF c \in k.ids /\ Alive(c) THEN [row[c] EXCEPT !.parent = row[k.on].parent] ELSE row[c]]
                [] k.kind = "promote_delete" /\ Alive(k.on) -> Deleted({k.on}, Adopted(k.on))
                [] OTHER -> row

Finish(x) ==
    /\ Running(x) /\ Current(x).todo = <<>> /\ Drop(x)
    /\ LET k == Current(x)
       IN NewClone(k) \/ NewTemplate(k) \/ ChangedMachine(k) \/ ChangedTemplates(k)
    /\ Files /\ UNCHANGED <<late, req, calls, faults, doubtful>>

Request(r) ==
    \/ \E m \in Machines, t \in Templates :
        \/ \E mode \in {"linked", "full"} : Clone(r, m, t, mode)
        \/ \E p \in Templates \cup {Alone} : CreateFromVM(r, m, t, p)
        \/ Reinstall(r, m, t)
    \/ \E m \in Machines : MakeDisksIndependent(r, m) \/ PurgeBackup(r, m)
    \/ \E t \in Templates :
        \/ \E strategy \in {"none", "cascade", "promote"} : Delete(r, t, strategy)
        \/ \E action \in {"rebase", "flatten", "promote_delete"} : Maintain(r, t, action, Alone)
        \/ \E c \in Templates : Maintain(r, t, "promote_child", c)
    \/ CheckClones(r) \/ CheckChildren(r) \/ PromoteChildren(r) \/ ReadParent(r) \/ ReadChildren(r)
    \/ Enqueue(r)

Next ==
    \/ \E r \in Requests : Request(r)
    \/ \E x \in Locks : Work(x) \/ Refuse(x) \/ Lose(x) \/ Finish(x)
    \/ \E todo \in late : Late(todo)

Spec == Init /\ [][Next]_vars

-----------------------------------------------------------------------------
(* Properties.                                                             *)

\* What the table calls full depends on no template, whose deletion asks only for
\* linked clones: the comment of MakeDisksIndependent names the opposite as the
\* one path to silent, large damage. The answers of merging and of reinstalling
\* may be lost, late, or overtaken by the next task of the machine. Only where
\* libvirt refused the new definition of a machine, the disk it had before comes
\* back, or a clone of its name is made in its place.
FullMeansAlone == \A m \in Machines \ torn : machine[m].mode = "full" => disk[m] \in {Alone, NoFile}

\* A template that is offered has its file (PrepareExecutor.Run, the comment on
\* the order; DeleteExecutor.Run), unless a removal is at work or ended badly.
ReadyHasDisk ==
    \A t \in Templates : Alive(t) /\ image[t] = NoFile =>
        t \in doubtful \/ \E x \in Templates : Running(x) /\ t \in Removals(Current(x))

\* No strategy leads past a linked clone (docs/03-api/API.md:261, the comment on
\* Service.Delete): the template of a linked clone in the table keeps its file.
NoStrategyBypasses == \A m \in Machines : machine[m].mode = "linked" => image[machine[m].from] # NoFile
=============================================================================
