------------------------------- MODULE Disks -------------------------------
(***************************************************************************)
(* The disks of one machine and its two definitions: the one libvirt keeps *)
(* for the next boot and the one the guest runs with (compute/vm/disks.go, *)
(* edit.go, and vm.disk.change and vm.config.update of nodeagent). A disk  *)
(* moves to another pool either by moving its file, or under the running   *)
(* guest by a mirror and a pivot; what cannot be done to a running guest   *)
(* is written for its next boot.                                           *)
(*                                                                         *)
(* A request and its probe are one step: what it read is old by the time   *)
(* its task reaches the node anyway. The tasks of the machine run one at a *)
(* time (module TaskQueue), but the node goes on with an operation whose   *)
(* answer is lost. All writes to a disk together are one fact about a      *)
(* file: does it hold all of them? The setting stands for the whole rest   *)
(* of a definition.                                                        *)
(***************************************************************************)
EXTENDS Naturals, Sequences

CONSTANTS
    Files,      \* disks, each with its file
    System,     \* those that cannot be detached
    Pools,      \* directories for files
    Home,       \* where the files are made, and attached from
    MaxCalls,   \* requests (bound)
    MaxLost,    \* answers of the node that are lost (bound)
    MaxFaults   \* commands of libvirt that fail (bound)

None == "none"

DisksAssumption ==
    /\ System \subseteq Files /\ Home \in Pools /\ {MaxCalls, MaxLost, MaxFaults} \subseteq Nat
    /\ "setting" \notin Files /\ None \notin Pools

VARIABLES
    power,   \* "off", "on" or "paused"
    conf,    \* the definition for the next boot
    live,    \* the definition the guest runs with
    exists,  \* the files there are: <<file, pool>>
    fresh,   \* those of them that hold all that was written to the disk
    mirror,  \* where a running copy of each disk writes too, or None
    queue,   \* tasks that wait
    ops,     \* operations the node is at
    busy,    \* the task whose answer is waited for, or 0
    calls, lost, faults,  \* so far
    torn     \* something went wrong that the code leaves to a human (history)

vars == <<power, conf, live, exists, fresh, mirror, queue, ops, busy, calls, lost, faults, torn>>

Keys == Files \cup {"setting"}
NoDefinition == [k \in Keys |-> None]

\* dumpxml: of a machine that is off there is only one definition.
Live == IF power = "off" THEN conf ELSE live
\* vmRunning. A machine that is paused does not run. (Mutant: the node believes
\* what the control plane saw when it took the request.)
Running_AsAsked(o) == o.hot
Running(o) == power = "on"

Init ==
    /\ power = "off" /\ live = NoDefinition
    /\ conf = [k \in Keys |-> IF k \in System THEN Home ELSE IF k = "setting" THEN 0 ELSE None]
    /\ exists = {<<f, Home>> : f \in Files} /\ fresh = exists
    /\ mirror = [f \in Files |-> None]
    /\ queue = <<>> /\ ops = {} /\ busy = 0
    /\ calls = 0 /\ lost = 0 /\ faults = 0 /\ torn = FALSE

-----------------------------------------------------------------------------
(* Requests.                                                               *)

Asked ==
    [act : {"attach", "detach"}, file : Files, to : {None}]
    \cup [act : {"migrate"}, file : Files, to : Pools]
    \cup [act : {"start", "poweroff", "bus", "config", "hotadd"}, file : {None}, to : {None}]

\* Power, ChangeDisk and UpdateConfig. (Nobody attaches one file twice: a bound.)
Admitted(a) ==
    CASE a.act \in {"start", "config"} -> power = "off"
      [] a.act = "poweroff" -> power = "on"
      [] a.act = "attach" -> conf[a.file] = None /\ Live[a.file] = None
      [] a.act = "detach" -> a.file \notin System /\ Live[a.file] # None
      [] a.act = "bus" -> power # "on"
      [] a.act = "hotadd" -> power # "off"
      [] a.act = "migrate" -> TRUE

\* The idempotency key of ChangeDisk: action and device, and the pages of the
\* web interface name no device for a disk to attach. A request whose key is in
\* flight changes nothing.
Device(a) == IF a.act = "attach" THEN None ELSE a.file
InFlight(a) ==
    /\ a.act \in {"attach", "detach", "migrate"}
    /\ \/ \E i \in DOMAIN queue : queue[i].act = a.act /\ Device(queue[i]) = Device(a)
       \/ \E o \in ops : o.no = busy /\ o.act = a.act /\ Device(o) = Device(a)

Request(a) ==
    /\ calls < MaxCalls /\ calls' = calls + 1
    /\ Admitted(a) /\ ~InFlight(a)
    /\ queue' = Append(queue, [no |-> calls + 1, act |-> a.act, file |-> a.file, to |-> a.to,
                               hot |-> a.act = "migrate" /\ power = "on"])
    /\ UNCHANGED <<power, conf, live, exists, fresh, mirror, ops, busy, lost, faults, torn>>

\* The executor dispatches; nothing keeps it from a machine that the node is
\* still at for a task that lost its answer.
Dispatch ==
    /\ busy = 0 /\ queue # <<>>
    /\ LET t == Head(queue)
       IN /\ busy' = t.no /\ queue' = Tail(queue)
          /\ ops' = ops \cup {[no |-> t.no, act |-> t.act, file |-> t.file, to |-> t.to,
                               hot |-> t.hot, pc |-> "begin", running |-> FALSE, from |-> None,
                               xml |-> NoDefinition]}
    /\ torn' = (torn \/ ops # {})
    /\ UNCHANGED <<power, conf, live, exists, fresh, mirror, calls, lost, faults>>

LoseAnswer ==
    /\ busy # 0 /\ lost < MaxLost /\ lost' = lost + 1 /\ busy' = 0
    /\ UNCHANGED <<power, conf, live, exists, fresh, mirror, queue, ops, calls, faults, torn>>

-----------------------------------------------------------------------------
(* What the node does for an operation.                                    *)

At(o, s) == o.pc = s
Answer(o) == ops' = ops \ {o} /\ busy' = IF busy = o.no THEN 0 ELSE busy
Onward(o, p) == ops' = (ops \ {o}) \cup {p} /\ UNCHANGED busy
Fault == faults < MaxFaults /\ faults' = faults + 1

\* diskMigrate refuses, or has nothing to do.
MoveRefused(o) ==
    \/ Running(o) /\ ~o.hot
    \/ conf[o.file] \in {None, o.to}
    \/ <<o.file, o.to>> \in exists

\* vmDiskChange and vmConfigUpdate up to the first command that changes something.
Begin(o) ==
    /\ At(o, "begin")
    /\ LET p == [o EXCEPT !.running = Running(o)]
       IN CASE o.act = "migrate" ->
                IF MoveRefused(o) THEN Answer(o)
                ELSE Onward(o, [p EXCEPT !.from = conf[o.file], !.pc = "copy"])
            [] o.act = "bus" -> IF Running(o) THEN Answer(o) ELSE Onward(o, [p EXCEPT !.pc = "dump"])
            [] o.act = "config" -> Onward(o, [p EXCEPT !.pc = "dump"])
            [] OTHER -> Onward(o, [p EXCEPT !.pc = "apply"])
    /\ torn' = (torn \/ (o.act = "migrate" /\ power = "paused"))
    /\ UNCHANGED <<power, conf, live, exists, fresh, mirror, queue, calls, lost, faults>>

\* diskAttach, diskDetach and setvcpus: one command, for both definitions if the
\* guest runs, and only for the next boot if that fails.
CanApply(o) ==
    CASE o.act = "attach" -> conf[o.file] = None /\ <<o.file, Home>> \in exists
      [] o.act = "detach" -> conf[o.file] # None
      [] OTHER -> TRUE
Key(o) == IF o.act = "hotadd" THEN "setting" ELSE o.file
Value(o) ==
    CASE o.act = "attach" -> Home
      [] o.act = "detach" -> None
      [] OTHER -> 1
Apply(o) ==
    /\ At(o, "apply") /\ o.act \in {"attach", "detach", "hotadd"} /\ Answer(o)
    /\ \/ ~CanApply(o) /\ UNCHANGED <<conf, live>>
       \/ CanApply(o) /\ conf' = [conf EXCEPT ![Key(o)] = Value(o)] /\ UNCHANGED live
       \/ /\ CanApply(o) /\ o.act # "hotadd" /\ o.running /\ power = "on"
          /\ (o.act = "attach") = (live[o.file] = None)
          /\ conf' = [conf EXCEPT ![Key(o)] = Value(o)] /\ live' = [live EXCEPT ![Key(o)] = Value(o)]
    /\ UNCHANGED <<power, exists, fresh, mirror, queue, calls, lost, faults, torn>>

\* virsh start and destroy.
Bootable == \A f \in Files : conf[f] # None => <<f, conf[f]>> \in exists
Stop == power' = "off" /\ live' = NoDefinition /\ mirror' = [f \in Files |-> None]
CanPower(o) == IF o.act = "start" THEN power = "off" /\ Bootable ELSE power # "off"
PowerOp(o) ==
    /\ At(o, "apply") /\ o.act \in {"start", "poweroff"} /\ Answer(o)
    /\ \/ CanPower(o) /\ o.act = "start" /\ power' = "on" /\ live' = conf /\ UNCHANGED mirror
       \/ CanPower(o) /\ o.act = "poweroff" /\ Stop
       \/ ~CanPower(o) /\ UNCHANGED <<power, live, mirror>>
    /\ UNCHANGED <<conf, exists, fresh, queue, calls, lost, faults, torn>>

\* The copy holds what the file holds.
Copied(set, f, a, b) == IF <<f, a>> \in set THEN set \cup {<<f, b>>} ELSE set
Moved(set, f, a, b) == Copied(set, f, a, b) \ {<<f, a>>}

\* blockcopy: a mirror of the disk of a guest that runs.
BlockCopy(o) ==
    /\ At(o, "copy") /\ o.running
    /\ IF power # "off" /\ live[o.file] = o.from
       THEN /\ exists' = Copied(exists, o.file, o.from, o.to)
            /\ fresh' = Copied(fresh, o.file, o.from, o.to)
            /\ mirror' = [mirror EXCEPT ![o.file] = o.to]
            /\ Onward(o, [o EXCEPT !.pc = "pivot"])
       ELSE Answer(o) /\ UNCHANGED <<exists, fresh, mirror>>
    /\ UNCHANGED <<power, conf, live, queue, calls, lost, faults, torn>>

\* blockjob --pivot. If it fails the copy stays; where files are attached from
\* it would be taken for the disk.
Pivot(o) ==
    /\ At(o, "pivot")
    /\ IF mirror[o.file] = o.to
       THEN /\ live' = [live EXCEPT ![o.file] = o.to] /\ mirror' = [mirror EXCEPT ![o.file] = None]
            /\ Onward(o, [o EXCEPT !.pc = "dump"]) /\ UNCHANGED torn
       ELSE /\ Answer(o) /\ torn' = (torn \/ o.to = Home)
            /\ UNCHANGED <<live, mirror>>
    /\ UNCHANGED <<power, conf, exists, fresh, queue, calls, lost, faults>>

\* moveFile, of a machine that does not run: it may be paused.
MoveFile(o) ==
    /\ At(o, "copy") /\ ~o.running
    /\ IF <<o.file, o.from>> \in exists
       THEN /\ exists' = Moved(exists, o.file, o.from, o.to)
            /\ fresh' = Moved(fresh, o.file, o.from, o.to)
            /\ Onward(o, [o EXCEPT !.pc = "dump"])
       ELSE Answer(o) /\ UNCHANGED <<exists, fresh>>
    /\ UNCHANGED <<power, conf, live, mirror, queue, calls, lost, faults, torn>>

MoveBack(o) ==
    IF o.act = "migrate" /\ ~o.running
    THEN /\ exists' = Moved(exists, o.file, o.to, o.from)
         /\ fresh' = Moved(fresh, o.file, o.to, o.from)
    ELSE UNCHANGED <<exists, fresh>>

\* The definition is read, changed and written back: setDiskSource takes the
\* live one of a guest that runs. If it cannot be read, a file that was moved is
\* not moved back.
Dump(o) ==
    /\ At(o, "dump")
    /\ LET base == IF o.act = "migrate" /\ o.running THEN Live ELSE conf
       IN \/ /\ o.act = "migrate" /\ base[o.file] = None
             /\ Answer(o) /\ MoveBack(o) /\ UNCHANGED <<faults, torn>>
          \/ /\ ~(o.act = "migrate" /\ base[o.file] = None)
             /\ Onward(o, [o EXCEPT !.pc = "define", !.xml =
                    IF o.act = "migrate" THEN [base EXCEPT ![o.file] = o.to]
                    ELSE [base EXCEPT !["setting"] = 1]])
             /\ UNCHANGED <<exists, fresh, faults, torn>>
          \/ /\ Fault /\ Answer(o) /\ UNCHANGED <<exists, fresh>>
             /\ torn' = (torn \/ o.act = "migrate")
    /\ UNCHANGED <<power, conf, live, mirror, queue, calls, lost>>

Define(o) ==
    /\ At(o, "define") /\ Answer(o)
    /\ \/ /\ conf' = o.xml /\ UNCHANGED <<faults, torn>>
          /\ LET source == IF o.act = "migrate" /\ o.running THEN {<<o.file, o.from>>} ELSE {}
             IN exists' = exists \ source /\ fresh' = fresh \ source
       \/ /\ Fault /\ UNCHANGED conf /\ MoveBack(o)
          /\ torn' = (torn \/ (o.act = "migrate" /\ o.running))
    /\ UNCHANGED <<power, live, mirror, queue, calls, lost>>

-----------------------------------------------------------------------------
(* The guest, and libvirt.                                                 *)

\* Once it is torn it no longer matters which file has what.
Write(f) ==
    /\ power = "on" /\ live[f] # None /\ ~torn
    /\ fresh' = (fresh \ {<<f, p>> : p \in Pools}) \cup ({<<f, live[f]>>, <<f, mirror[f]>>} \cap exists)
    /\ UNCHANGED <<power, conf, live, exists, mirror, queue, ops, busy, calls, lost, faults, torn>>

ShutDown ==
    /\ power = "on" /\ Stop
    /\ UNCHANGED <<conf, exists, fresh, queue, ops, busy, calls, lost, faults, torn>>

\* qemu pauses the guest when a write fails; it is resumed by hand.
Pause ==
    /\ power = "on" /\ power' = "paused"
    /\ UNCHANGED <<conf, live, exists, fresh, mirror, queue, ops, busy, calls, lost, faults, torn>>
Resume ==
    /\ power = "paused" /\ power' = "on"
    /\ UNCHANGED <<conf, live, exists, fresh, mirror, queue, ops, busy, calls, lost, faults, torn>>

Step(o) ==
    \/ Begin(o) \/ Apply(o) \/ PowerOp(o) \/ BlockCopy(o) \/ Pivot(o) \/ MoveFile(o)
    \/ Dump(o) \/ Define(o)

Next ==
    \/ \E a \in Asked : Request(a)
    \/ Dispatch \/ LoseAnswer
    \/ \E o \in ops : Step(o)
    \/ \E f \in Files : Write(f)
    \/ ShutDown \/ Pause \/ Resume

Spec == Init /\ [][Next]_vars

-----------------------------------------------------------------------------
(* Properties.                                                             *)

\* A machine that is off, and that the node is not at, boots from files that
\* hold all its guest has written, wherever its disks have been moved and
\* whatever power and definitions did meanwhile (diskMigrate). What the code
\* leaves to a human (torn): an operation begun while the node was still at one
\* whose answer was lost, a file moved under a paused guest, a definition that
\* could not be written after the pivot, or not be read after the pivot or the
\* move, a pivot that failed and left its copy where files are attached from.
BootsLatest ==
    power = "off" /\ ops = {} /\ ~torn =>
        \A f \in Files : conf[f] # None => <<f, conf[f]>> \in fresh
=============================================================================
