------------------------------ MODULE Watchdog ------------------------------
(***************************************************************************)
(* Changes of a node's network that are undone unless somebody confirms    *)
(* them in time: port mirrors (service/network/portmirror) and physical    *)
(* ports put into a bridge (service/network/bridge). The node undoes, by a *)
(* timer of its own; the control plane only follows (reconcile.Loop). No   *)
(* queue is between them: requests overlap, and so do their handlers on    *)
(* the node. A step of a handler is one command, or the file it touches.   *)
(***************************************************************************)
EXTENDS Naturals, Sequences

CONSTANTS
    Kind,       \* "mirror" or "uplink"
    Ports,      \* what may be attached: the mirror, or ports for the bridge
    Requests,   \* handlers at work
    MaxCalls,   \* requests (bound)
    MaxFaults   \* restarts of the agent, answers lost, failed commands (bound)

ASSUME WatchdogAssumption ==
    Kind \in {"mirror", "uplink"} /\ MaxCalls \in Nat /\ MaxFaults \in Nat

VARIABLES
    row,       \* the port the row shows (enabled, uplink_if) and whether it awaits confirmation
    attached,  \* how often each port is attached on the node (a mirror: rows of its name in OVS)
    confirm,   \* the confirm file is there
    saved,     \* the file with the deadline is there (mirrors only)
    timers,    \* timers of the agent that run
    detaching, \* timers that found no confirmation and are about to detach
    forgetting, \* timers that are done but for the file with the deadline
    up,        \* the agent runs
    ops,       \* handlers at work on the node: what they have to do, and what they saw
    req,       \* each request: what it waits for
    calls, faults,
    kept,      \* ports that somebody confirmed, or had repaired, since they were attached (history)
    robbed,    \* ports whose deadline another handler or timer removed (history)
    torn       \* ports that a restart of the agent, or a failed command of a timer, left to themselves (history)

vars == <<row, attached, confirm, saved, timers, detaching, forgetting, up, ops, req, calls,
          faults, kept, robbed, torn>>
files == <<confirm, saved>>
due == <<timers, detaching, forgetting>>
history == <<kept, robbed, torn>>
agent == <<attached, files, due, history>>

NoPort == "no port"
Off == [port |-> NoPort, waiting |-> FALSE]
Idle == [pc |-> "idle"]
None == [p \in Ports |-> 0]

Init ==
    /\ row = Off /\ attached = None /\ confirm = FALSE /\ saved = FALSE
    /\ timers = None /\ detaching = None /\ forgetting = None /\ up = TRUE /\ ops = {}
    /\ req = [r \in Requests |-> Idle] /\ calls = 0 /\ faults = 0
    /\ kept = {} /\ robbed = {} /\ torn = {}

-----------------------------------------------------------------------------
(* What the handlers on the node do, step by step.                         *)

\* portMirrorEnable; with watchdog_seconds < 0 it repairs (platformRepair).
\* (Mutant: it arms the watchdog before there is a mirror.)
PortMirrorEnable_ArmFirst == <<"look", "unconfirm", "arm", "attach">>
PortMirrorEnable == <<"look", "attach", "unconfirm", "arm">>
PortMirrorRepair == <<"look", "attach", "unconfirm">>
PortMirrorDisable == <<"detach", "unconfirm">>
PortMirrorConfirm == <<"confirm", "forget">>
\* networkUplinkAttach: the watchdog is armed first. networkUplinkDetach.
NetworkUplinkAttach == <<"unconfirm", "arm", "attach">>
NetworkUplinkDetach == <<"detach">>

Handler(k) ==
    CASE k = "enable" -> IF Kind = "mirror" THEN PortMirrorEnable ELSE NetworkUplinkAttach
      [] k = "disable" -> IF Kind = "mirror" THEN PortMirrorDisable ELSE NetworkUplinkDetach
      [] k = "repair" -> PortMirrorRepair
      [] OTHER -> IF Kind = "mirror" THEN PortMirrorConfirm ELSE <<"confirm">>

-----------------------------------------------------------------------------
(* The control plane. A request reads the row, has the node work, writes.  *)

\* Service.Enable of a mirror, AttachUplink of a bridge.
EnableMirror == Kind = "mirror" /\ row.port = NoPort
AttachUplink == Kind = "uplink" /\ ~row.waiting
Confirm == row.waiting          \* Confirm, ConfirmUplink
Disable == row.port # NoPort    \* Disable, DetachUplink
\* Service.Repair of platformcheck: what is enabled is sent again, by a task.
RepairMirror == Kind = "mirror" /\ row.port # NoPort

Accepts(k) ==
    \/ k = "enable" /\ (EnableMirror \/ AttachUplink)
    \/ k = "confirm" /\ Confirm
    \/ k = "disable" /\ Disable
    \/ k = "repair" /\ RepairMirror

Arrive(r) ==
    /\ req[r] = Idle /\ calls < MaxCalls /\ calls' = calls + 1
    /\ \E k \in {"enable", "confirm", "disable", "repair"}, p \in Ports :
        /\ Accepts(k) /\ (k # "enable" => p = row.port)
        /\ req' = [req EXCEPT ![r] = [pc |-> "send", kind |-> k, port |-> p, no |-> calls + 1]]
    /\ UNCHANGED <<row, agent, up, ops, faults>>

Send(r) ==
    /\ req[r].pc = "send"
    /\ IF up THEN /\ ops' = ops \cup {[no |-> req[r].no, kind |-> req[r].kind, port |-> req[r].port,
                                       todo |-> Handler(req[r].kind), seen |-> FALSE]}
                  /\ req' = [req EXCEPT ![r].pc = "wait"]
       ELSE req' = [req EXCEPT ![r] = Idle] /\ UNCHANGED ops
    /\ UNCHANGED <<row, agent, up, calls, faults>>

\* The answer does not come, or the write after it fails.
GiveUp(r) ==
    /\ req[r].pc \in {"wait", "write"} /\ faults < MaxFaults /\ faults' = faults + 1
    /\ req' = [req EXCEPT ![r] = Idle]
    /\ UNCHANGED <<row, agent, up, ops, calls>>

Write(r) ==
    /\ req[r].pc = "write" /\ req' = [req EXCEPT ![r] = Idle]
    /\ LET k == req[r].kind
       IN row' = CASE k = "enable" -> [port |-> req[r].port, waiting |-> TRUE]
                   [] k = "confirm" -> [row EXCEPT !.waiting = FALSE]
                   [] k = "disable" -> Off
                   [] OTHER -> row
    /\ UNCHANGED <<agent, up, ops, calls, faults>>

\* Loop.RunOnce, and Reconcile of either service: watchdog_until of the row has
\* passed. Windows differ in length, so it may have when no timer has run out yet.
Reconcile ==
    /\ row.waiting /\ row' = Off
    /\ UNCHANGED <<agent, up, ops, req, calls, faults>>

-----------------------------------------------------------------------------
(* The node.                                                               *)

\* mirrorRowExists: a name that two rows have is not found either.
Found(p) == attached[p] = 1

\* ensureMirror: what was not found is created. An uplink has one master.
Attach(o) ==
    /\ attached' = [attached EXCEPT ![o.port] = IF o.seen \/ Kind = "uplink" THEN 1 ELSE @ + 1]
    /\ torn' = torn \ {o.port}
    /\ kept' = IF o.kind = "repair" THEN kept \cup {o.port} ELSE kept \ {o.port}
    /\ UNCHANGED <<files, due, robbed>>

\* What was confirmed before does not count.
Unconfirm == confirm' = FALSE /\ UNCHANGED <<attached, saved, due, history>>

\* armMirrorWatchdog and armUplinkWatchdog.
Arm(o) ==
    /\ saved' = (Kind = "mirror") /\ robbed' = robbed \ {o.port}
    /\ timers' = [timers EXCEPT ![o.port] = @ + 1]
    /\ UNCHANGED <<attached, confirm, detaching, forgetting, kept, torn>>

ConfirmOnNode ==
    /\ confirm' = TRUE /\ kept' = kept \cup {p \in Ports : attached[p] > 0}
    /\ UNCHANGED <<attached, saved, due, robbed, torn>>

\* The file with the deadline goes, whoever wrote it last.
Forget ==
    /\ saved' = FALSE
    /\ robbed' = robbed \cup (IF saved THEN {p \in Ports : attached[p] > 0 /\ p \notin kept} ELSE {})
    /\ UNCHANGED <<attached, confirm, kept, torn>>

\* detachMirror; `get` fails on a name that two rows have, and nothing is detached.
Detach(p) ==
    IF Found(p) THEN /\ attached' = [attached EXCEPT ![p] = 0]
                     /\ kept' = kept \ {p} /\ robbed' = robbed \ {p} /\ torn' = torn \ {p}
    ELSE UNCHANGED <<attached, history>>

Perform(o) ==
    CASE Head(o.todo) = "look" -> UNCHANGED agent
      [] Head(o.todo) = "attach" -> Attach(o)
      [] Head(o.todo) = "arm" -> Arm(o)
      [] Head(o.todo) = "confirm" -> ConfirmOnNode
      [] Head(o.todo) = "forget" -> Forget /\ UNCHANGED due
      [] Head(o.todo) = "detach" -> Detach(o.port) /\ UNCHANGED <<files, due>>
      [] OTHER -> Unconfirm

Answer(o, pc) == req' = [r \in Requests |->
    IF req[r] # Idle /\ req[r].no = o.no /\ req[r].pc = "wait"
    THEN IF pc = "idle" THEN Idle ELSE [req[r] EXCEPT !.pc = pc] ELSE req[r]]

\* The row that was found is there no longer, or no longer alone: `set` fails.
Missed(o) == Head(o.todo) = "attach" /\ o.seen /\ ~Found(o.port)

Rest(o) == [o EXCEPT !.todo = Tail(o.todo), !.seen = IF Head(o.todo) = "look" THEN Found(o.port) ELSE @]
Work(o) ==
    /\ ~Missed(o) /\ Perform(o)
    /\ IF Len(o.todo) = 1 THEN ops' = ops \ {o} /\ Answer(o, "write")
       ELSE ops' = (ops \ {o}) \cup {Rest(o)} /\ UNCHANGED req
    /\ UNCHANGED <<row, up, calls, faults>>

\* The command fails; armUplinkWatchdog's cancel stops its timer and writes the
\* confirm file.
AttachFails(o) ==
    /\ Head(o.todo) = "attach"
    /\ IF Missed(o) THEN UNCHANGED faults ELSE faults < MaxFaults /\ faults' = faults + 1
    /\ ops' = ops \ {o} /\ Answer(o, "idle")
    /\ IF Kind = "uplink"
       THEN /\ timers' = [timers EXCEPT ![o.port] = IF @ > 0 THEN @ - 1 ELSE 0] /\ confirm' = TRUE
            /\ Detach(o.port) /\ UNCHANGED <<saved, detaching, forgetting>>
       ELSE UNCHANGED agent
    /\ UNCHANGED <<row, up, calls>>

\* fireMirrorWatchdog, and the function armUplinkWatchdog schedules: a timer looks
\* for the confirm file,
Fire(p) ==
    /\ timers[p] > 0 /\ timers' = [timers EXCEPT ![p] = @ - 1]
    /\ IF confirm THEN forgetting' = [forgetting EXCEPT ![p] = @ + 1] /\ UNCHANGED detaching
       ELSE detaching' = [detaching EXCEPT ![p] = @ + 1] /\ UNCHANGED forgetting
    /\ UNCHANGED <<row, attached, files, up, ops, req, calls, faults, history>>

\* detaches, if the command does not fail,
Undo(p) ==
    /\ detaching[p] > 0 /\ detaching' = [detaching EXCEPT ![p] = @ - 1]
    /\ forgetting' = [forgetting EXCEPT ![p] = @ + 1]
    /\ \/ Detach(p) /\ UNCHANGED faults
       \/ /\ faults < MaxFaults /\ faults' = faults + 1
          /\ torn' = torn \cup {p} /\ UNCHANGED <<attached, kept, robbed>>
    /\ UNCHANGED <<row, files, timers, up, ops, req, calls>>

\* and removes the file with the deadline in any case.
Done(p) ==
    /\ forgetting[p] > 0 /\ forgetting' = [forgetting EXCEPT ![p] = @ - 1] /\ Forget
    /\ UNCHANGED <<row, timers, detaching, up, ops, req, calls, faults>>

\* The agent stops: timers and handlers are gone, what is on disk stays.
Stop ==
    /\ up /\ faults < MaxFaults /\ faults' = faults + 1 /\ up' = FALSE
    /\ timers' = None /\ detaching' = None /\ forgetting' = None /\ ops' = {}
    /\ torn' = torn \cup robbed \cup {o.port : o \in {q \in ops : q.kind = "enable"}} /\ robbed' = {}
    /\ req' = [r \in Requests |-> IF req[r] # Idle /\ req[r].pc = "wait" THEN Idle ELSE req[r]]
    /\ UNCHANGED <<row, attached, files, calls, kept>>

\* Daemon.Run: rearmMirrorWatchdogs.
Rearm == IF saved THEN [p \in Ports |-> 1] ELSE None
Start ==
    /\ ~up /\ up' = TRUE /\ timers' = Rearm
    /\ UNCHANGED <<row, attached, files, detaching, forgetting, ops, req, calls, faults, history>>

Next ==
    \/ \E r \in Requests : Arrive(r) \/ Send(r) \/ GiveUp(r) \/ Write(r)
    \/ Reconcile
    \/ \E o \in ops : Work(o) \/ AttachFails(o)
    \/ \E p \in Ports : Fire(p) \/ Undo(p) \/ Done(p)
    \/ Stop \/ Start

Spec == Init /\ [][Next]_vars

-----------------------------------------------------------------------------
(* Properties.                                                             *)

TypeOK ==
    /\ row \in [port : Ports \cup {NoPort}, waiting : BOOLEAN]
    /\ {attached, timers, detaching, forgetting} \subseteq [Ports -> Nat]
    /\ confirm \in BOOLEAN /\ saved \in BOOLEAN /\ up \in BOOLEAN
    /\ calls \in Nat /\ faults \in Nat
    /\ kept \subseteq Ports /\ robbed \subseteq Ports /\ torn \subseteq Ports

\* What is attached and was confirmed by nobody is under a watchdog, or will be:
\* a timer that runs or is detaching, the handler that has it to arm, or the file
\* from which the agent arms it when it starts (comments of Service.Enable and
\* mirrorWDFile: no window without one). Three ways out, each of the code's making:
\* two rows of one name, which no command detaches; a restart in the middle of the
\* handler, or after another handler or timer removed the newer deadline; and a
\* command of the watchdog that failed.
Arming(p) == \E o \in ops : o.kind = "enable" /\ o.port = p /\ \E i \in DOMAIN o.todo : o.todo[i] = "arm"
Guarded ==
    \A p \in Ports : Found(p) =>
        p \in kept \cup torn \/ timers[p] + detaching[p] > 0 \/ Arming(p) \/ (~up /\ saved)
=============================================================================
