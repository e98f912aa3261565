------------------------------ MODULE PublicIP ------------------------------
(***************************************************************************)
(* One public address (service/network/publicip): the requests that enter, *)
(* bind, migrate, unbind, remove and reload it, the repair of the platform *)
(* (service/ops/platformcheck), the executors, and the rules on the node.  *)
(* A request checks in one step and acts in the next. The tasks of one row *)
(* run one at a time, in order, and so do the repairs; the node's effect   *)
(* and the transaction that follows its answer are two steps.              *)
(***************************************************************************)
EXTENDS Naturals, Sequences, SequencesExt

CONSTANTS
    VMs,       \* machines of the node
    Requests,  \* handlers at work
    MaxCalls,  \* requests (bound)
    MaxFaults  \* answers lost, and commands that fail unnoticed (bound)

PublicIPAssumption == MaxCalls \in Nat /\ MaxFaults \in Nat

VARIABLES
    pooled,   \* the identifier of the address's row, or NoRow
    bound,    \* the status of that row is bound
    binding,  \* the binding of that row with no released_at, or NoBinding
    dnat,     \* the machines that DNAT rules of the address point at, in the order of the rules
    route,    \* the machine it is routed to, or Nobody
    tasks,    \* the tasks in flight, in order, by the row they are queued under, or Platform
    ops,      \* operations the node has got and not done
    req,      \* each request: where it is, and what it read
    calls, faults,
    stale     \* the node bound the address from what was not so any more (history)

vars == <<pooled, bound, binding, dnat, route, tasks, ops, req, calls, faults, stale>>
rows == <<pooled, bound, binding>>

NoRow == 0
Platform == 0
Queues == 0..(MaxCalls + 1)
Nobody == "nobody"
NoBinding == [vm |-> Nobody]
Idle == [pc |-> "idle"]
Modes == {"nat", "routed", "bridged"}

Init ==
    /\ pooled = 1 /\ bound = FALSE /\ binding = NoBinding /\ dnat = <<>> /\ route = Nobody
    /\ tasks = [q \in Queues |-> <<>>] /\ ops = {} /\ req = [r \in Requests |-> Idle]
    /\ calls = 0 /\ faults = 0 /\ stale = FALSE

-----------------------------------------------------------------------------
(* Requests: loadForBind, loadIP, activeBinding; then dispatch.            *)

Bind(to) == binding = NoBinding
Migrate(to) == binding # NoBinding /\ binding.vm # to
Unbind == binding # NoBinding
Delete == binding = NoBinding

Order(k, q, vm, m) == [kind |-> k, row |-> q, vm |-> vm, mode |-> m, no |-> calls + 1]
Asked ==
    {Order(k, pooled, vm, m) : k \in {"bind", "migrate"}, vm \in VMs, m \in Modes}
        \cup {Order(k, pooled, Nobody, "nat") : k \in {"unbind", "delete"}}
Check(r) ==
    /\ req[r] = Idle /\ calls < MaxCalls /\ calls' = calls + 1 /\ pooled # NoRow
    /\ \E o \in Asked :
        /\ \/ o.kind = "bind" /\ Bind(o.vm)
           \/ o.kind = "migrate" /\ Migrate(o.vm)
           \/ o.kind = "unbind" /\ Unbind
           \/ o.kind = "delete" /\ Delete
        /\ req' = [req EXCEPT ![r] = [pc |-> "act", order |-> o]]
    /\ UNCHANGED <<rows, dnat, route, tasks, ops, faults, stale>>

Queued(o) == [order |-> o, state |-> "queued"]
Dispatched(q) == tasks[q] # <<>> /\ Head(tasks[q]).state # "queued"

\* The row goes by its identifier; nobody reads a binding of a row that is gone.
\* (History: it goes while it is bound or being changed.)
RemoveRow(q) ==
    IF q # pooled THEN UNCHANGED <<rows, stale>>
    ELSE /\ pooled' = NoRow /\ bound' = FALSE /\ binding' = NoBinding
         /\ stale' = (stale \/ binding # NoBinding \/ Dispatched(q))
Act(r) ==
    /\ req[r] # Idle /\ req' = [req EXCEPT ![r] = Idle]
    /\ LET o == req[r].order IN
        IF o.kind = "delete" THEN RemoveRow(o.row) /\ UNCHANGED tasks
        ELSE tasks' = [tasks EXCEPT ![o.row] = Append(@, Queued(o))] /\ UNCHANGED <<rows, stale>>
    /\ UNCHANGED <<dnat, route, ops, calls, faults>>

\* A new row, with an identifier that no row had.
Create ==
    /\ pooled = NoRow /\ calls < MaxCalls /\ calls' = calls + 1
    /\ pooled' = calls + 2 /\ bound' = FALSE /\ binding' = NoBinding
    /\ UNCHANGED <<dnat, route, tasks, ops, req, faults, stale>>

\* activeBindings and the call of the node; repairItems and the task of the platform.
Again(k) == Order(k, pooled, binding.vm, binding.mode)
ReloadRules ==
    /\ calls < MaxCalls /\ calls' = calls + 1 /\ binding # NoBinding
    /\ ops' = ops \cup {Again("reload")}
    /\ UNCHANGED <<rows, dnat, route, tasks, req, faults, stale>>
Repair ==
    /\ calls < MaxCalls /\ calls' = calls + 1 /\ binding # NoBinding
    /\ tasks' = [tasks EXCEPT ![Platform] = Append(@, Queued(Again("repair")))]
    /\ UNCHANGED <<rows, dnat, route, ops, req, faults, stale>>

-----------------------------------------------------------------------------
(* publicIPChange; a reload and a repair bind what they are told.          *)

\* In NAT mode only the rule of the same target goes before it is added.
RulesAfter(o) ==
    IF o.kind # "unbind" /\ o.mode = "nat" THEN Append(Remove(dnat, o.vm), o.vm) ELSE <<>>
\* (Mutant: to unbind forgets the route.)
RouteAfter_Mutant(o) == IF o.kind = "unbind" THEN route ELSE IF o.mode = "routed" THEN o.vm ELSE Nobody
RouteAfter(o) == IF o.kind # "unbind" /\ o.mode = "routed" THEN o.vm ELSE Nobody

Perform(o) == dnat' = RulesAfter(o) /\ route' = RouteAfter(o)
\* A command fails, and nobody looks.
Overlooks(o) ==
    \/ dnat' = RulesAfter(o) /\ UNCHANGED route
    \/ UNCHANGED dnat /\ route' = RouteAfter(o)
\* The address of the machine is not known, or the route is not accepted, by when
\* the DNAT rules are gone.
Refuses(o) ==
    \/ o.kind # "unbind" /\ o.mode # "bridged" /\ UNCHANGED <<dnat, route>>
    \/ o.kind # "unbind" /\ o.mode = "routed" /\ dnat' = <<>> /\ UNCHANGED route

-----------------------------------------------------------------------------
(* ChangeExecutor.Run, and the executor of the platform's repairs.         *)

Queue(o) == IF o.kind = "repair" THEN Platform ELSE o.row
Waited(o) == Dispatched(Queue(o)) /\ Head(tasks[Queue(o)]).order = o
Goes(s, to) == <<[order |-> Head(s).order, state |-> to]>> \o Tail(s)

Dispatch(q) ==
    /\ tasks[q] # <<>> /\ ~Dispatched(q) /\ ops' = ops \cup {Head(tasks[q]).order}
    /\ tasks' = [tasks EXCEPT ![q] = Goes(@, "sent")]
    /\ UNCHANGED <<rows, dnat, route, req, calls, faults, stale>>

\* A reload or a repair works from a binding that is not there any more, or that
\* a change is about to end; a change works for a row that is gone. (History.)
Outdated(o) ==
    \/ o.kind \in {"reload", "repair"}
       /\ (binding # [vm |-> o.vm, mode |-> o.mode] \/ Dispatched(pooled))
    \/ o.kind \in {"bind", "migrate"} /\ o.row # pooled
Answered(o, s) == tasks' = IF Waited(o) THEN [tasks EXCEPT ![Queue(o)] = s] ELSE tasks
Work(o) ==
    /\ ops' = ops \ {o}
    /\ \/ /\ Perform(o) /\ stale' = (stale \/ Outdated(o))
          /\ Answered(o, Goes(tasks[Queue(o)], "done"))
       \/ Refuses(o) /\ UNCHANGED stale /\ Answered(o, Tail(tasks[Queue(o)]))
    /\ UNCHANGED <<rows, req, calls, faults>>
Overlook(o) ==
    /\ ops' = ops \ {o} /\ faults < MaxFaults /\ faults' = faults + 1
    /\ Overlooks(o) /\ Answered(o, Goes(tasks[Queue(o)], "done"))
    /\ UNCHANGED <<rows, req, calls, stale>>

\* bindTx and unbindTx, one transaction each, by the identifier of the row.
BindTx(o) ==
    IF o.row = pooled THEN binding' = [vm |-> o.vm, mode |-> o.mode] /\ bound' = TRUE
    ELSE UNCHANGED <<binding, bound>>
UnbindTx(o) ==
    IF o.row = pooled THEN binding' = NoBinding /\ bound' = FALSE
    ELSE UNCHANGED <<binding, bound>>
Finish(q) ==
    /\ tasks[q] # <<>> /\ Head(tasks[q]).state = "done" /\ tasks' = [tasks EXCEPT ![q] = Tail(@)]
    /\ LET o == Head(tasks[q]).order IN
        \/ o.kind \in {"bind", "migrate"} /\ BindTx(o)
        \/ o.kind = "unbind" /\ UnbindTx(o)
        \/ o.kind = "repair" /\ UNCHANGED <<binding, bound>>
    /\ UNCHANGED <<pooled, dnat, route, ops, req, calls, faults, stale>>

\* The answer is lost, or the write after it fails.
LoseAnswer(q) ==
    /\ Dispatched(q) /\ faults < MaxFaults /\ faults' = faults + 1
    /\ tasks' = [tasks EXCEPT ![q] = Tail(@)]
    /\ UNCHANGED <<rows, dnat, route, ops, req, calls, stale>>

Next ==
    \/ \E r \in Requests : Check(r) \/ Act(r)
    \/ Create \/ ReloadRules \/ Repair
    \/ \E q \in Queues : Dispatch(q) \/ Finish(q) \/ LoseAnswer(q)
    \/ \E o \in ops : Work(o) \/ Overlook(o)

Spec == Init /\ [][Next]_vars

-----------------------------------------------------------------------------
(* Properties.                                                             *)

Quiet == ops = {} /\ (\A q \in Queues : ~Dispatched(q)) /\ faults = 0 /\ ~stale

\* An address that is shown as free leads nowhere, however many bindings, moves,
\* modes, reloads and repairs came before, and whether or not it was removed and
\* entered again: only a lost answer or a failed command leaves something behind, a
\* reload or a repair that a change of the address overtook or overlapped, or a
\* binding of a row that was removed meanwhile (publicIPChange, bindTx, unbindTx,
\* Delete).
FreeLeadsNowhere == Quiet /\ pooled # NoRow /\ ~bound => dnat = <<>> /\ route = Nobody
=============================================================================
