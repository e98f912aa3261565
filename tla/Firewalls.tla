----------------------------- MODULE Firewalls -----------------------------
(***************************************************************************)
(* The two firewalls that hang on INPUT of one node: the node's            *)
(* (service/network/firewall, which calls the node at once) and the host's *)
(* (service/network/hostfirewall, which goes through the task queue). Each *)
(* has a policy row, its rules and a chain on the node; a rollback of      *)
(* either opens both. Handlers on the node overlap and make one command a  *)
(* step. The tasks of the host's firewall run one at a time, in order.     *)
(***************************************************************************)
EXTENDS Naturals, Sequences, SequencesExt

CONSTANTS
    Requests,   \* handlers at work
    MaxCalls,   \* requests (bound)
    MaxFaults   \* lost answers, failed commands, restarts of the agent (bound)

FirewallAssumption == MaxCalls \in Nat /\ MaxFaults \in Nat

VARIABLES
    enabled, deny,  \* the policy of each layer
    version,        \* its version
    rules,          \* each layer's rules, numbered by the request that made them
    applied,        \* those of them with Applied
    made,           \* the layers whose chain exists on the node
    chain,          \* the rules in it
    hooked,         \* how many jumps to it INPUT has
    drops,          \* INPUT drops what no rule accepts
    tasks,          \* tasks of the host's firewall, in order
    ops,            \* handlers at work on the node
    req,            \* each request: where it is, and what it read
    calls, faults,
    opening,        \* rollbacks on the node with no apply under way since they began, whose commands
                    \* did what they are for (history)
    twice,          \* layers that got a jump when they had one, until they have none (history)
    opened          \* one of them has ended, and no apply was accepted since (history)

vars == <<enabled, deny, version, rules, applied, made, chain, hooked, drops, tasks, ops, req,
          calls, faults, opening, twice, opened>>
config == <<enabled, deny, version, rules>>
input == <<made, chain, hooked, drops, twice>>
history == <<opening, opened>>

Layers == {"node", "host"}
Idle == [pc |-> "idle"]

\* Nothing was applied yet; the policies were edited before.
Init ==
    /\ enabled \in [Layers -> BOOLEAN] /\ deny = [l \in Layers |-> TRUE]
    /\ version = [l \in Layers |-> 0] /\ rules = [l \in Layers |-> {}]
    /\ applied = [l \in Layers |-> {}] /\ chain = [l \in Layers |-> {}]
    /\ made = {} /\ hooked = [l \in Layers |-> 0] /\ drops = FALSE /\ tasks = <<>> /\ ops = {}
    /\ req = [r \in Requests |-> Idle] /\ calls = 0 /\ faults = 0
    /\ opening = {} /\ twice = {} /\ opened = TRUE

-----------------------------------------------------------------------------
(* Requests that only change the rows.                                     *)

Begin(r, q) == req[r] = Idle /\ calls < MaxCalls /\ calls' = calls + 1 /\ req' = [req EXCEPT ![r] = q]
Goto(r, pc) == req' = [req EXCEPT ![r] = IF pc = "idle" THEN Idle ELSE [@ EXCEPT !.pc = pc]]
Bump(l) == version' = [version EXCEPT ![l] = @ + 1]

UpdatePolicy(r, l) ==
    /\ Begin(r, Idle) /\ Bump(l)
    /\ \/ \E on \in BOOLEAN : enabled' = [enabled EXCEPT ![l] = on] /\ UNCHANGED deny
       \/ \E d \in BOOLEAN : deny' = [deny EXCEPT ![l] = d] /\ UNCHANGED enabled
    /\ UNCHANGED <<rules, applied, input, tasks, ops, faults, history>>

\* The rule first, the version after it.
CreateRule(r, l) ==
    /\ Begin(r, [pc |-> "bump", layer |-> l]) /\ rules' = [rules EXCEPT ![l] = @ \cup {calls + 1}]
    /\ UNCHANGED <<enabled, deny, version, applied, input, tasks, ops, faults, history>>
DeleteRule(r, l) ==
    /\ Begin(r, [pc |-> "bump", layer |-> l])
    /\ \E n \in rules[l] : rules' = [rules EXCEPT ![l] = @ \ {n}] /\ applied' = [applied EXCEPT ![l] = @ \ {n}]
    /\ UNCHANGED <<enabled, deny, version, input, tasks, ops, faults, history>>
BumpVersion(r) ==
    /\ req[r].pc = "bump" /\ Goto(r, "idle") /\ Bump(req[r].layer)
    /\ UNCHANGED <<enabled, deny, rules, applied, input, tasks, ops, calls, faults, history>>

-----------------------------------------------------------------------------
(* Apply and Rollback.                                                     *)

\* What the handlers do on the node, command by command: firewallApply and
\* hostFirewallApply, which never touches the default; firewallRollback opens both
\* layers. (Mutant: only the one of the request.)
FirewallApply(on) == IF on THEN <<"make", "flush", "fill", "unhook", "hook", "policy">>
                     ELSE <<"make", "flush", "fill", "unhook", "accept">>
HostFirewallApply(on) == IF on THEN <<"make", "flush", "fill", "unhook", "hook">>
                         ELSE <<"make", "flush", "fill", "unhook">>
FirewallRollback_OwnLayer(l) == <<<<"unhook", l>>, <<"flush", l>>, <<"remove", l>>, <<"accept", l>>>>
FirewallRollback(l) ==
    <<<<"unhook", "node">>, <<"flush", "node">>, <<"remove", "node">>,
      <<"unhook", "host">>, <<"flush", "host">>, <<"remove", "host">>, <<"accept", l>>>>

On(l, commands) == [i \in DOMAIN commands |-> <<commands[i], l>>]
Handler(kind, l, on) ==
    CASE kind = "rollback" -> FirewallRollback(l)
      [] kind = "apply" /\ l = "node" -> On(l, FirewallApply(on))
      [] OTHER -> On(l, HostFirewallApply(on))
Order(kind, l, no, on, d, spec) ==
    [kind |-> kind, layer |-> l, no |-> no, on |-> on, deny |-> d, spec |-> spec, todo |-> Handler(kind, l, on)]

\* Of the node: the rows are read, the rules after them, then the node is called.
\* Of the host: GetPolicy reads them so, and a task carries what it read if the
\* version is that of the preview.
Apply(r, l) ==
    /\ Begin(r, [pc |-> "rules", layer |-> l, no |-> calls + 1, on |-> enabled[l], deny |-> deny[l]])
    /\ UNCHANGED <<config, applied, input, tasks, ops, faults, history>>
Accept(r) ==
    /\ req[r].pc = "rules"
    /\ LET q == req[r]
           order == Order("apply", q.layer, q.no, q.on, q.deny, rules[q.layer])
       IN IF q.layer = "node" THEN ops' = ops \cup {order} /\ Goto(r, "wait") /\ UNCHANGED tasks
          ELSE tasks' = Append(tasks, [order |-> order, sent |-> FALSE]) /\ Goto(r, "idle") /\ UNCHANGED ops
    /\ opening' = {} /\ opened' = FALSE
    /\ UNCHANGED <<config, applied, input, calls, faults>>

\* (History: whether a rollback begins with no apply under way.)
ApplyUnderWay ==
    \/ \E o \in ops : o.kind = "apply"
    \/ \E i \in DOMAIN tasks : tasks[i].order.kind = "apply"
Opening(o) == IF o.kind = "rollback" /\ ~ApplyUnderWay THEN opening \cup {o.no} ELSE opening

\* Rollback asks for nothing: no version, no confirmation. That of the host marks
\* the row when the task is enqueued.
Rollback(r, l) ==
    /\ LET order == Order("rollback", l, calls + 1, FALSE, FALSE, {})
       IN IF l = "node"
          THEN /\ Begin(r, [pc |-> "wait", layer |-> l, no |-> calls + 1])
               /\ ops' = ops \cup {order} /\ opening' = Opening(order) /\ UNCHANGED <<tasks, enabled>>
          ELSE /\ Begin(r, Idle) /\ tasks' = Append(tasks, [order |-> order, sent |-> FALSE])
               /\ enabled' = [enabled EXCEPT ![l] = FALSE] /\ UNCHANGED <<ops, opening>>
    /\ UNCHANGED <<deny, version, rules, applied, input, faults, opened>>

\* What is written when the node has answered: all the rules of the node are
\* marked, those of another request too; a rollback marks none.
Done(o) ==
    /\ applied' = IF o.kind = "apply" THEN [applied EXCEPT ![o.layer] = rules[o.layer]] ELSE applied
    /\ enabled' = IF o.kind = "rollback" /\ o.layer = "node" THEN [enabled EXCEPT !["node"] = FALSE] ELSE enabled
    /\ version' = IF o.kind = "rollback" /\ o.layer = "node" THEN [version EXCEPT !["node"] = @ + 1] ELSE version
Write(r) ==
    /\ req[r].pc = "write" /\ Goto(r, "idle") /\ Done(req[r].order)
    /\ UNCHANGED <<deny, rules, input, tasks, ops, calls, faults, history>>

\* Executor.Run: the oldest task is sent to the node; it ends with the answer, or
\* without one.
Dispatch ==
    /\ tasks # <<>> /\ ~Head(tasks).sent
    /\ tasks' = <<[order |-> Head(tasks).order, sent |-> TRUE]>> \o Tail(tasks)
    /\ ops' = ops \cup {Head(tasks).order} /\ opening' = Opening(Head(tasks).order)
    /\ UNCHANGED <<config, applied, input, req, calls, faults, opened>>

Waits(r) == req[r].pc = "wait"
Asked(o) == tasks # <<>> /\ Head(tasks).sent /\ Head(tasks).order.no = o.no
LoseAnswer ==
    /\ faults < MaxFaults /\ faults' = faults + 1
    /\ \/ \E r \in Requests : Waits(r) /\ Goto(r, "idle") /\ UNCHANGED tasks
       \/ tasks # <<>> /\ Head(tasks).sent /\ tasks' = Tail(tasks) /\ UNCHANGED req
    /\ UNCHANGED <<config, applied, input, ops, calls, history>>

-----------------------------------------------------------------------------
(* The node.                                                               *)

\* iptables -N, -F, -A, -D, -I, -P and -X. A chain takes rules when it exists, and
\* goes when it is empty and nothing jumps to it; -D removes one jump, -I adds one.
Perform(o, c, l) ==
    LET left == CASE c = "hook" -> hooked[l] + 1
                  [] c = "unhook" /\ hooked[l] > 0 -> hooked[l] - 1
                  [] OTHER -> hooked[l]
    IN /\ made' = CASE c = "make" -> made \cup {l}
                     [] c = "remove" /\ chain[l] = {} /\ hooked[l] = 0 -> made \ {l}
                     [] OTHER -> made
       /\ chain' = [chain EXCEPT ![l] = CASE c = "flush" -> {}
                                          [] c = "fill" /\ l \in made -> @ \cup o.spec
                                          [] OTHER -> @]
       /\ hooked' = [hooked EXCEPT ![l] = left]
       /\ twice' = IF left = 0 THEN twice \ {l} ELSE IF left > 1 THEN twice \cup {l} ELSE twice
       /\ drops' = CASE c = "policy" -> o.deny [] c = "accept" -> FALSE [] OTHER -> drops

\* The last command of a handler is answered: the request writes, and the task
\* does at once.
Answer(o) ==
    /\ req' = [r \in Requests |-> IF Waits(r) /\ req[r].no = o.no
                                  THEN [pc |-> "write", layer |-> o.layer, order |-> o] ELSE req[r]]
    /\ IF Asked(o) THEN tasks' = Tail(tasks) /\ Done(o)
       ELSE UNCHANGED <<tasks, applied, enabled, version>>

\* Or it ends with the failure of a command: nothing is written.
Abort(o) ==
    /\ ops' = ops \ {o}
    /\ req' = [r \in Requests |-> IF Waits(r) /\ req[r].no = o.no THEN Idle ELSE req[r]]
    /\ tasks' = IF Asked(o) THEN Tail(tasks) ELSE tasks
    /\ UNCHANGED <<applied, enabled, version, history>>

\* (History: standing are the rollbacks that still do what they are for.)
Advance(o, standing) ==
    IF Len(o.todo) = 1
    THEN /\ ops' = ops \ {o} /\ Answer(o)
         /\ opened' = (opened \/ o.no \in standing) /\ opening' = standing \ {o.no}
    ELSE /\ ops' = (ops \ {o}) \cup {[o EXCEPT !.todo = Tail(@)]} /\ opening' = standing
         /\ UNCHANGED <<tasks, req, applied, enabled, version, opened>>

\* There is nothing to jump to: a rollback has removed the chain meanwhile.
NoChain(o) == Head(o.todo)[1] = "hook" /\ Head(o.todo)[2] \notin made
Work(o) ==
    /\ ~NoChain(o) /\ Perform(o, Head(o.todo)[1], Head(o.todo)[2]) /\ Advance(o, opening)
    /\ UNCHANGED <<deny, rules, calls, faults>>

\* A command fails. Of an apply the jump and the default are looked at; everything
\* else is passed over, and of a rollback everything is.
CommandFails(o) ==
    /\ IF NoChain(o) THEN UNCHANGED faults ELSE faults < MaxFaults /\ faults' = faults + 1
    /\ IF Head(o.todo)[1] \in {"hook", "policy"} THEN Abort(o)
       ELSE Advance(o, IF Head(o.todo)[1] \in {"unhook", "accept"} THEN opening \ {o.no} ELSE opening)
    /\ UNCHANGED <<deny, rules, input, calls>>

\* The agent restarts: its handlers are gone, and so are their answers.
Restart ==
    /\ faults < MaxFaults /\ faults' = faults + 1 /\ ops # {} /\ ops' = {}
    /\ req' = [r \in Requests |-> IF Waits(r) THEN Idle ELSE req[r]]
    /\ tasks' = IF tasks # <<>> /\ Head(tasks).sent THEN Tail(tasks) ELSE tasks
    /\ UNCHANGED <<config, applied, input, calls, history>>

Next ==
    \/ \E r \in Requests, l \in Layers :
        UpdatePolicy(r, l) \/ CreateRule(r, l) \/ DeleteRule(r, l) \/ Apply(r, l) \/ Rollback(r, l)
    \/ \E r \in Requests : BumpVersion(r) \/ Accept(r) \/ Write(r)
    \/ Dispatch \/ LoseAnswer \/ Restart
    \/ \E o \in ops : Work(o) \/ CommandFails(o)

Spec == Init /\ [][Next]_vars

-----------------------------------------------------------------------------
(* Properties.                                                             *)

\* The way out works: once a rollback of either layer has ended with no apply
\* under way, nothing filters until an apply is accepted again, whatever lay on
\* INPUT before (comment in firewallRollback: clearing one layer only leaves the
\* other one filtering). Not so, of the code's making, when INPUT had two jumps to
\* one chain, as overlapping applies of a layer leave it, of which a rollback
\* removes one; nor when a command of the rollback failed, which it passes over.
RollbackOpens == opened => ~drops /\ \A l \in Layers : hooked[l] = 0 \/ l \in twice
=============================================================================
