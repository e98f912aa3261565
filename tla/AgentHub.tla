------------------------------ MODULE AgentHub ------------------------------
(***************************************************************************)
(* The control-plane end of the agent channel (src/internal/agent/hub) for *)
(* one node: Execute calls, the registry of connections, the goroutines of *)
(* the Channel RPC, and the agent's session loop that dials, executes and  *)
(* answers (src/internal/nodeagent/daemon.go).                             *)
(*                                                                         *)
(* h.mu and c.mu are held over channel sends in closeAll and attach, so    *)
(* both locks and the one-place buffer "done" of a call are state; every   *)
(* other critical section is one step guarded by the lock being free.      *)
(***************************************************************************)
EXTENDS Naturals, Sequences, FiniteSets

CONSTANTS
    Conns,       \* connections 1..n in the order the agent dials them (bound)
    Ops,         \* Execute calls
    Cancellable, \* the calls whose context can end
    OutboxCap    \* capacity of conn.outbox (32 in the code)

ASSUME HubAssumption ==
    /\ Conns \subseteq Nat \ {0} /\ IsFiniteSet(Conns)
    /\ Cancellable \subseteq Ops
    /\ OutboxCap \in Nat \ {0}

VARIABLES
    reg,       \* Hub.conns[node]
    hmu,       \* holder of Hub.mu: a connection whose attach is in closeAll, or NoConn
    cmu,       \* holder of each conn.mu: the connection whose goroutine runs closeAll on it
    closed,    \* conn.closed
    pending,   \* conn.pending
    toClose,   \* calls closeAll has still to answer on each connection
    outbox,    \* conn.outbox
    ch,        \* where the Channel goroutine of each connection is
    pc, at,    \* where each Execute call is, and the connection it found
    done,      \* its one-place channel: the agent.Result in it
    res,       \* what it returned: the Success of a Result, or an error
    ctx,       \* calls whose context has ended
    agent,     \* the connection of the agent's session, or NoConn
    work,      \* what the agent did of each call
    up         \* answers on their way up each connection

hub   == <<reg, hmu, cmu, closed, pending, toClose, outbox>>
calls == <<pc, at, done, res, ctx>>
side  == <<agent, work, up>>
vars  == <<hub, ch, calls, side>>

NoConn == 0
Min2(S) == CHOOSE c \in S : \A d \in S : c <= d

Init ==
    /\ reg = NoConn /\ hmu = NoConn
    /\ cmu = [c \in Conns |-> NoConn]
    /\ closed = {}
    /\ pending = [c \in Conns |-> {}] /\ toClose = [c \in Conns |-> {}]
    /\ outbox = [c \in Conns |-> << >>]
    /\ ch = [c \in Conns |-> "none"]
    /\ pc = [o \in Ops |-> "new"] /\ at = [o \in Ops |-> NoConn]
    /\ done = [o \in Ops |-> "empty"] /\ res = [o \in Ops |-> "none"]
    /\ ctx = {}
    /\ agent = NoConn
    /\ work = [o \in Ops |-> "none"]
    /\ up = [c \in Conns |-> {}]

-----------------------------------------------------------------------------
(* Execute.                                                                *)

Return(o, r) == res' = [res EXCEPT ![o] = r]

\* connOf: no connection, the operation was not delivered.
Lookup(o) ==
    /\ pc[o] = "new" /\ hmu = NoConn
    /\ at' = [at EXCEPT ![o] = reg]
    /\ IF reg = NoConn
       THEN pc' = [pc EXCEPT ![o] = "returned"] /\ Return(o, "undelivered")
       ELSE pc' = [pc EXCEPT ![o] = "track"] /\ UNCHANGED res
    /\ UNCHANGED <<hub, ch, done, ctx, side>>

Track(o) ==
    /\ pc[o] = "track" /\ cmu[at[o]] = NoConn
    /\ pending' = [pending EXCEPT ![at[o]] = @ \cup {o}]
    /\ pc' = [pc EXCEPT ![o] = "send"]
    /\ UNCHANGED <<reg, hmu, cmu, closed, toClose, outbox, ch, at, done, res, ctx, side>>

\* conn.send: room in the outbox, whether or not anybody still empties it.
Send(o) ==
    /\ pc[o] = "send" /\ Len(outbox[at[o]]) < OutboxCap
    /\ outbox' = [outbox EXCEPT ![at[o]] = Append(@, o)]
    /\ pc' = [pc EXCEPT ![o] = "wait"]
    /\ UNCHANGED <<reg, hmu, cmu, closed, pending, toClose, ch, at, done, res, ctx, side>>

\* Seen only in the selects of send and of Execute.
CtxEnds(o) ==
    /\ o \in Cancellable \ ctx /\ pc[o] \in {"send", "wait"}
    /\ ctx' = ctx \cup {o}
    /\ UNCHANGED <<hub, ch, pc, at, done, res, side>>

\* The select of send, then the one of Execute, take the ctx.Done branch. What
\* a call that gives up is told. (Mutant: a call that was sent is reported as
\* never delivered.)
GiveUp_Mutant(o) == "undelivered"
GiveUp(o) == IF pc[o] = "send" THEN "undelivered" ELSE "timeout"

Abandon(o) ==
    /\ pc[o] \in {"send", "wait"} /\ o \in ctx
    /\ pc' = [pc EXCEPT ![o] = "untrack"] /\ Return(o, GiveUp(o))
    /\ UNCHANGED <<hub, ch, at, done, ctx, side>>

\* The select of Execute takes the answer.
Receive(o) ==
    /\ pc[o] = "wait" /\ done[o] # "empty"
    /\ done' = [done EXCEPT ![o] = "empty"]
    /\ pc' = [pc EXCEPT ![o] = "untrack"] /\ Return(o, done[o])
    /\ UNCHANGED <<hub, ch, at, ctx, side>>

\* The deferred untrack.
Untrack(o) ==
    /\ pc[o] = "untrack" /\ cmu[at[o]] = NoConn
    /\ pending' = [pending EXCEPT ![at[o]] = @ \ {o}]
    /\ pc' = [pc EXCEPT ![o] = "returned"]
    /\ UNCHANGED <<reg, hmu, cmu, closed, toClose, outbox, ch, at, done, res, ctx, side>>

-----------------------------------------------------------------------------
(* closeAll, run by the goroutine of connection g on connection c.         *)

\* A connection closed before: nothing to do. Otherwise mark it closed and hold
\* c.mu while answering every pending call.
CloseStart(g, c) ==
    /\ cmu[c] = NoConn /\ c \notin closed
    /\ cmu' = [cmu EXCEPT ![c] = g]
    /\ closed' = closed \cup {c}
    /\ toClose' = [toClose EXCEPT ![c] = pending[c]]
    /\ UNCHANGED <<reg, hmu, pending, outbox, ch, calls, side>>

\* p.done <- Result{Success: false}, which Execute returns without an error: the
\* caller cannot tell it from a failure on the node. Waits while the buffer is
\* full. (Mutant: the map is cleared without an answer.)
CloseAnswer_Silent(o) == done[o]
CloseAnswer(o) == "failure"
CloseSend(c, o) ==
    /\ o \in toClose[c] /\ done[o] = "empty"
    /\ done' = [done EXCEPT ![o] = CloseAnswer(o)]
    /\ toClose' = [toClose EXCEPT ![c] = @ \ {o}]
    /\ UNCHANGED <<reg, hmu, cmu, closed, pending, outbox, ch, pc, at, res, ctx, side>>

CloseEnd(c) ==
    /\ cmu[c] # NoConn /\ toClose[c] = {}
    /\ pending' = [pending EXCEPT ![c] = {}]
    /\ cmu' = [cmu EXCEPT ![c] = NoConn]
    /\ UNCHANGED <<reg, hmu, closed, toClose, outbox, ch, calls, side>>

ClosedBy(c) == c \in closed /\ cmu[c] = NoConn

-----------------------------------------------------------------------------
(* The Channel goroutine of a connection.                                  *)

\* attach: under h.mu, an older connection is closed before it is replaced.
AttachLock(c) ==
    /\ ch[c] = "attach" /\ hmu = NoConn
    /\ hmu' = c
    /\ ch' = [ch EXCEPT ![c] = "closeOld"]
    /\ UNCHANGED <<reg, cmu, closed, pending, toClose, outbox, calls, side>>

AttachClose(c) ==
    /\ ch[c] = "closeOld" /\ reg \notin {NoConn, c} /\ CloseStart(c, reg)

AttachSet(c) ==
    /\ ch[c] = "closeOld"
    /\ reg \notin {NoConn, c} => ClosedBy(reg)
    /\ reg' = c /\ hmu' = NoConn
    /\ ch' = [ch EXCEPT ![c] = "serve"]
    /\ UNCHANGED <<cmu, closed, pending, toClose, outbox, calls, side>>

\* The writer goroutine sends; with the agent gone the message is lost.
Write(c) ==
    /\ ch[c] = "serve" /\ outbox[c] # << >>
    /\ work' = IF agent = c THEN [work EXCEPT ![Head(outbox[c])] = "running"] ELSE work
    /\ outbox' = [outbox EXCEPT ![c] = Tail(@)]
    /\ UNCHANGED <<reg, hmu, cmu, closed, pending, toClose, ch, calls, agent, up>>

\* The Result the agent sent for a call it has finished.
AgentAnswer(o) == IF work[o] = "succeeded" THEN "success" ELSE "failure"

\* onResult, deliver: the answer goes to the waiting call, or nowhere. (Mutant:
\* the call is looked up under a wrong identifier.)
Waiting_Mutant(c, o) == \E p \in pending[c] : p # o
Waiting(c, o) == o \in pending[c]
Deliver(c, o) ==
    /\ ch[c] = "serve" /\ o \in up[c] /\ cmu[c] = NoConn
    /\ up' = [up EXCEPT ![c] = @ \ {o}]
    /\ IF Waiting(c, o)
       THEN done[o] = "empty" /\ done' = [done EXCEPT ![o] = AgentAnswer(o)]
       ELSE UNCHANGED done
    /\ UNCHANGED <<hub, ch, pc, at, res, ctx, agent, work>>

\* Recv fails; the stream's context ends, so the writer is done as well.
RecvFails(c) ==
    /\ ch[c] = "serve" /\ agent # c
    /\ ch' = [ch EXCEPT ![c] = "closing"]
    /\ up' = [up EXCEPT ![c] = {}]
    /\ UNCHANGED <<hub, calls, agent, work>>

\* The deferred detach: closeAll ...
DetachClose(c) == ch[c] = "closing" /\ CloseStart(c, c)

\* ... then the registry entry, unless another connection took the place.
\* (Mutant: without the comparison.)
Removable_Always(c) == TRUE
Removable(c) == reg = c
DetachRemove(c) ==
    /\ ch[c] = "closing" /\ ClosedBy(c) /\ hmu = NoConn
    /\ reg' = IF Removable(c) THEN NoConn ELSE reg
    /\ ch' = [ch EXCEPT ![c] = "end"]
    /\ UNCHANGED <<hmu, cmu, closed, pending, toClose, outbox, calls, side>>

-----------------------------------------------------------------------------
(* The agent's session loop and the network.                               *)

\* A new session: the RPC starts, its goroutine reaches attach when it has
\* looked the node up.
Dial ==
    /\ agent = NoConn
    /\ \E c \in Conns : ch[c] = "none"
    /\ LET c == Min2({d \in Conns : ch[d] = "none"})
       IN  agent' = c /\ ch' = [ch EXCEPT ![c] = "attach"]
    /\ UNCHANGED <<hub, calls, work, up>>

\* The session breaks for the agent; the control plane may see it much later.
SessionBreaks ==
    /\ agent # NoConn /\ agent' = NoConn
    /\ UNCHANGED <<hub, ch, calls, work, up>>

\* dispatch returns; the result goes up the session it came on, or is dropped.
AgentDone(o) ==
    /\ work[o] = "running"
    /\ \E w \in {"succeeded", "failed"} : work' = [work EXCEPT ![o] = w]
    /\ up' = IF agent = at[o] THEN [up EXCEPT ![at[o]] = @ \cup {o}] ELSE up
    /\ UNCHANGED <<hub, ch, calls, agent>>

-----------------------------------------------------------------------------
CallStep(o) == Lookup(o) \/ Track(o) \/ Send(o) \/ Receive(o) \/ Untrack(o)
ConnStep(c) ==
    \/ AttachLock(c) \/ AttachClose(c) \/ AttachSet(c) \/ Write(c)
    \/ DetachClose(c) \/ DetachRemove(c) \/ CloseEnd(c)
    \/ RecvFails(c)
    \/ \E o \in Ops : CloseSend(c, o) \/ Deliver(c, o)

Next ==
    \/ \E o \in Ops : CallStep(o) \/ CtxEnds(o) \/ Abandon(o) \/ AgentDone(o)
    \/ \E c \in Conns : ConnStep(c)
    \/ Dial \/ SessionBreaks

Spec == Init /\ [][Next]_vars

\* Every goroutine that can run runs; a select with an ended context as one of
\* its cases is left; the transport notices a dead peer (keepalive, TCP); the
\* agent finishes what it executes and dials again. Sessions need not break.
Fairness ==
    /\ \A o \in Ops : WF_vars(CallStep(o)) /\ WF_vars(Abandon(o)) /\ WF_vars(AgentDone(o))
    /\ \A c \in Conns : /\ WF_vars(AttachLock(c)) /\ WF_vars(AttachClose(c) \/ AttachSet(c))
                        /\ WF_vars(Write(c)) /\ WF_vars(RecvFails(c))
                        /\ WF_vars(DetachClose(c) \/ DetachRemove(c))
                        /\ WF_vars(CloseEnd(c) \/ \E o \in Ops : CloseSend(c, o))
                        /\ WF_vars(\E o \in Ops : Deliver(c, o))
    /\ WF_vars(Dial)
FairSpec == Spec /\ Fairness

-----------------------------------------------------------------------------
(* Properties.                                                             *)

TypeOK ==
    /\ reg \in Conns \cup {NoConn} /\ hmu \in Conns \cup {NoConn}
    /\ cmu \in [Conns -> Conns \cup {NoConn}]
    /\ closed \subseteq Conns
    /\ pending \in [Conns -> SUBSET Ops] /\ toClose \in [Conns -> SUBSET Ops]
    /\ outbox \in [Conns -> Seq(Ops)]
    /\ ch \in [Conns -> {"none", "attach", "closeOld", "serve", "closing", "end"}]
    /\ pc \in [Ops -> {"new", "track", "send", "wait", "untrack", "returned"}]
    /\ at \in [Ops -> Conns \cup {NoConn}]
    /\ done \in [Ops -> {"empty", "success", "failure"}]
    /\ res \in [Ops -> {"none", "undelivered", "timeout", "success", "failure"}]
    /\ ctx \subseteq Ops
    /\ agent \in Conns \cup {NoConn}
    /\ work \in [Ops -> {"none", "running", "succeeded", "failed"}]
    /\ up \in [Conns -> SUBSET Ops]

\* What Execute tells its caller is true, now and later: a success means that
\* the node finished the operation and succeeded, "not delivered" that it never
\* starts it, and a failure that it failed there, with one exception that the
\* contract (agent.go, Client.Execute) does not allow: of a call whose connection
\* was closed nothing is known, the operation may still run or have succeeded
\* (hub.go, closeAll and Execute).
NeverStarts(o) ==
    work[o] = "none" /\ \A c \in Conns : \A i \in DOMAIN outbox[c] : outbox[c][i] # o
AnswersTruthful ==
    \A o \in Ops : /\ res[o] = "success" => work[o] = "succeeded"
                   /\ res[o] = "undelivered" => NeverStarts(o)
                   /\ res[o] = "failure" => work[o] = "failed" \/ at[o] \in closed

\* A call that waits is known to its connection or finds its answer in the
\* channel: closing a connection forgets no call it knew (hub.go, closeAll).
WaiterKnown ==
    \A o \in Ops : pc[o] = "wait" => o \in pending[at[o]] \/ done[o] # "empty"

\* Only its own end takes a connection out of the registry; in particular the
\* late end of a replaced connection leaves its successor in place (hub.go,
\* detach).
OwnRemoval == [][\A c \in Conns : (reg = c /\ reg' = NoConn) => ch[c] = "closing"]_vars

\* The registry holds no connection whose goroutine has ended.
RegistryServed == reg # NoConn => ch[reg] \in {"serve", "closing"}

\* A call that found a connection returns if that connection lives on and no
\* call's context ends: nothing blocks it but the connection's fate (hub.go,
\* Execute). Another call's context matters because closeAll may wait for ever,
\* with both locks, to answer a call that gave up with its answer unread.
ServedCallReturns ==
    \A o \in Ops : \A c \in Conns :
        (pc[o] # "new" /\ at[o] = c) ~> (pc[o] = "returned" \/ agent # c \/ ctx # {})
=============================================================================
