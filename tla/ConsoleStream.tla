--------------------------- MODULE ConsoleStream ---------------------------
(***************************************************************************)
(* The console of one virtual machine: the WebSocket handler and the       *)
(* session registry (handler/compute/console.go, service/compute/vm), the  *)
(* bridge of each stream on the control plane (agent/hub/stream.go), and   *)
(* the agent's end of it (nodeagent/stream.go, daemon.go).                 *)
(*                                                                         *)
(* A request and its goroutines carry the name s of its session. Bytes are *)
(* counted, not kept: what matters is who may still send on which channel. *)
(* A panic ends the control plane, and with it the behaviour.              *)
(***************************************************************************)
EXTENDS Naturals, FiniteSets

CONSTANTS
    Sessions,  \* WebSocket requests for the console of the machine
    Online,    \* those that find the node connected (bound)
    Limit,     \* ConsoleSessionLimit (3 in the code)
    Cap        \* capacity of the two channels of a bridge (16 in the code)

ASSUME ConsoleAssumption ==
    /\ IsFiniteSet(Sessions) /\ Online \subseteq Sessions
    /\ Limit \in Nat \ {0} /\ Cap \in Nat \ {0}

VARIABLES
    enabled,    \* VM.VNCEnabled
    byID,       \* sessionRegistry.byID
    perVM,      \* sessionRegistry.perVM of the machine
    pc,         \* where the handler of each request is
    browser,    \* requests whose browser is still there
    bridge,     \* the bridge of each request
    registered, \* Hub.agentStreams
    waiters,    \* conn.pendingStreams
    toAgent,    \* bytes in chToAgent
    fromAgent,  \* bytes in chFromAgent
    writer,     \* goroutine browser -> node of pipeConsole
    reader,     \* goroutine node -> browser of pipeConsole
    pump,       \* goroutine agent -> bridge of serveAgentStream
    rpc,        \* the StreamData RPC as the control plane sees it
    agent,      \* the agent's handling of the request
    answer,     \* StreamOpened on its way, or in waitCh
    canceled,   \* requests whose dialCtx is canceled
    panicked    \* a goroutine of the control plane has panicked

slots   == <<enabled, byID, perVM>>
chans   == <<bridge, registered, waiters, toAgent, fromAgent>>
control == <<pc, browser, writer, reader, pump, panicked>>
node    == <<rpc, agent, answer, canceled>>
vars    == <<slots, chans, control, node>>

All(v) == [s \in Sessions |-> v]

Init ==
    /\ enabled \in BOOLEAN /\ byID = {} /\ perVM = 0
    /\ pc = All("new") /\ browser = Sessions
    /\ bridge = All("none") /\ registered = {} /\ waiters = {}
    /\ toAgent = All(0) /\ fromAgent = All(0)
    /\ writer = All("none") /\ reader = All("none") /\ pump = All("none")
    /\ rpc = All("none") /\ agent = All("none") /\ answer = All("none")
    /\ canceled = {} /\ panicked = FALSE

At(s, l) == pc[s] = l /\ ~panicked
Goto(s, l) == pc' = [pc EXCEPT ![s] = l]
CloseBridge(s) == bridge' = [bridge EXCEPT ![s] = "closed"]

-----------------------------------------------------------------------------
(* OpenConsole and OpenStream.                                             *)

\* The console must be enabled when the machine is read.
CheckEnabled(s) ==
    /\ At(s, "new") /\ Goto(s, IF enabled THEN "slot" ELSE "done")
    /\ UNCHANGED <<slots, chans, browser, writer, reader, pump, panicked, node>>

\* sessionRegistry.open.
HasSlot == perVM < Limit
OpenSession(s) ==
    /\ At(s, "slot")
    /\ IF HasSlot
       THEN byID' = byID \cup {s} /\ perVM' = perVM + 1 /\ Goto(s, "register")
       ELSE Goto(s, "done") /\ UNCHANGED <<byID, perVM>>
    /\ UNCHANGED <<enabled, chans, browser, writer, reader, pump, panicked, node>>

\* The bridge and the waiter are registered before the agent is asked; without a
\* connection to the node there is nothing to register.
Register(s) ==
    /\ At(s, "register")
    /\ \/ /\ s \in Online
          /\ bridge' = [bridge EXCEPT ![s] = "open"]
          /\ registered' = registered \cup {s} /\ waiters' = waiters \cup {s}
          /\ Goto(s, "send")
       \/ Goto(s, "release") /\ UNCHANGED <<bridge, registered, waiters>>
    /\ UNCHANGED <<slots, toAgent, fromAgent, browser, writer, reader, pump, panicked, node>>

SendRequest(s) ==
    /\ At(s, "send") /\ Goto(s, "wait")
    /\ agent' = [agent EXCEPT ![s] = "asked"]
    /\ UNCHANGED <<slots, chans, browser, writer, reader, pump, panicked, rpc, answer, canceled>>

\* fail: the agent said no, or the context ended while sending or waiting.
FailOpen(s) ==
    /\ \/ At(s, "send")
       \/ At(s, "wait")
    /\ Goto(s, "release")
    /\ CloseBridge(s) /\ waiters' = waiters \ {s}
    /\ UNCHANGED <<slots, registered, toAgent, fromAgent, browser, writer, reader, pump,
                   panicked, node>>

\* Channel hands the answer to the waiter, which returns the control side.
Opened(s) ==
    /\ At(s, "wait") /\ answer[s] = "ok" /\ s \in waiters
    /\ Goto(s, "upgrade") /\ waiters' = waiters \ {s}
    /\ answer' = [answer EXCEPT ![s] = "none"]
    /\ UNCHANGED <<slots, bridge, registered, toAgent, fromAgent, browser, writer, reader,
                   pump, panicked, rpc, agent, canceled>>

\* The goroutine that waits for the end of the bridge. (Mutant: a bridge that
\* was never served is forgotten.)
Unregisters_Mutant(s) == bridge[s] = "closed" /\ rpc[s] # "none"
Unregisters(s) == bridge[s] = "closed"
Unregister(s) ==
    /\ ~panicked /\ s \in registered /\ Unregisters(s)
    /\ registered' = registered \ {s}
    /\ UNCHANGED <<slots, bridge, waiters, toAgent, fromAgent, control, node>>

-----------------------------------------------------------------------------
(* The WebSocket handler.                                                  *)

Upgrade(s) ==
    /\ At(s, "upgrade") /\ s \in browser
    /\ Goto(s, "pipe")
    /\ writer' = [writer EXCEPT ![s] = "idle"] /\ reader' = [reader EXCEPT ![s] = "idle"]
    /\ UNCHANGED <<slots, chans, browser, pump, panicked, node>>

\* Only the session is released then, the stream is left to its other end.
UpgradeFails(s) ==
    /\ At(s, "upgrade") /\ s \notin browser
    /\ Goto(s, "release")
    /\ UNCHANGED <<slots, chans, browser, writer, reader, pump, panicked, node>>

BrowserLeaves(s) ==
    /\ ~panicked /\ s \in browser /\ browser' = browser \ {s}
    /\ UNCHANGED <<slots, chans, pc, writer, reader, pump, panicked, node>>

\* A goroutine about to send on a channel of a bridge that is closed: select
\* finds the closed channel, and panics, or the ended context.
SendsOnClosed(s) ==
    /\ bridge[s] = "closed"
    /\ panicked' \in BOOLEAN

\* controlSide.Write: isClosed first, the select later.
WriteCheck(s) ==
    /\ ~panicked /\ writer[s] = "idle"
    /\ \/ s \notin browser /\ writer' = [writer EXCEPT ![s] = "ended"]
       \/ /\ s \in browser
          /\ writer' = [writer EXCEPT ![s] = IF bridge[s] = "closed" THEN "ended" ELSE "sending"]
    /\ UNCHANGED <<slots, chans, pc, browser, reader, pump, panicked, node>>

WriteSend(s) ==
    /\ ~panicked /\ writer[s] = "sending"
    /\ \/ /\ bridge[s] = "open" /\ toAgent[s] < Cap
          /\ toAgent' = [toAgent EXCEPT ![s] = @ + 1]
          /\ writer' = [writer EXCEPT ![s] = "idle"] /\ UNCHANGED panicked
       \/ /\ SendsOnClosed(s)
          /\ writer' = [writer EXCEPT ![s] = "ended"] /\ UNCHANGED toAgent
    /\ UNCHANGED <<slots, bridge, registered, waiters, fromAgent, pc, browser, reader, pump, node>>

\* controlSide.Read drains the channel before it sees the close; a browser that
\* left takes nothing.
Read(s) ==
    /\ ~panicked /\ reader[s] = "idle"
    /\ \/ /\ fromAgent[s] > 0 /\ fromAgent' = [fromAgent EXCEPT ![s] = @ - 1]
          /\ reader' = [reader EXCEPT ![s] = IF s \in browser THEN "idle" ELSE "ended"]
       \/ /\ fromAgent[s] = 0 /\ bridge[s] = "closed"
          /\ reader' = [reader EXCEPT ![s] = "ended"] /\ UNCHANGED fromAgent
    /\ UNCHANGED <<slots, bridge, registered, waiters, toAgent, pc, browser, writer, pump,
                   panicked, node>>

\* The first goroutine that ends makes pipeConsole close both sides.
PipeEnds(s) ==
    /\ At(s, "pipe") /\ "ended" \in {writer[s], reader[s]}
    /\ Goto(s, "release") /\ browser' = browser \ {s} /\ CloseBridge(s)
    /\ UNCHANGED <<slots, registered, waiters, toAgent, fromAgent, writer, reader, pump,
                   panicked, node>>

\* CloseConsole: sessionRegistry.close. (Mutants: the count goes down for a session that
\* closeByVM had removed; nothing is released.)
Released_Always(s) == TRUE
Released_Never(s) == FALSE
Released(s) == s \in byID
Release(s) ==
    /\ At(s, "release") /\ Goto(s, "done")
    /\ byID' = IF Released(s) THEN byID \ {s} ELSE byID
    /\ perVM' = IF Released(s) /\ perVM > 0 THEN perVM - 1 ELSE perVM
    /\ UNCHANGED <<enabled, chans, browser, writer, reader, pump, panicked, node>>

\* UpdateConsole: switching the console off empties the registry.
SetEnabled(b) ==
    /\ ~panicked /\ enabled # b /\ enabled' = b
    /\ IF b THEN UNCHANGED <<byID, perVM>> ELSE byID' = {} /\ perVM' = 0
    /\ UNCHANGED <<chans, control, node>>

-----------------------------------------------------------------------------
(* serveAgentStream, the StreamData handler.                               *)

\* takeAgentStream: whoever comes without a registered bridge is sent away.
Serve(s) ==
    /\ ~panicked /\ rpc[s] = "opening"
    /\ registered' = registered \ {s}
    /\ IF s \in registered
       THEN rpc' = [rpc EXCEPT ![s] = "serving"] /\ pump' = [pump EXCEPT ![s] = "idle"]
       ELSE rpc' = [rpc EXCEPT ![s] = "ended"] /\ UNCHANGED pump
    /\ UNCHANGED <<slots, bridge, waiters, toAgent, fromAgent, pc, browser, writer, reader,
                   panicked, agent, answer, canceled>>

\* The reading goroutine: a chunk, then isClosed, then the select; when Recv
\* fails it closes the bridge. (Mutant: it does not see the agent leave.)
RecvFails_Mutant(s) == rpc[s] = "ended"
RecvFails(s) == agent[s] = "gone" \/ rpc[s] = "ended"
PumpRecv(s) ==
    /\ ~panicked /\ pump[s] = "idle"
    /\ \/ /\ agent[s] \in {"dialed", "answered", "pumping"}
          /\ pump' = [pump EXCEPT ![s] = IF bridge[s] = "closed" THEN "ended" ELSE "sending"]
          /\ UNCHANGED bridge
       \/ /\ RecvFails(s)
          /\ pump' = [pump EXCEPT ![s] = "ended"] /\ CloseBridge(s)
    /\ UNCHANGED <<slots, registered, waiters, toAgent, fromAgent, pc, browser, writer, reader,
                   panicked, node>>

PumpSend(s) ==
    /\ ~panicked /\ pump[s] = "sending"
    /\ \/ /\ bridge[s] = "open" /\ fromAgent[s] < Cap
          /\ fromAgent' = [fromAgent EXCEPT ![s] = @ + 1]
          /\ pump' = [pump EXCEPT ![s] = "idle"] /\ UNCHANGED panicked
       \/ /\ SendsOnClosed(s)
          /\ pump' = [pump EXCEPT ![s] = "ended"] /\ UNCHANGED fromAgent
    /\ UNCHANGED <<slots, bridge, registered, waiters, toAgent, pc, browser, writer, reader, node>>

\* The other direction; Send fails when the agent has left.
Forward(s) ==
    /\ ~panicked /\ rpc[s] = "serving" /\ toAgent[s] > 0
    /\ toAgent' = [toAgent EXCEPT ![s] = @ - 1]
    /\ IF agent[s] = "gone"
       THEN rpc' = [rpc EXCEPT ![s] = "ended"] /\ CloseBridge(s)
       ELSE UNCHANGED <<rpc, bridge>>
    /\ UNCHANGED <<slots, registered, waiters, fromAgent, control, agent, answer, canceled>>

\* The handler returns: the RPC ends for the agent too.
ServeEnds(s) ==
    /\ ~panicked /\ rpc[s] = "serving" /\ bridge[s] = "closed"
    /\ rpc' = [rpc EXCEPT ![s] = "ended"]
    /\ UNCHANGED <<slots, chans, control, agent, answer, canceled>>

-----------------------------------------------------------------------------
(* The agent. Its receive loop handles one request at a time.              *)

Handling == {s \in Sessions : agent[s] \in {"dialed", "answered"}}

\* handleOpenStream: dial the VNC port, start the RPC and the pump.
Dial(s) ==
    /\ agent[s] = "asked" /\ Handling = {}
    /\ agent' = [agent EXCEPT ![s] = "dialed"]
    /\ rpc' = [rpc EXCEPT ![s] = "opening"]
    /\ UNCHANGED <<slots, chans, control, answer, canceled>>

\* A refused dial (the answer "no" leads to FailOpen, as silence does), or a
\* request lost with the connection.
DialFails(s) ==
    /\ agent[s] = "asked" /\ Handling = {}
    /\ agent' = [agent EXCEPT ![s] = "gone"]
    /\ UNCHANGED <<slots, chans, control, rpc, answer, canceled>>

\* The answer goes to the outbox, or is dropped when that is full.
Answers(s) == agent[s] = "dialed"
Answer(s) ==
    /\ Answers(s)
    /\ agent' = [agent EXCEPT ![s] = "answered"]
    /\ \/ answer' = [answer EXCEPT ![s] = "ok"]
       \/ UNCHANGED answer
    /\ UNCHANGED <<slots, chans, control, rpc, canceled>>

\* daemon.go ends dialCtx, from which the RPC's context is derived.
DialCancel(s) ==
    /\ agent[s] = "answered"
    /\ agent' = [agent EXCEPT ![s] = "pumping"]
    /\ canceled' = canceled \cup {s}
    /\ UNCHANGED <<slots, chans, control, rpc, answer>>

\* pumpVNC returns when the RPC ends from either side, and closes the VNC
\* connection. An RPC that was canceled early may never reach the server.
PumpVNCEnds(s) ==
    /\ agent[s] = "pumping" /\ (rpc[s] = "ended" \/ s \in canceled)
    /\ agent' = [agent EXCEPT ![s] = "gone"]
    /\ \/ UNCHANGED rpc
       \/ rpc[s] = "opening" /\ rpc' = [rpc EXCEPT ![s] = "lost"]
    /\ UNCHANGED <<slots, chans, control, answer, canceled>>

-----------------------------------------------------------------------------
Handler(s) ==
    \/ CheckEnabled(s) \/ OpenSession(s) \/ Register(s) \/ SendRequest(s) \/ FailOpen(s)
    \/ Opened(s) \/ Upgrade(s) \/ UpgradeFails(s) \/ PipeEnds(s) \/ Release(s)
Piping(s) == WriteCheck(s) \/ WriteSend(s) \/ Read(s)
Serving(s) == Serve(s) \/ PumpRecv(s) \/ PumpSend(s) \/ Forward(s) \/ ServeEnds(s)
AgentStep(s) == Dial(s) \/ DialFails(s) \/ Answer(s) \/ DialCancel(s) \/ PumpVNCEnds(s)

Next ==
    \/ \E s \in Sessions : \/ Handler(s) \/ Piping(s) \/ Serving(s) \/ AgentStep(s)
                           \/ BrowserLeaves(s) \/ Unregister(s)
    \/ \E b \in BOOLEAN : SetEnabled(b)

Spec == Init /\ [][Next]_vars

\* Goroutines that can run do so, and the context of OpenStream ends at last.
\* Nothing makes the browser or the VNC server send bytes, or leave.
Fairness ==
    \A s \in Sessions :
        /\ WF_vars(Handler(s)) /\ WF_vars(Unregister(s)) /\ WF_vars(Read(s))
        /\ WF_vars(s \notin browser /\ WriteCheck(s)) /\ WF_vars(WriteSend(s))
        /\ WF_vars(Serve(s)) /\ WF_vars(RecvFails(s) /\ PumpRecv(s)) /\ WF_vars(PumpSend(s))
        /\ WF_vars(Forward(s) \/ ServeEnds(s)) /\ WF_vars(AgentStep(s))
FairSpec == Spec /\ Fairness

-----------------------------------------------------------------------------
(* Properties.                                                             *)

TypeOK ==
    /\ enabled \in BOOLEAN /\ byID \subseteq Sessions /\ perVM \in 0 .. Limit
    /\ pc \in [Sessions -> {"new", "slot", "register", "send", "wait", "upgrade", "pipe",
                            "release", "done"}]
    /\ browser \subseteq Sessions /\ registered \subseteq Sessions /\ waiters \subseteq Sessions
    /\ bridge \in [Sessions -> {"none", "open", "closed"}]
    /\ toAgent \in [Sessions -> 0 .. Cap] /\ fromAgent \in [Sessions -> 0 .. Cap]
    /\ writer \in [Sessions -> {"none", "idle", "sending", "ended"}]
    /\ reader \in [Sessions -> {"none", "idle", "ended"}]
    /\ pump \in [Sessions -> {"none", "idle", "sending", "ended"}]
    /\ rpc \in [Sessions -> {"none", "opening", "serving", "ended", "lost"}]
    /\ agent \in [Sessions -> {"none", "asked", "dialed", "answered", "pumping", "gone"}]
    /\ answer \in [Sessions -> {"none", "ok"}]
    /\ canceled \subseteq Sessions /\ panicked \in BOOLEAN

\* The counter that enforces the limit and the table of sessions agree, although
\* both a session's own end and the switching off of the console release it
\* (console.go, open, close and closeByVM).
SlotsExact == perVM = Cardinality(byID) /\ perVM <= Limit

\* A request that ended holds no slot, on whichever of its ways out it left
\* (R-007; OpenConsole's error return, WS, pipeConsole).
SlotFreed == \A s \in byID : pc[s] # "done"

\* A browser is connected only to a console whose VNC port the agent reached and
\* for which it started the StreamData RPC (WS: open the stream first, then
\* upgrade; handleOpenStream).
OpenedMeansDialed == \A s \in Sessions : pc[s] \in {"upgrade", "pipe"} => rpc[s] # "none"

\* The registry of streams forgets every bridge that is closed, also one whose
\* agent never came (stream.go, OpenStream).
ClosedForgotten ==
    \A s \in Sessions : bridge[s] = "closed" ~> s \notin registered \/ panicked

\* Once the agent's RPC was taken in, the end of either side ends the console
\* and releases its session (R-007; pipeConsole, serveAgentStream, pumpVNC).
ServedConsoleEnds ==
    \A s \in Sessions :
        (pc[s] = "pipe" /\ rpc[s] \in {"serving", "ended"} /\ (agent[s] = "gone" \/ s \notin browser))
            ~> pc[s] = "done" \/ panicked

-----------------------------------------------------------------------------
(* What comments of the repository promise and the code does not keep.     *)

\* stream.go, close: "reads and writes of both ends return an error at once".
\* A writer between its check and its send panics instead.
WriteReturnsError == ~panicked
=============================================================================
