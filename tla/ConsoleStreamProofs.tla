------------------------ MODULE ConsoleStreamProofs ------------------------
(***************************************************************************)
(* For any number of console requests and any limit: the counter of slots  *)
(* is exact, no request that ended holds one, and a console that is shown  *)
(* was reached by the agent.                                               *)
(***************************************************************************)
EXTENDS ConsoleStream, FiniteSetTheorems, TLAPS

-----------------------------------------------------------------------------
(* The types.                                                              *)

LEMMA TypedInit == Init => TypeOK
<1> SUFFICES ASSUME Init PROVE TypeOK
  OBVIOUS
<1>1. 0 \in 0 .. Limit /\ 0 \in 0 .. Cap BY ConsoleAssumption
<1>2. perVM \in 0 .. Limit /\ enabled \in BOOLEAN /\ panicked \in BOOLEAN BY <1>1 DEF Init
<1>3. toAgent \in [Sessions -> 0 .. Cap] /\ fromAgent \in [Sessions -> 0 .. Cap] BY <1>1 DEF Init, All
<1>4. byID \subseteq Sessions /\ browser \subseteq Sessions /\ registered \subseteq Sessions
      /\ waiters \subseteq Sessions /\ canceled \subseteq Sessions
  BY DEF Init
<1> QED BY <1>2, <1>3, <1>4 DEF Init, All, TypeOK

LEMMA HandlerTyped == ASSUME TypeOK, NEW s \in Sessions, Handler(s) PROVE TypeOK'
<1> USE ConsoleAssumption DEF TypeOK, slots, chans, node, control, At, Goto, CloseBridge
<1>1. CASE CheckEnabled(s) BY <1>1 DEF CheckEnabled
<1>2. CASE OpenSession(s) BY <1>2 DEF OpenSession, HasSlot
<1>3. CASE Register(s) BY <1>3 DEF Register
<1>4. CASE SendRequest(s) BY <1>4 DEF SendRequest
<1>5. CASE FailOpen(s) BY <1>5 DEF FailOpen
<1>6. CASE Opened(s) BY <1>6 DEF Opened
<1>7. CASE Upgrade(s) BY <1>7 DEF Upgrade
<1>8. CASE UpgradeFails(s) BY <1>8 DEF UpgradeFails
<1>9. CASE PipeEnds(s) BY <1>9 DEF PipeEnds
<1>10. CASE Release(s)
  <2>1. byID' \subseteq Sessions BY <1>10 DEF Release
  <2>2. perVM' \in 0 .. Limit BY <1>10 DEF Release
  <2> QED BY <1>10, <2>1, <2>2 DEF Release
<1> QED BY <1>1, <1>2, <1>3, <1>4, <1>5, <1>6, <1>7, <1>8, <1>9, <1>10 DEF Handler

LEMMA PipingTyped == ASSUME TypeOK, NEW s \in Sessions, Piping(s) PROVE TypeOK'
<1> USE ConsoleAssumption DEF TypeOK, slots, chans, node, control, At, Goto, CloseBridge
<1>1. CASE WriteCheck(s) BY <1>1 DEF WriteCheck
<1>2. CASE WriteSend(s)
  <2>1. toAgent' \in [Sessions -> 0 .. Cap] BY <1>2 DEF WriteSend
  <2>2. panicked' \in BOOLEAN BY <1>2 DEF WriteSend, SendsOnClosed
  <2>3. writer' \in [Sessions -> {"none", "idle", "sending", "ended"}] BY <1>2 DEF WriteSend
  <2> QED BY <1>2, <2>1, <2>2, <2>3 DEF WriteSend
<1>3. CASE Read(s)
  <2>1. fromAgent' \in [Sessions -> 0 .. Cap] BY <1>3 DEF Read
  <2>2. reader' \in [Sessions -> {"none", "idle", "ended"}] BY <1>3 DEF Read
  <2> QED BY <1>3, <2>1, <2>2 DEF Read
<1> QED BY <1>1, <1>2, <1>3 DEF Piping

LEMMA ServingTyped == ASSUME TypeOK, NEW s \in Sessions, Serving(s) PROVE TypeOK'
<1> USE ConsoleAssumption DEF TypeOK, slots, chans, node, control, At, Goto, CloseBridge
<1>1. CASE Serve(s)
  <2>1. registered' \subseteq Sessions BY <1>1 DEF Serve
  <2> QED BY <1>1, <2>1 DEF Serve
<1>2. CASE PumpRecv(s) BY <1>2 DEF PumpRecv
<1>3. CASE PumpSend(s)
  <2>1. fromAgent' \in [Sessions -> 0 .. Cap] BY <1>3 DEF PumpSend
  <2>2. panicked' \in BOOLEAN BY <1>3 DEF PumpSend, SendsOnClosed
  <2>3. pump' \in [Sessions -> {"none", "idle", "sending", "ended"}] BY <1>3 DEF PumpSend
  <2> QED BY <1>3, <2>1, <2>2, <2>3 DEF PumpSend
<1>4. CASE Forward(s)
  <2>1. toAgent' \in [Sessions -> 0 .. Cap] BY <1>4 DEF Forward
  <2> QED BY <1>4, <2>1 DEF Forward
<1>5. CASE ServeEnds(s) BY <1>5 DEF ServeEnds
<1> QED BY <1>1, <1>2, <1>3, <1>4, <1>5 DEF Serving

LEMMA AgentTyped == ASSUME TypeOK, NEW s \in Sessions, AgentStep(s) PROVE TypeOK'
<1> USE DEF TypeOK, slots, chans, node, control
<1>1. CASE Dial(s) BY <1>1 DEF Dial
<1>2. CASE DialFails(s) BY <1>2 DEF DialFails
<1>3. CASE Answer(s) BY <1>3 DEF Answer
<1>4. CASE DialCancel(s) BY <1>4 DEF DialCancel
<1>5. CASE PumpVNCEnds(s) BY <1>5 DEF PumpVNCEnds
<1> QED BY <1>1, <1>2, <1>3, <1>4, <1>5 DEF AgentStep

LEMMA TypedStep == TypeOK /\ [Next]_vars => TypeOK'
<1> SUFFICES ASSUME TypeOK, [Next]_vars PROVE TypeOK'
  OBVIOUS
<1> USE ConsoleAssumption DEF slots, chans, node, control
<1>1. ASSUME NEW s \in Sessions, Handler(s) \/ Piping(s) \/ Serving(s) \/ AgentStep(s) PROVE TypeOK'
  BY <1>1, HandlerTyped, PipingTyped, ServingTyped, AgentTyped
<1>2. ASSUME NEW s \in Sessions, BrowserLeaves(s) PROVE TypeOK'
  <2>1. browser' \subseteq Sessions BY <1>2 DEF BrowserLeaves, TypeOK
  <2> QED BY <1>2, <2>1 DEF BrowserLeaves, TypeOK
<1>3. ASSUME NEW s \in Sessions, Unregister(s) PROVE TypeOK'
  <2>1. registered' \subseteq Sessions BY <1>3 DEF Unregister, TypeOK
  <2> QED BY <1>3, <2>1 DEF Unregister, TypeOK
<1>4. ASSUME NEW b \in BOOLEAN, SetEnabled(b) PROVE TypeOK'
  BY <1>4 DEF SetEnabled, TypeOK
<1>5. CASE UNCHANGED vars BY <1>5 DEF vars, TypeOK
<1> QED BY <1>1, <1>2, <1>3, <1>4, <1>5 DEF Next

\* The variables of consoles and bridges keep their types; in particular no
\* channel holds more than its capacity, and the counter stays within the limit.
THEOREM ConsoleTypes == Spec => []TypeOK
BY TypedInit, TypedStep, PTL DEF Spec

-----------------------------------------------------------------------------
(* The slots.                                                              *)

\* A request holds its slot between open and close.
Inside == {"register", "send", "wait", "upgrade", "pipe", "release"}
SlotInv ==
    /\ TypeOK
    /\ perVM = Cardinality(byID)
    /\ \A s \in byID : pc[s] \in Inside

\* What a step does to slots and to where the handlers are.
SlotStep(s) ==
    /\ \A t \in Sessions \ {s} : pc'[t] = pc[t]
    /\ \/ byID' = byID /\ perVM' = perVM /\ (s \in byID => pc'[s] \in Inside)
       \/ byID' = byID \cup {s} /\ perVM' = perVM + 1 /\ pc[s] = "slot" /\ pc'[s] = "register" /\ perVM < Limit
       \/ byID' = byID \ {s} /\ s \in byID /\ (perVM > 0 => perVM' = perVM - 1)

LEMMA SlotSteps ==
  ASSUME SlotInv, NEW s \in Sessions,
         Handler(s) \/ Piping(s) \/ Serving(s) \/ AgentStep(s) \/ BrowserLeaves(s) \/ Unregister(s)
  PROVE  SlotStep(s)
<1> USE DEF SlotInv, TypeOK, SlotStep, Inside, slots, chans, node, control, At, Goto
<1>1. CASE CheckEnabled(s) BY <1>1 DEF CheckEnabled
<1>2. CASE OpenSession(s) BY <1>2 DEF OpenSession, HasSlot
<1>3. CASE Register(s) BY <1>3 DEF Register
<1>4. CASE SendRequest(s) BY <1>4 DEF SendRequest
<1>5. CASE FailOpen(s) BY <1>5 DEF FailOpen
<1>6. CASE Opened(s) BY <1>6 DEF Opened
<1>7. CASE Upgrade(s) BY <1>7 DEF Upgrade
<1>8. CASE UpgradeFails(s) BY <1>8 DEF UpgradeFails
<1>9. CASE PipeEnds(s) BY <1>9 DEF PipeEnds
<1>10. CASE Release(s) BY <1>10 DEF Release, Released
<1>11. CASE Piping(s) BY <1>11 DEF Piping, WriteCheck, WriteSend, Read
<1>12. CASE Serving(s) BY <1>12 DEF Serving, Serve, PumpRecv, PumpSend, Forward, ServeEnds
<1>13. CASE AgentStep(s) BY <1>13 DEF AgentStep, Dial, DialFails, Answer, DialCancel, PumpVNCEnds
<1>14. CASE BrowserLeaves(s) \/ Unregister(s) BY <1>14 DEF BrowserLeaves, Unregister
<1> QED BY <1>1, <1>2, <1>3, <1>4, <1>5, <1>6, <1>7, <1>8, <1>9, <1>10, <1>11, <1>12, <1>13, <1>14
        DEF Handler

LEMMA SlotInvStep == SlotInv /\ [Next]_vars => SlotInv'
<1> SUFFICES ASSUME SlotInv, [Next]_vars PROVE perVM' = Cardinality(byID') /\ \A s \in byID' : pc'[s] \in Inside
  BY TypedStep DEF SlotInv
<1>1. IsFiniteSet(byID) /\ byID \subseteq Sessions /\ perVM \in Nat
  BY ConsoleAssumption, FS_Subset DEF SlotInv, TypeOK
<1>2. ASSUME NEW s \in Sessions, SlotStep(s)
      PROVE  perVM' = Cardinality(byID') /\ \A t \in byID' : pc'[t] \in Inside
  <2>1. CASE byID' = byID /\ perVM' = perVM /\ (s \in byID => pc'[s] \in Inside)
    BY <1>1, <1>2, <2>1 DEF SlotStep, SlotInv
  <2>2. CASE byID' = byID \cup {s} /\ perVM' = perVM + 1 /\ pc[s] = "slot" /\ pc'[s] = "register"
    <3>1. s \notin byID BY <2>2 DEF SlotInv, Inside
    <3>2. Cardinality(byID \cup {s}) = Cardinality(byID) + 1 BY <1>1, <3>1, FS_AddElement
    <3> QED BY <1>1, <1>2, <2>2, <3>2 DEF SlotStep, SlotInv, Inside
  <2>3. CASE byID' = byID \ {s} /\ s \in byID /\ (perVM > 0 => perVM' = perVM - 1)
    <3>1. Cardinality(byID \ {s}) = Cardinality(byID) - 1 /\ Cardinality(byID \ {s}) \in Nat
      BY <1>1, <2>3, FS_RemoveElement, FS_Subset, FS_CardinalityType
    <3>2. perVM > 0 BY <1>1, <3>1 DEF SlotInv
    <3> QED BY <1>1, <1>2, <2>3, <3>1, <3>2 DEF SlotStep, SlotInv
  <2> QED BY <1>2, <2>1, <2>2, <2>3 DEF SlotStep
<1>3. ASSUME NEW b \in BOOLEAN, SetEnabled(b)
      PROVE  perVM' = Cardinality(byID') /\ \A t \in byID' : pc'[t] \in Inside
  <2>1. CASE byID' = {} /\ perVM' = 0 BY <2>1, FS_EmptySet
  <2>2. CASE UNCHANGED <<byID, perVM>> BY <1>3, <2>2 DEF SetEnabled, control, SlotInv
  <2> QED BY <1>3, <2>1, <2>2 DEF SetEnabled
<1>4. CASE UNCHANGED vars BY <1>4 DEF vars, slots, control, SlotInv
<1> QED BY <1>2, <1>3, <1>4, SlotSteps DEF Next

LEMMA SlotsInvariant == Spec => []SlotInv
<1>1. Init => SlotInv BY TypedInit, FS_EmptySet DEF Init, SlotInv
<1> QED BY <1>1, SlotInvStep, PTL DEF Spec

\* The counter that enforces the limit is exact and never over it, however
\* requests, switching the console off and their own ends interleave (open,
\* close and closeByVM).
THEOREM SlotsCounted == Spec => []SlotsExact
<1>1. SlotInv => SlotsExact BY ConsoleAssumption DEF SlotInv, TypeOK, SlotsExact
<1> QED BY <1>1, SlotsInvariant, PTL

\* A request that ended holds no slot (OpenConsole, WS, pipeConsole).
THEOREM SlotsFreed == Spec => []SlotFreed
<1>1. SlotInv => SlotFreed BY DEF SlotInv, Inside, SlotFreed
<1> QED BY <1>1, SlotsInvariant, PTL

-----------------------------------------------------------------------------
(* The agent behind a console.                                             *)

\* The agent answers for an RPC it started, and an RPC that was started has been
\* for good.
Answered(s) ==
    /\ agent[s] \in {"dialed", "answered", "pumping"} => rpc[s] # "none"
    /\ answer[s] = "ok" => rpc[s] # "none"
    /\ pc[s] \in {"upgrade", "pipe"} => rpc[s] # "none"
DialedInv == TypeOK /\ \A s \in Sessions : Answered(s)

LEMMA DialedStep == DialedInv /\ [Next]_vars => DialedInv'
<1> SUFFICES ASSUME DialedInv, [Next]_vars, NEW t \in Sessions PROVE Answered(t)'
  BY TypedStep DEF DialedInv
<1>0. Answered(t) BY DEF DialedInv
<1> USE DEF DialedInv, TypeOK, Answered, slots, chans, node, control, At, Goto
<1>1. ASSUME NEW s \in Sessions, Handler(s) PROVE Answered(t)'
  <2>1. CASE CheckEnabled(s) \/ OpenSession(s) \/ Register(s) \/ UpgradeFails(s) \/ PipeEnds(s) \/ Release(s)
    BY <1>0, <2>1 DEF CheckEnabled, OpenSession, Register, UpgradeFails, PipeEnds, Release
  <2>2. CASE SendRequest(s) BY <1>0, <2>2 DEF SendRequest
  <2>3. CASE FailOpen(s) BY <1>0, <2>3 DEF FailOpen
  <2>4. CASE Opened(s) BY <1>0, <2>4 DEF Opened
  <2>5. CASE Upgrade(s) BY <1>0, <2>5 DEF Upgrade
  <2> QED BY <1>1, <2>1, <2>2, <2>3, <2>4, <2>5 DEF Handler
<1>2. ASSUME NEW s \in Sessions, Piping(s) \/ BrowserLeaves(s) \/ Unregister(s) PROVE Answered(t)'
  BY <1>0, <1>2 DEF Piping, WriteCheck, WriteSend, Read, BrowserLeaves, Unregister
<1>3. ASSUME NEW s \in Sessions, Serving(s) PROVE Answered(t)'
  BY <1>0, <1>3 DEF Serving, Serve, PumpRecv, PumpSend, Forward, ServeEnds
<1>4. ASSUME NEW s \in Sessions, AgentStep(s) PROVE Answered(t)'
  BY <1>0, <1>4 DEF AgentStep, Dial, DialFails, Answer, Answers, DialCancel, PumpVNCEnds
<1>5. ASSUME NEW b \in BOOLEAN, SetEnabled(b) PROVE Answered(t)'
  BY <1>0, <1>5 DEF SetEnabled
<1>6. CASE UNCHANGED vars BY <1>0, <1>6 DEF vars
<1> QED BY <1>1, <1>2, <1>3, <1>4, <1>5, <1>6 DEF Next

\* A console that is upgraded or piped is one for which the agent reached the VNC
\* port and started its RPC (WS, OpenStream, handleOpenStream).
THEOREM ConsolesReached == Spec => []OpenedMeansDialed
<1>1. Init => DialedInv BY TypedInit DEF Init, All, DialedInv, Answered
<1>2. DialedInv => OpenedMeansDialed BY DEF DialedInv, Answered, OpenedMeansDialed
<1> QED BY <1>1, <1>2, DialedStep, PTL DEF Spec
=============================================================================
