--------------------------- MODULE WatchdogProofs ---------------------------
(***************************************************************************)
(* For one port mirror, and any number of requests, restarts and faults: the *)
(* types, and that no mirror stands that nobody confirmed and no watchdog  *)
(* will undo.                                                              *)
(***************************************************************************)
EXTENDS Watchdog, TLAPS

-----------------------------------------------------------------------------
(* The invariant.                                                          *)

Kinds == {"enable", "confirm", "disable", "repair"}

\* Handlers on the node and requests of the control plane are what they can be.
Busy == [pc : {"send", "wait", "write"}, kind : Kinds, port : Ports, no : Nat]
Requesting == req \in [Requests -> {Idle} \cup Busy]
Enabling == {<<"look", "attach", "unconfirm", "arm">>, <<"attach", "unconfirm", "arm">>,
             <<"unconfirm", "arm">>, <<"arm">>}
Repairing == {<<"look", "attach", "unconfirm">>, <<"attach", "unconfirm">>, <<"unconfirm">>}
Disabling == {<<"detach", "unconfirm">>, <<"unconfirm">>}
Confirming == {<<"confirm", "forget">>, <<"forget">>}
Todos == Enabling \cup Repairing \cup Disabling \cup Confirming
AtWork(o) ==
    /\ o \in [no : Nat, kind : Kinds, port : Ports, todo : Todos, seen : BOOLEAN]
    /\ \/ o.kind = "enable" /\ o.todo \in Enabling
       \/ o.kind = "repair" /\ o.todo \in Repairing
       \/ o.kind = "disable" /\ o.todo \in Disabling
       \/ o.kind = "confirm" /\ o.todo \in Confirming
Working == \A o \in ops : AtWork(o)

\* While the agent is down nothing of it is at work.
Down == ~up => ops = {} /\ timers = None /\ detaching = None /\ forgetting = None

\* The port's handler has attached it: it removes the confirmation and arms next.
UnconfirmsNext(p) == \E o \in ops : o.kind = "enable" /\ o.port = p /\ o.todo = <<"unconfirm", "arm">>
ArmsNext(p) ==
    \E o \in ops : o.kind = "enable" /\ o.port = p /\ o.todo \in {<<"unconfirm", "arm">>, <<"arm">>}

\* A port that is attached and that nobody confirmed has a timer, and the deadline
\* on disk as well, so that a restart does not lose it, unless another removed it.
Excused(p) == p \in kept \cup torn
HasTimer(p) ==
    IF up THEN timers[p] + detaching[p] > 0 /\ (saved \/ p \in robbed) ELSE saved
Watched == \A p \in Ports : Found(p) => Excused(p) \/ ArmsNext(p) \/ HasTimer(p)

\* The confirm file speaks of what is attached now, or is about to be removed.
ConfirmsThis == confirm => \A p \in Ports : Found(p) => Excused(p) \/ UnconfirmsNext(p)

IInv == TypeOK /\ Requesting /\ Working /\ Down /\ Watched /\ ConfirmsThis

-----------------------------------------------------------------------------
(* The control plane changes nothing on the node but the set of handlers.  *)

\* The initial states satisfy the invariant.
LEMMA InitInv == ASSUME Init PROVE IInv
<1>1. None \in [Ports -> Nat] BY DEF None
<1>2. TypeOK BY <1>1 DEF Init, TypeOK, Off
<1>3. Requesting /\ Working /\ Down BY DEF Init, Requesting, Working, Down
<1>4. \A p \in Ports : ~Found(p) BY DEF Init, Found, None
<1> QED BY <1>2, <1>3, <1>4 DEF IInv, Watched, ConfirmsThis

\* What is watched stays so when the node does not change and no handler that is
\* about to arm goes away.
LEMMA StillWatched ==
    ASSUME IInv, UNCHANGED <<agent, up>>,
           \A p : (ArmsNext(p) => ArmsNext(p)') /\ (UnconfirmsNext(p) => UnconfirmsNext(p)')
    PROVE  Watched' /\ ConfirmsThis'
BY DEF IInv, Watched, ConfirmsThis, Excused, HasTimer, Found, agent, files, due, history

\* A request arrives.
LEMMA ArriveInv == ASSUME IInv, NEW r \in Requests, Arrive(r) PROVE IInv'
<1>1. TypeOK' /\ Working' /\ Down' BY DEF IInv, TypeOK, Working, Down, Arrive, agent, files, due, history
<1>2. Requesting'
  <2>1. PICK k \in Kinds, p \in Ports :
            req' = [req EXCEPT ![r] = [pc |-> "send", kind |-> k, port |-> p, no |-> calls + 1]]
    BY DEF Arrive, Kinds
  <2>2. [pc |-> "send", kind |-> k, port |-> p, no |-> calls + 1] \in Busy BY DEF IInv, TypeOK, Busy
  <2> QED BY <2>1, <2>2 DEF IInv, Requesting
<1>3. Watched' /\ ConfirmsThis' BY StillWatched DEF Arrive, ArmsNext, UnconfirmsNext
<1> QED BY <1>1, <1>2, <1>3 DEF IInv

\* A request reaches the node, if the agent runs.
LEMMA SendInv == ASSUME IInv, Kind = "mirror", NEW r \in Requests, Send(r) PROVE IInv'
<1>0. req[r] \in Busy /\ req[r].pc = "send" BY DEF IInv, Requesting, Send, Idle
<1>1. TypeOK' /\ Down' BY DEF IInv, TypeOK, Down, Send, agent, files, due, history
<1>2. Requesting' BY <1>0 DEF IInv, Requesting, Send, Busy
<1>3. Working'
  <2> DEFINE o == [no |-> req[r].no, kind |-> req[r].kind, port |-> req[r].port, todo |-> Handler(req[r].kind), seen |-> FALSE]
  <2>1. AtWork(o)
    BY <1>0 DEF AtWork, Todos, Busy, Kinds, Handler, Enabling, Repairing, Disabling, Confirming,
              PortMirrorEnable, PortMirrorRepair, PortMirrorDisable, PortMirrorConfirm
  <2>2. ops' \subseteq ops \cup {o} BY DEF Send
  <2>3. \A q \in ops \cup {o} : AtWork(q) BY <2>1 DEF IInv, Working
  <2> QED BY <2>2, <2>3 DEF Working, AtWork
<1>4. ops \subseteq ops' BY DEF Send
<1>5. Watched' /\ ConfirmsThis' BY <1>4, StillWatched DEF Send, ArmsNext, UnconfirmsNext
<1> QED BY <1>1, <1>2, <1>3, <1>5 DEF IInv

\* The control plane gives up on an answer.
LEMMA GiveUpInv == ASSUME IInv, NEW r \in Requests, GiveUp(r) PROVE IInv'
<1>1. TypeOK' /\ Working' /\ Down' BY DEF IInv, TypeOK, Working, Down, GiveUp, agent, files, due, history
<1>2. Requesting' BY DEF IInv, Requesting, GiveUp
<1>3. Watched' /\ ConfirmsThis' BY StillWatched DEF GiveUp, ArmsNext, UnconfirmsNext
<1> QED BY <1>1, <1>2, <1>3 DEF IInv

\* It writes what it was answered into the row.
LEMMA WriteInv == ASSUME IInv, NEW r \in Requests, Write(r) PROVE IInv'
<1>0. req[r] \in Busy BY DEF IInv, Requesting, Write, Idle
<1>1. TypeOK'
  <2>1. row' \in [port : Ports \cup {NoPort}, waiting : BOOLEAN]
    BY <1>0 DEF IInv, TypeOK, Write, Busy, Off
  <2> QED BY <2>1 DEF IInv, TypeOK, Write, agent, files, due, history
<1>2. Requesting' BY DEF IInv, Requesting, Write
<1>3. Working' /\ Down' BY DEF IInv, Working, Down, Write, agent, due
<1>4. Watched' /\ ConfirmsThis' BY StillWatched DEF Write, ArmsNext, UnconfirmsNext
<1> QED BY <1>1, <1>2, <1>3, <1>4 DEF IInv

\* The row is reconciled.
LEMMA RowInv == ASSUME IInv, Reconcile PROVE IInv'
<1>1. TypeOK' BY DEF IInv, TypeOK, Reconcile, Off, agent, files, due, history
<1>2. Requesting' /\ Working' /\ Down' BY DEF IInv, Requesting, Working, Down, Reconcile, agent, due
<1>3. Watched' /\ ConfirmsThis' BY StillWatched DEF Reconcile, ArmsNext, UnconfirmsNext
<1> QED BY <1>1, <1>2, <1>3 DEF IInv

-----------------------------------------------------------------------------
(* The node.                                                               *)

\* The answer of a handler settles its request.
LEMMA AnswerInv ==
    ASSUME Requesting, NEW o, NEW pc \in {"idle", "write"}, Answer(o, pc) PROVE Requesting'
<1>1. SUFFICES ASSUME NEW r \in Requests PROVE req'[r] \in {Idle} \cup Busy
  BY DEF Requesting, Answer
<1>2. req[r] \in {Idle} \cup Busy BY DEF Requesting
<1>3. CASE req'[r] \in {req[r], Idle} BY <1>2, <1>3
<1>4. CASE req[r] # Idle /\ req'[r] = [req[r] EXCEPT !.pc = "write"] BY <1>2, <1>4 DEF Busy
<1> QED BY <1>3, <1>4 DEF Answer

\* What is left to do after a command.
LEMMA Rests ==
    /\ Tail(<<"look", "attach", "unconfirm", "arm">>) = <<"attach", "unconfirm", "arm">>
    /\ Tail(<<"attach", "unconfirm", "arm">>) = <<"unconfirm", "arm">>
    /\ Tail(<<"unconfirm", "arm">>) = <<"arm">>
    /\ Tail(<<"look", "attach", "unconfirm">>) = <<"attach", "unconfirm">>
    /\ Tail(<<"attach", "unconfirm">>) = <<"unconfirm">>
    /\ Tail(<<"detach", "unconfirm">>) = <<"unconfirm">>
    /\ Tail(<<"confirm", "forget">>) = <<"forget">>
OBVIOUS

\* A handler does its next command: what is left of it, and what stays with it.
LEMMA LeftInv ==
    ASSUME Working, NEW o \in ops, Work(o)
    PROVE  /\ Working'
           /\ \A p : ArmsNext(p) /\ ~(o.port = p /\ o.todo = <<"arm">>) => ArmsNext(p)'
           /\ \A p : UnconfirmsNext(p) /\ ~(o.port = p /\ o.todo = <<"unconfirm", "arm">>) => UnconfirmsNext(p)'
           /\ o.todo = <<"attach", "unconfirm", "arm">> => UnconfirmsNext(o.port)'
<1>1. AtWork(o) BY DEF Working
<1>2. CASE Len(o.todo) = 1
  <2>1. ops' = ops \ {o} BY <1>2 DEF Work
  <2>2. o.todo # <<"attach", "unconfirm", "arm">> /\ o.todo # <<"unconfirm", "arm">> BY <1>2
  <2> QED BY <2>1, <2>2 DEF Working, AtWork, ArmsNext, UnconfirmsNext
<1>3. CASE Len(o.todo) # 1
  <2> DEFINE q == Rest(o)
  <2>1. ops' = (ops \ {o}) \cup {q} BY <1>3 DEF Work
  <2>2. o.todo \notin {<<"arm">>, <<"unconfirm">>, <<"forget">>} BY <1>3
  <2>3. /\ q.kind = o.kind /\ q.port = o.port /\ q.todo = Tail(o.todo)
        /\ Tail(o.todo) \in Todos => q \in [no : Nat, kind : Kinds, port : Ports, todo : Todos, seen : BOOLEAN]
    BY <1>1 DEF AtWork, Rest, Found
  <2>4. AtWork(q)
    <3>1. CASE o.kind = "enable" /\ o.todo \in Enabling
      <4>1. q.todo \in Enabling BY <2>2, <2>3, <3>1, Rests DEF Enabling
      <4> QED BY <2>3, <3>1, <4>1 DEF AtWork, Todos
    <3>2. CASE o.kind = "repair" /\ o.todo \in Repairing
      <4>1. q.todo \in Repairing BY <2>2, <2>3, <3>2, Rests DEF Repairing
      <4> QED BY <2>3, <3>2, <4>1 DEF AtWork, Todos
    <3>3. CASE o.kind = "disable" /\ o.todo \in Disabling
      <4>1. q.todo \in Disabling BY <2>2, <2>3, <3>3, Rests DEF Disabling
      <4> QED BY <2>3, <3>3, <4>1 DEF AtWork, Todos
    <3>4. CASE o.kind = "confirm" /\ o.todo \in Confirming
      <4>1. q.todo \in Confirming BY <2>2, <2>3, <3>4, Rests DEF Confirming
      <4> QED BY <2>3, <3>4, <4>1 DEF AtWork, Todos
    <3> QED BY <1>1, <3>1, <3>2, <3>3, <3>4 DEF AtWork
  <2>5. Working' BY <2>1, <2>4 DEF Working, AtWork
  <2>6. q \in ops' BY <2>1
  <2>7. ASSUME NEW p, ArmsNext(p) PROVE ArmsNext(p)'
    <3>1. PICK x \in ops : x.kind = "enable" /\ x.port = p /\ x.todo \in {<<"unconfirm", "arm">>, <<"arm">>}
      BY <2>7 DEF ArmsNext
    <3>2. CASE x # o BY <2>1, <3>1, <3>2 DEF ArmsNext
    <3>3. CASE x = o
      <4>1. q.todo = <<"arm">> BY <2>2, <2>3, <3>1, <3>3, Rests
      <4> QED BY <2>3, <2>6, <3>1, <3>3, <4>1 DEF ArmsNext
    <3> QED BY <3>2, <3>3
  <2>8. ASSUME NEW p, UnconfirmsNext(p), ~(o.port = p /\ o.todo = <<"unconfirm", "arm">>)
        PROVE  UnconfirmsNext(p)'
    BY <2>1, <2>8 DEF UnconfirmsNext
  <2>9. ASSUME o.todo = <<"attach", "unconfirm", "arm">> PROVE UnconfirmsNext(o.port)'
    <3>1. o.kind = "enable" BY <1>1, <2>9 DEF AtWork, Repairing, Disabling, Confirming
    <3>2. q.todo = <<"unconfirm", "arm">> BY <2>3, <2>9, Rests
    <3> QED BY <2>3, <2>6, <3>1, <3>2 DEF UnconfirmsNext
  <2> QED BY <2>5, <2>7, <2>8, <2>9
<1> QED BY <1>2, <1>3

\* The removal of the deadline robs what stands unconfirmed of it, and no more.
LEMMA ForgetInv ==
    ASSUME IInv, up, Forget, UNCHANGED <<up, timers, detaching>>,
           \A t : (ArmsNext(t) => ArmsNext(t)') /\ (UnconfirmsNext(t) => UnconfirmsNext(t)')
    PROVE  Watched' /\ ConfirmsThis'
<1>1. ConfirmsThis' BY DEF IInv, ConfirmsThis, Forget, Found, Excused
<1>2. Watched'
  <2>1. SUFFICES ASSUME NEW t \in Ports, Found(t)', ~Excused(t)', ~ArmsNext(t)' PROVE HasTimer(t)'
    BY DEF Watched
  <2>2. HasTimer(t) /\ attached[t] = 1 /\ t \notin kept BY <2>1 DEF IInv, Watched, Found, Excused, Forget
  <2> QED BY <2>2 DEF HasTimer, Forget
<1> QED BY <1>1, <1>2

\* Detaching leaves nothing that has to be watched, or leaves all as it was.
LEMMA DetachInv ==
    ASSUME IInv, NEW p \in Ports, Ports = {p}, Detach(p), UNCHANGED <<up, files, timers>>,
           timers[p] + detaching[p] > 0 => timers[p]' + detaching[p]' > 0 \/ Found(p),
           ~up => UNCHANGED detaching,
           \A t : (ArmsNext(t) => ArmsNext(t)') /\ (UnconfirmsNext(t) => UnconfirmsNext(t)')
    PROVE  Watched' /\ ConfirmsThis'
<1>1. CASE Found(p)
  <2>1. ~Found(p)' BY <1>1 DEF Detach, Found, IInv, TypeOK
  <2> QED BY <2>1 DEF Watched, ConfirmsThis
<1>2. CASE ~Found(p)
  <2>1. ~Found(p)' BY <1>2 DEF Detach, Found
  <2> QED BY <2>1 DEF Watched, ConfirmsThis
<1> QED BY <1>1, <1>2

\* A handler does its next command. There is one port: what it attaches it arms
\* next, what it arms is that port, and what it detaches is all there was.
LEMMA WorkInv ==
    ASSUME IInv, Kind = "mirror", NEW p \in Ports, Ports = {p}, NEW o \in ops, Work(o) PROVE IInv'
<1>0. AtWork(o) /\ o.port = p /\ up BY DEF IInv, Working, AtWork, Down
<1>1. Requesting'
  <2>1. CASE UNCHANGED req BY <2>1 DEF IInv, Requesting
  <2>2. CASE Answer(o, "write") BY <2>2, AnswerInv DEF IInv
  <2> QED BY <2>1, <2>2 DEF Work
<1>2. /\ Working'
      /\ \A t : ArmsNext(t) /\ ~(o.port = t /\ o.todo = <<"arm">>) => ArmsNext(t)'
      /\ \A t : UnconfirmsNext(t) /\ ~(o.port = t /\ o.todo = <<"unconfirm", "arm">>) => UnconfirmsNext(t)'
      /\ o.todo = <<"attach", "unconfirm", "arm">> => UnconfirmsNext(o.port)'
  BY LeftInv DEF IInv
<1>3. UNCHANGED <<row, up, calls, faults>> /\ Perform(o) BY DEF Work
<1>d. Down' BY <1>0, <1>3 DEF Down
<1>4. CASE Head(o.todo) = "look"
  <2>1. UNCHANGED agent BY <1>3, <1>4 DEF Perform
  <2>2. TypeOK' BY <1>3, <2>1 DEF IInv, TypeOK, agent, files, due, history
  <2>3. o.todo # <<"arm">> /\ o.todo # <<"unconfirm", "arm">> BY <1>4
  <2>4. Watched' /\ ConfirmsThis' BY <1>2, <1>3, <2>1, <2>3, StillWatched
  <2> QED BY <1>1, <1>2, <1>d, <2>2, <2>4 DEF IInv
<1>5. CASE Head(o.todo) = "attach"
  <2>1. Attach(o) BY <1>3, <1>5 DEF Perform
  <2>2. TypeOK'
    <3>1. attached' \in [Ports -> Nat]
      BY <1>0, <2>1 DEF Attach, IInv, TypeOK
    <3>2. kept' \subseteq Ports /\ torn' \subseteq Ports BY <1>0, <2>1 DEF Attach, IInv, TypeOK
    <3> QED BY <1>3, <2>1, <3>1, <3>2 DEF IInv, TypeOK, Attach, files, due
  <2>3. \/ o.kind = "enable" /\ o.todo = <<"attach", "unconfirm", "arm">>
        \/ o.kind = "repair"
    BY <1>0, <1>5 DEF AtWork, Enabling, Repairing, Disabling, Confirming
  <2>4. UnconfirmsNext(p)' \/ p \in kept' BY <1>0, <1>2, <2>1, <2>3 DEF Attach
  <2>5. UnconfirmsNext(p)' => ArmsNext(p)' BY DEF UnconfirmsNext, ArmsNext
  <2> QED BY <1>1, <1>2, <1>d, <2>2, <2>4, <2>5 DEF IInv, Watched, ConfirmsThis, Excused
<1>6. CASE Head(o.todo) = "arm"
  <2>1. Arm(o) BY <1>3, <1>6 DEF Perform
  <2>2. saved' = TRUE BY <2>1 DEF Arm
  <2>3. timers' \in [Ports -> Nat] /\ timers'[p] > 0
    <3>1. timers \in [Ports -> Nat] /\ timers' = [timers EXCEPT ![p] = @ + 1]
      BY <1>0, <2>1 DEF Arm, IInv, TypeOK
    <3>2. timers[p] + 1 \in Nat /\ timers[p] + 1 > 0 BY <3>1
    <3> QED BY <3>1, <3>2
  <2>4. TypeOK' BY <1>3, <2>1, <2>2, <2>3 DEF IInv, TypeOK, Arm
  <2>5. HasTimer(p)' BY <1>0, <1>3, <2>2, <2>3, <2>4 DEF HasTimer, TypeOK
  <2>6. o.todo # <<"unconfirm", "arm">> BY <1>6
  <2>7. ConfirmsThis' BY <1>2, <2>1, <2>6 DEF IInv, ConfirmsThis, Arm, Found, Excused
  <2> QED BY <1>1, <1>2, <1>d, <2>4, <2>5, <2>7 DEF IInv, Watched
<1>7. CASE Head(o.todo) = "confirm"
  <2>1. ConfirmOnNode BY <1>3, <1>7 DEF Perform
  <2>2. TypeOK' BY <1>3, <2>1 DEF IInv, TypeOK, ConfirmOnNode, due
  <2>3. \A t \in Ports : Found(t)' => t \in kept' BY <2>1 DEF ConfirmOnNode, Found
  <2> QED BY <1>1, <1>2, <1>d, <2>2, <2>3 DEF IInv, Watched, ConfirmsThis, Excused
<1>8. CASE Head(o.todo) = "forget"
  <2>1. Forget /\ UNCHANGED due BY <1>3, <1>8 DEF Perform
  <2>2. TypeOK' BY <1>3, <2>1 DEF IInv, TypeOK, Forget, due
  <2>3. o.todo # <<"arm">> /\ o.todo # <<"unconfirm", "arm">> BY <1>8
  <2>4. Watched' /\ ConfirmsThis' BY <1>0, <1>2, <1>3, <2>1, <2>3, ForgetInv DEF due
  <2> QED BY <1>1, <1>2, <1>d, <2>2, <2>4 DEF IInv
<1>9. CASE Head(o.todo) = "detach"
  <2>1. Detach(p) /\ UNCHANGED <<files, due>> BY <1>0, <1>3, <1>9 DEF Perform
  <2>2. TypeOK' BY <1>3, <2>1 DEF IInv, TypeOK, Detach, files, due, history
  <2>3. o.todo # <<"arm">> /\ o.todo # <<"unconfirm", "arm">> BY <1>9
  <2>4. Watched' /\ ConfirmsThis' BY <1>2, <1>3, <2>1, <2>3, DetachInv DEF due
  <2> QED BY <1>1, <1>2, <1>d, <2>2, <2>4 DEF IInv
<1>10. CASE Head(o.todo) \notin {"look", "attach", "arm", "confirm", "forget", "detach"}
  <2>1. confirm' = FALSE /\ UNCHANGED <<attached, saved, due, history>>
    BY <1>3, <1>10 DEF Perform, Unconfirm
  <2>2. TypeOK' BY <1>3, <2>1 DEF IInv, TypeOK, due, history
  <2>3. o.todo # <<"arm">> BY <1>10
  <2>4. Watched' BY <1>2, <1>3, <2>1, <2>3 DEF IInv, Watched, Excused, HasTimer, Found, due, history
  <2> QED BY <1>1, <1>2, <1>d, <2>1, <2>2, <2>4 DEF IInv, ConfirmsThis
<1> QED BY <1>4, <1>5, <1>6, <1>7, <1>8, <1>9, <1>10

\* A command of a handler fails; a mirror's has armed nothing.
LEMMA AttachFailsInv ==
    ASSUME IInv, Kind = "mirror", NEW o \in ops, AttachFails(o) PROVE IInv'
<1>1. Requesting' BY AnswerInv DEF AttachFails, IInv
<1>2. Working' BY DEF IInv, Working, AtWork, AttachFails
<1>5. TypeOK' /\ Down' BY DEF IInv, TypeOK, Down, AttachFails, agent, files, due, history
<1>3. o.todo # <<"arm">> /\ o.todo # <<"unconfirm", "arm">> BY DEF AttachFails
<1>4. Watched' /\ ConfirmsThis' BY <1>3, StillWatched DEF AttachFails, ArmsNext, UnconfirmsNext
<1> QED BY <1>1, <1>2, <1>4, <1>5 DEF IInv

\* A count of timers goes up and down within the naturals.
LEMMA Counts ==
    ASSUME NEW f \in [Ports -> Nat], NEW p \in Ports
    PROVE  [f EXCEPT ![p] = @ + 1] \in [Ports -> Nat] /\ (f[p] > 0 => [f EXCEPT ![p] = @ - 1] \in [Ports -> Nat])
<1>1. f[p] \in Nat /\ f[p] + 1 \in Nat /\ (f[p] > 0 => f[p] - 1 \in Nat) OBVIOUS
<1> QED BY <1>1

\* A timer runs out: if the confirm file is there it speaks of what is attached,
\* and otherwise the timer is one that detaches.
LEMMA FireInv ==
    ASSUME IInv, NEW p \in Ports, Ports = {p}, Fire(p) PROVE IInv'
<1>1. up /\ UNCHANGED <<up, ops, confirm, saved, attached, kept, torn, robbed>>
  BY DEF IInv, Down, None, Fire, files, history
<1>2. Requesting' /\ Working' /\ Down' BY <1>1 DEF IInv, Requesting, Working, Down, Fire
<1>3. TypeOK' BY Counts DEF IInv, TypeOK, Fire, files, history
<1>4. ConfirmsThis' BY <1>1 DEF IInv, ConfirmsThis, Found, Excused, UnconfirmsNext
<1>5. \A t : ArmsNext(t) => ArmsNext(t)' BY <1>1 DEF ArmsNext
<1>6. Watched'
  <2>1. CASE confirm
    BY <1>1, <1>5, <2>1 DEF IInv, ConfirmsThis, Watched, Excused, Found, UnconfirmsNext, ArmsNext
  <2>2. CASE ~confirm
    <3>1. timers'[p] + detaching'[p] = timers[p] + detaching[p]
      BY <2>2 DEF IInv, TypeOK, Fire
    <3> QED BY <1>1, <1>5, <3>1 DEF IInv, Watched, HasTimer, Excused, Found
  <2> QED BY <2>1, <2>2
<1> QED BY <1>2, <1>3, <1>4, <1>6 DEF IInv

\* A timer detaches, or fails to.
LEMMA UndoInv ==
    ASSUME IInv, NEW p \in Ports, Ports = {p}, Undo(p) PROVE IInv'
<1>1. up /\ UNCHANGED <<up, ops, files, timers>> BY DEF IInv, Down, None, Undo
<1>2. Requesting' /\ Working' /\ Down' BY <1>1 DEF IInv, Requesting, Working, Down, Undo
<1>3. TypeOK'
  <2>1. detaching' \in [Ports -> Nat] /\ forgetting' \in [Ports -> Nat] BY Counts DEF IInv, TypeOK, Undo
  <2>2. CASE Detach(p) /\ UNCHANGED faults
    BY <1>1, <2>1, <2>2 DEF IInv, TypeOK, Undo, Detach, files, history
  <2>3. CASE faults' = faults + 1 /\ torn' = torn \cup {p} /\ UNCHANGED <<attached, kept, robbed>>
    BY <1>1, <2>1, <2>3 DEF IInv, TypeOK, Undo, files
  <2> QED BY <2>2, <2>3 DEF Undo
<1>4. Watched' /\ ConfirmsThis'
  <2>1. CASE Detach(p)
    <3>1. ~Found(p)' BY <2>1 DEF Detach, Found, IInv, TypeOK
    <3> QED BY <3>1 DEF Watched, ConfirmsThis
  <2>2. CASE torn' = torn \cup {p} BY <2>2 DEF Watched, ConfirmsThis, Excused
  <2> QED BY <2>1, <2>2 DEF Undo
<1> QED BY <1>2, <1>3, <1>4 DEF IInv

\* A timer removes the file with the deadline.
LEMMA DoneInv ==
    ASSUME IInv, NEW p \in Ports, Done(p) PROVE IInv'
<1>1. up /\ UNCHANGED <<up, ops, timers, detaching>> BY DEF IInv, Down, None, Done
<1>2. Requesting' /\ Working' /\ Down' BY <1>1 DEF IInv, Requesting, Working, Down, Done
<1>3. TypeOK'
  <2>1. forgetting' \in [Ports -> Nat] BY Counts DEF IInv, TypeOK, Done
  <2>2. saved' \in BOOLEAN /\ robbed' \subseteq Ports BY DEF IInv, TypeOK, Done, Forget
  <2>3. UNCHANGED <<row, attached, confirm, timers, detaching, up, calls, faults, kept, torn>> BY DEF Done, Forget
  <2> QED BY <2>1, <2>2, <2>3 DEF IInv, TypeOK
<1>4. Watched' /\ ConfirmsThis' BY <1>1, ForgetInv DEF Done, ArmsNext, UnconfirmsNext
<1> QED BY <1>2, <1>3, <1>4 DEF IInv

\* The agent stops, and a handler that had to arm the watchdog does not.
LEMMA StopInv == ASSUME IInv, Stop PROVE IInv'
<1>1. Requesting' BY DEF IInv, Requesting, Stop
<1>2. Working' /\ Down' BY DEF Working, Down, Stop
<1>5. TypeOK'
  <2>1. {o.port : o \in {q \in ops : q.kind = "enable"}} \subseteq Ports BY DEF IInv, Working, AtWork
  <2>2. torn' \subseteq Ports BY <2>1 DEF IInv, TypeOK, Stop
  <2>3. {timers', detaching', forgetting'} \subseteq [Ports -> Nat] BY DEF Stop, None
  <2>4. /\ up' = FALSE /\ faults' = faults + 1 /\ robbed' = {}
        /\ UNCHANGED <<row, attached, confirm, saved, calls, kept>>
    BY DEF Stop, files
  <2>5. up' \in BOOLEAN /\ robbed' \subseteq Ports BY <2>4
  <2>7. faults' \in Nat BY <2>4 DEF IInv, TypeOK
  <2>6. /\ row' \in [port : Ports \cup {NoPort}, waiting : BOOLEAN] /\ attached' \in [Ports -> Nat]
        /\ confirm' \in BOOLEAN /\ saved' \in BOOLEAN /\ calls' \in Nat /\ kept' \subseteq Ports
    BY <2>4 DEF IInv, TypeOK
  <2> QED BY <2>2, <2>3, <2>5, <2>6, <2>7 DEF TypeOK
<1>3. \A t : Excused(t) \/ ArmsNext(t) \/ UnconfirmsNext(t) => Excused(t)'
  BY DEF Excused, ArmsNext, UnconfirmsNext, Stop
<1>4. Watched'
  <2>1. SUFFICES ASSUME NEW t \in Ports, Found(t)', ~Excused(t)' PROVE saved'
    BY DEF Watched, HasTimer, Stop
  <2>2. HasTimer(t) /\ up BY <1>3, <2>1 DEF IInv, Watched, Found, Stop
  <2> QED BY <2>1, <2>2 DEF HasTimer, Stop, Excused, files
<1>6. ConfirmsThis' BY <1>3 DEF IInv, ConfirmsThis, Stop, Found, files
<1> QED BY <1>1, <1>2, <1>4, <1>5, <1>6 DEF IInv

\* It starts again, and arms from the file.
LEMMA StartInv == ASSUME IInv, Start PROVE IInv'
<1>1. Requesting' /\ Working' /\ Down' BY DEF IInv, Requesting, Working, Down, Start
<1>2. TypeOK' BY DEF IInv, TypeOK, Start, Rearm, None, files, history
<1>3. ConfirmsThis' BY DEF IInv, ConfirmsThis, Start, Found, Excused, UnconfirmsNext, files, history
<1>4. Watched'
  <2>1. SUFFICES ASSUME NEW t \in Ports, Found(t)', ~Excused(t)', ~ArmsNext(t)' PROVE HasTimer(t)'
    BY DEF Watched
  <2>2. saved /\ saved' /\ up' /\ timers'[t] = 1
    BY <2>1 DEF IInv, Watched, HasTimer, Found, Excused, ArmsNext, Start, Rearm, files, history
  <2>3. timers'[t] + detaching'[t] > 0 BY <1>2, <2>2 DEF TypeOK
  <2> QED BY <2>2, <2>3 DEF HasTimer
<1> QED BY <1>1, <1>2, <1>3, <1>4 DEF IInv

-----------------------------------------------------------------------------
(* The theorems.                                                           *)

\* Every step of the system keeps the invariant, when the node has one mirror.
LEMMA NextInv ==
    ASSUME IInv, Kind = "mirror", NEW p \in Ports, Ports = {p}, [Next]_vars PROVE IInv'
<1>1. CASE UNCHANGED vars
  BY <1>1 DEF vars, IInv, TypeOK, Requesting, Working, AtWork, Down, Watched, ConfirmsThis, Excused,
              HasTimer, Found, ArmsNext, UnconfirmsNext
<1>2. CASE \E r \in Requests : Arrive(r) \/ Send(r) \/ GiveUp(r) \/ Write(r)
  BY <1>2, ArriveInv, SendInv, GiveUpInv, WriteInv
<1>3. CASE Reconcile BY <1>3, RowInv
<1>4. CASE \E o \in ops : Work(o) \/ AttachFails(o) BY <1>4, WorkInv, AttachFailsInv
<1>5. CASE Stop \/ Start BY <1>5, StopInv, StartInv
<1>6. CASE \E t \in Ports : Fire(t) \/ Undo(t) \/ Done(t) BY <1>6, FireInv, UndoInv, DoneInv
<1> QED BY <1>1, <1>2, <1>3, <1>4, <1>5, <1>6 DEF Next

\* What is attached and unconfirmed is excused in time or watched.
LEMMA InvGuarded == ASSUME IInv PROVE Guarded
<1>1. \A p : ArmsNext(p) => Arming(p)
  <2>1. SUFFICES ASSUME NEW p, ArmsNext(p) PROVE Arming(p) OBVIOUS
  <2>2. PICK o \in ops : o.kind = "enable" /\ o.port = p /\ o.todo \in {<<"unconfirm", "arm">>, <<"arm">>}
    BY <2>1 DEF ArmsNext
  <2>3. \E i \in DOMAIN o.todo : o.todo[i] = "arm"
    <3>1. CASE o.todo = <<"arm">> BY <3>1
    <3>2. CASE o.todo = <<"unconfirm", "arm">>
      <4>1. 2 \in DOMAIN o.todo /\ o.todo[2] = "arm" BY <3>2
      <4> QED BY <4>1
    <3> QED BY <2>2, <3>1, <3>2
  <2> QED BY <2>2, <2>3 DEF Arming
<1> QED BY <1>1 DEF IInv, Watched, Excused, HasTimer, Guarded

\* The watchdog's variables keep their types, whatever requests, restarts and
\* failures there are (portMirrorEnable and its siblings on the node).
THEOREM WatchdogTypes ==
    ASSUME Kind = "mirror", NEW p \in Ports, Ports = {p} PROVE Spec => []TypeOK
<1>1. Init => IInv BY InitInv
<1>2. IInv /\ [Next]_vars => IInv' BY NextInv
<1>3. IInv => TypeOK BY DEF IInv
<1> QED BY <1>1, <1>2, <1>3, PTL DEF Spec

\* A mirror that nobody confirmed never stands without a watchdog: a timer, a
\* handler that has it to arm, or the deadline on disk from which the agent
\* arms it when it starts (rearmMirrorWatchdogs). What it says nothing of is in
\* Guarded: two rows of one name, a restart in the middle of the handler or after
\* another one's timer or Confirm removed the deadline, a command that failed.
THEOREM MirrorGuarded ==
    ASSUME Kind = "mirror", NEW p \in Ports, Ports = {p} PROVE Spec => []Guarded
<1>1. Init => IInv BY InitInv
<1>2. IInv /\ [Next]_vars => IInv' BY NextInv
<1>3. IInv => Guarded BY InvGuarded
<1> QED BY <1>1, <1>2, <1>3, PTL DEF Spec
=============================================================================
