--------------------------- MODULE NetworkProofs ---------------------------
(***************************************************************************)
(* For any calls, faults, groups, edits, machines, hosts and tokens: what  *)
(* a rollback of a firewall opens stays open, what is sent of a security   *)
(* group was seen, a free address leads nowhere, a state directory fits    *)
(* together when it can be started from, and who enrolled has its row.     *)
(* The components are the instances of MCWatchdog: F Firewalls, G          *)
(* SecurityGroups, P PublicIP, N NodeEnroll.                               *)
(***************************************************************************)
EXTENDS MCWatchdog, TLAPS, SequenceTheorems

\* What a queue is after its first element went, was replaced, or another came.
LEMMA QueueSteps ==
    ASSUME NEW T, NEW s \in Seq(T)
    PROVE  /\ s # <<>> => Head(s) \in T /\ Tail(s) \in Seq(T)
           /\ \A x \in T :
                /\ Append(s, x) \in Seq(T) /\ Append(s, x) # <<>>
                /\ s # <<>> => Head(Append(s, x)) = Head(s)
                /\ s # <<>> => /\ <<x>> \o Tail(s) \in Seq(T) /\ <<x>> \o Tail(s) # <<>>
                               /\ Head(<<x>> \o Tail(s)) = x
<1>1. s # <<>> => Head(s) \in T /\ Tail(s) \in Seq(T) OBVIOUS
<1> QED BY <1>1

-----------------------------------------------------------------------------
(* Firewalls: the invariant.                                               *)

FirewallCommands == {"make", "flush", "fill", "hook", "unhook", "remove", "policy", "accept"}
\* What a rollback has still to do.
RollbackFrom(l, n) ==
    CASE n = 7 -> <<<<"unhook", "node">>, <<"flush", "node">>, <<"remove", "node">>, <<"unhook", "host">>, <<"flush", "host">>, <<"remove", "host">>, <<"accept", l>>>>
      [] n = 6 -> <<<<"flush", "node">>, <<"remove", "node">>, <<"unhook", "host">>, <<"flush", "host">>, <<"remove", "host">>, <<"accept", l>>>>
      [] n = 5 -> <<<<"remove", "node">>, <<"unhook", "host">>, <<"flush", "host">>, <<"remove", "host">>, <<"accept", l>>>>
      [] n = 4 -> <<<<"unhook", "host">>, <<"flush", "host">>, <<"remove", "host">>, <<"accept", l>>>>
      [] n = 3 -> <<<<"flush", "host">>, <<"remove", "host">>, <<"accept", l>>>>
      [] n = 2 -> <<<<"remove", "host">>, <<"accept", l>>>>
      [] n = 1 -> <<<<"accept", l>>>>
RollbackTodos == {RollbackFrom(l, n) : l \in F!Layers, n \in 1..7}
ApplyTodos == Seq(FirewallCommands \X F!Layers) \ {<<>>}

FirewallOrders ==
    [kind : {"apply"}, layer : F!Layers, no : Nat, on : BOOLEAN, deny : BOOLEAN, spec : SUBSET Nat, todo : ApplyTodos]
    \cup [kind : {"rollback"}, layer : F!Layers, no : Nat, on : BOOLEAN, deny : BOOLEAN, spec : SUBSET Nat,
          todo : RollbackTodos]
FirewallTasks == [order : FirewallOrders, sent : BOOLEAN]
FirewallRequests ==
    {F!Idle}
    \cup [pc : {"bump"}, layer : F!Layers]
    \cup [pc : {"rules", "wait"}, layer : F!Layers, no : Nat, on : BOOLEAN, deny : BOOLEAN]
    \cup [pc : {"wait"}, layer : F!Layers, no : Nat]
    \cup [pc : {"write"}, layer : F!Layers, order : FirewallOrders]

FirewallTyped ==
    /\ enabled \in [F!Layers -> BOOLEAN] /\ deny \in [F!Layers -> BOOLEAN]
    /\ rules \in [F!Layers -> SUBSET Nat] /\ hooked \in [F!Layers -> Nat]
    /\ \A l \in F!Layers : hooked[l] > 1 => l \in twice
    /\ tasks \in Seq(FirewallTasks) /\ commands \subseteq FirewallOrders
    /\ handler \in [Requests -> FirewallRequests]
    /\ accepted \in Nat /\ opened \in BOOLEAN

\* What was opened, or is being opened, has no apply that could close it.
Settled == opened \/ opening # {} => ~F!ApplyUnderWay

\* How far a rollback that opens has come.
Free(l) == hooked[l] = 0 \/ l \in twice
OnItsWay ==
    \A o \in commands : o.no \in opening =>
        /\ Len(o.todo) <= 6 => Free("node")
        /\ Len(o.todo) <= 3 => Free("host")

\* Rollbacks are numbered: one that is not sent is not on the node under its number,
\* and has everything to do.
IsRollback(o) == o.kind = "rollback"
Numbered ==
    /\ \A o \in commands : IsRollback(o) => o.no <= accepted
    /\ \A i \in DOMAIN tasks : IsRollback(tasks[i].order) =>
        /\ tasks[i].order.no <= accepted /\ Len(tasks[i].order.todo) = 7
        /\ \A j \in DOMAIN tasks : j # i /\ IsRollback(tasks[j].order) => tasks[j].order.no # tasks[i].order.no
        /\ ~tasks[i].sent => \A o \in commands : IsRollback(o) => o.no # tasks[i].order.no

FirewallInv == FirewallTyped /\ Settled /\ OnItsWay /\ Numbered /\ F!RollbackOpens

LEMMA FirewallInitInv == ASSUME F!Init PROVE FirewallInv
<1>1. tasks \in Seq(FirewallTasks) BY DEF F!Init
<1>2. FirewallTyped BY <1>1 DEF F!Init, FirewallTyped, FirewallRequests
<1>3. ~F!ApplyUnderWay BY DEF F!Init, F!ApplyUnderWay
<1>4. Settled /\ OnItsWay /\ Numbered /\ F!RollbackOpens
  BY <1>3 DEF F!Init, Settled, OnItsWay, Numbered, F!RollbackOpens
<1> QED BY <1>2, <1>4 DEF FirewallInv

-----------------------------------------------------------------------------
(* Firewalls: orders.                                                      *)

LEMMA RollbackStep ==
    ASSUME NEW todo \in RollbackTodos
    PROVE  /\ Len(todo) \in 1..7
           /\ Len(todo) # 1 => Tail(todo) \in RollbackTodos /\ Len(Tail(todo)) = Len(todo) - 1
           /\ Head(todo)[1] \in {"unhook", "flush", "remove", "accept"} /\ Head(todo)[2] \in F!Layers
           /\ Len(todo) = 7 => Head(todo) = <<"unhook", "node">>
           /\ Len(todo) = 4 => Head(todo) = <<"unhook", "host">>
           /\ Len(todo) = 1 => Head(todo)[1] = "accept"
<1>1. PICK l \in F!Layers, n \in 1..7 : todo = RollbackFrom(l, n) BY DEF RollbackTodos
<1>2. "node" \in F!Layers /\ "host" \in F!Layers BY DEF F!Layers
<1>a. CASE n = 7
  <2>1. todo = <<<<"unhook", "node">>, <<"flush", "node">>, <<"remove", "node">>, <<"unhook", "host">>, <<"flush", "host">>, <<"remove", "host">>, <<"accept", l>>>> BY <1>1, <1>a DEF RollbackFrom
  <2>2. Tail(todo) = <<<<"flush", "node">>, <<"remove", "node">>, <<"unhook", "host">>, <<"flush", "host">>, <<"remove", "host">>, <<"accept", l>>>> BY <2>1
  <2>3. RollbackFrom(l, 6) = <<<<"flush", "node">>, <<"remove", "node">>, <<"unhook", "host">>, <<"flush", "host">>, <<"remove", "host">>, <<"accept", l>>>> BY DEF RollbackFrom
  <2>6. \A m \in 1..7 : RollbackFrom(l, m) \in RollbackTodos BY DEF RollbackTodos
  <2>7. 6 \in 1..7 OBVIOUS
  <2>8. RollbackFrom(l, 6) \in RollbackTodos BY <2>6, <2>7, Zenon
  <2>9. Tail(todo) = RollbackFrom(l, 6) BY <2>2, <2>3, Zenon
  <2>4. Tail(todo) \in RollbackTodos BY <2>8, <2>9, Zenon
  <2>5. Head(todo) = <<"unhook", "node">> /\ Len(todo) = 7 /\ Len(Tail(todo)) = 6 BY <2>1, <2>2
  <2> QED BY <1>2, <2>4, <2>5
<1>b. CASE n = 6
  <2>1. todo = <<<<"flush", "node">>, <<"remove", "node">>, <<"unhook", "host">>, <<"flush", "host">>, <<"remove", "host">>, <<"accept", l>>>> BY <1>1, <1>b DEF RollbackFrom
  <2>2. Tail(todo) = <<<<"remove", "node">>, <<"unhook", "host">>, <<"flush", "host">>, <<"remove", "host">>, <<"accept", l>>>> BY <2>1
  <2>3. RollbackFrom(l, 5) = <<<<"remove", "node">>, <<"unhook", "host">>, <<"flush", "host">>, <<"remove", "host">>, <<"accept", l>>>> BY DEF RollbackFrom
  <2>6. \A m \in 1..7 : RollbackFrom(l, m) \in RollbackTodos BY DEF RollbackTodos
  <2>7. 5 \in 1..7 OBVIOUS
  <2>8. RollbackFrom(l, 5) \in RollbackTodos BY <2>6, <2>7, Zenon
  <2>9. Tail(todo) = RollbackFrom(l, 5) BY <2>2, <2>3, Zenon
  <2>4. Tail(todo) \in RollbackTodos BY <2>8, <2>9, Zenon
  <2>5. Head(todo) = <<"flush", "node">> /\ Len(todo) = 6 /\ Len(Tail(todo)) = 5 BY <2>1, <2>2
  <2> QED BY <1>2, <2>4, <2>5
<1>c. CASE n = 5
  <2>1. todo = <<<<"remove", "node">>, <<"unhook", "host">>, <<"flush", "host">>, <<"remove", "host">>, <<"accept", l>>>> BY <1>1, <1>c DEF RollbackFrom
  <2>2. Tail(todo) = <<<<"unhook", "host">>, <<"flush", "host">>, <<"remove", "host">>, <<"accept", l>>>> BY <2>1
  <2>3. RollbackFrom(l, 4) = <<<<"unhook", "host">>, <<"flush", "host">>, <<"remove", "host">>, <<"accept", l>>>> BY DEF RollbackFrom
  <2>6. \A m \in 1..7 : RollbackFrom(l, m) \in RollbackTodos BY DEF RollbackTodos
  <2>7. 4 \in 1..7 OBVIOUS
  <2>8. RollbackFrom(l, 4) \in RollbackTodos BY <2>6, <2>7, Zenon
  <2>9. Tail(todo) = RollbackFrom(l, 4) BY <2>2, <2>3, Zenon
  <2>4. Tail(todo) \in RollbackTodos BY <2>8, <2>9, Zenon
  <2>5. Head(todo) = <<"remove", "node">> /\ Len(todo) = 5 /\ Len(Tail(todo)) = 4 BY <2>1, <2>2
  <2> QED BY <1>2, <2>4, <2>5
<1>d. CASE n = 4
  <2>1. todo = <<<<"unhook", "host">>, <<"flush", "host">>, <<"remove", "host">>, <<"accept", l>>>> BY <1>1, <1>d DEF RollbackFrom
  <2>2. Tail(todo) = <<<<"flush", "host">>, <<"remove", "host">>, <<"accept", l>>>> BY <2>1
  <2>3. RollbackFrom(l, 3) = <<<<"flush", "host">>, <<"remove", "host">>, <<"accept", l>>>> BY DEF RollbackFrom
  <2>6. \A m \in 1..7 : RollbackFrom(l, m) \in RollbackTodos BY DEF RollbackTodos
  <2>7. 3 \in 1..7 OBVIOUS
  <2>8. RollbackFrom(l, 3) \in RollbackTodos BY <2>6, <2>7, Zenon
  <2>9. Tail(todo) = RollbackFrom(l, 3) BY <2>2, <2>3, Zenon
  <2>4. Tail(todo) \in RollbackTodos BY <2>8, <2>9, Zenon
  <2>5. Head(todo) = <<"unhook", "host">> /\ Len(todo) = 4 /\ Len(Tail(todo)) = 3 BY <2>1, <2>2
  <2> QED BY <1>2, <2>4, <2>5
<1>e. CASE n = 3
  <2>1. todo = <<<<"flush", "host">>, <<"remove", "host">>, <<"accept", l>>>> BY <1>1, <1>e DEF RollbackFrom
  <2>2. Tail(todo) = <<<<"remove", "host">>, <<"accept", l>>>> BY <2>1
  <2>3. RollbackFrom(l, 2) = <<<<"remove", "host">>, <<"accept", l>>>> BY DEF RollbackFrom
  <2>6. \A m \in 1..7 : RollbackFrom(l, m) \in RollbackTodos BY DEF RollbackTodos
  <2>7. 2 \in 1..7 OBVIOUS
  <2>8. RollbackFrom(l, 2) \in RollbackTodos BY <2>6, <2>7, Zenon
  <2>9. Tail(todo) = RollbackFrom(l, 2) BY <2>2, <2>3, Zenon
  <2>4. Tail(todo) \in RollbackTodos BY <2>8, <2>9, Zenon
  <2>5. Head(todo) = <<"flush", "host">> /\ Len(todo) = 3 /\ Len(Tail(todo)) = 2 BY <2>1, <2>2
  <2> QED BY <1>2, <2>4, <2>5
<1>f. CASE n = 2
  <2>1. todo = <<<<"remove", "host">>, <<"accept", l>>>> BY <1>1, <1>f DEF RollbackFrom
  <2>2. Tail(todo) = <<<<"accept", l>>>> BY <2>1
  <2>3. RollbackFrom(l, 1) = <<<<"accept", l>>>> BY DEF RollbackFrom
  <2>6. \A m \in 1..7 : RollbackFrom(l, m) \in RollbackTodos BY DEF RollbackTodos
  <2>7. 1 \in 1..7 OBVIOUS
  <2>8. RollbackFrom(l, 1) \in RollbackTodos BY <2>6, <2>7, Zenon
  <2>9. Tail(todo) = RollbackFrom(l, 1) BY <2>2, <2>3, Zenon
  <2>4. Tail(todo) \in RollbackTodos BY <2>8, <2>9, Zenon
  <2>5. Head(todo) = <<"remove", "host">> /\ Len(todo) = 2 /\ Len(Tail(todo)) = 1 BY <2>1, <2>2
  <2> QED BY <1>2, <2>4, <2>5
<1>g. CASE n = 1
  <2>1. todo = <<<<"accept", l>>>> BY <1>1, <1>g DEF RollbackFrom
  <2>2. Head(todo) = <<"accept", l>> /\ Len(todo) = 1 BY <2>1
  <2> QED BY <2>2
<1> QED BY <1>1, <1>a, <1>b, <1>c, <1>d, <1>e, <1>f, <1>g

LEMMA ApplyOrder ==
    ASSUME NEW l \in F!Layers, NEW no \in Nat, NEW on \in BOOLEAN, NEW d \in BOOLEAN, NEW spec \in SUBSET Nat
    PROVE  F!Order("apply", l, no, on, d, spec) \in FirewallOrders /\ F!Order("apply", l, no, on, d, spec).kind = "apply"
<1>1. ASSUME NEW cs \in Seq(FirewallCommands), Len(cs) > 0 PROVE F!On(l, cs) \in ApplyTodos
  <2>1. F!On(l, cs) = [i \in 1..Len(cs) |-> <<cs[i], l>>] BY <1>1 DEF F!On
  <2>2. Len(cs) \in Nat /\ \A i \in 1..Len(cs) : <<cs[i], l>> \in FirewallCommands \X F!Layers OBVIOUS
  <2> DEFINE CL == FirewallCommands \X F!Layers
  <2> HIDE DEF CL
  <2>3. F!On(l, cs) \in [1..Len(cs) -> CL] BY <2>1, <2>2 DEF CL
  <2>4. F!On(l, cs) \in Seq(CL) BY <2>2, <2>3, SeqDef
  <2>5. F!On(l, cs) # <<>>
    <3>1. 1 \in DOMAIN F!On(l, cs) BY <1>1, <2>1, <2>2
    <3> QED BY <3>1
  <2> QED BY <2>4, <2>5 DEF ApplyTodos, CL
<1>2. ASSUME NEW cs, cs \in {<<"make", "flush", "fill", "unhook", "hook", "policy">>, <<"make", "flush", "fill", "unhook", "accept">>,
                             <<"make", "flush", "fill", "unhook", "hook">>, <<"make", "flush", "fill", "unhook">>}
      PROVE  cs \in Seq(FirewallCommands) /\ Len(cs) > 0
  <2>1. {"make", "flush", "fill", "unhook", "hook", "policy", "accept"} \subseteq FirewallCommands BY DEF FirewallCommands
  <2>2. CASE cs = <<"make", "flush", "fill", "unhook", "hook", "policy">> BY <2>1, <2>2
  <2>3. CASE cs = <<"make", "flush", "fill", "unhook", "accept">> BY <2>1, <2>3
  <2>4. CASE cs = <<"make", "flush", "fill", "unhook", "hook">> BY <2>1, <2>4
  <2>5. CASE cs = <<"make", "flush", "fill", "unhook">> BY <2>1, <2>5
  <2> QED BY <1>2, <2>2, <2>3, <2>4, <2>5
<1>3. F!Handler("apply", l, on) \in ApplyTodos
  <2>1. F!FirewallApply(on) \in Seq(FirewallCommands) /\ Len(F!FirewallApply(on)) > 0 BY <1>2 DEF F!FirewallApply
  <2>2. F!HostFirewallApply(on) \in Seq(FirewallCommands) /\ Len(F!HostFirewallApply(on)) > 0
    BY <1>2 DEF F!HostFirewallApply
  <2>3. F!On(l, F!FirewallApply(on)) \in ApplyTodos BY <2>1, <1>1
  <2>4. F!On(l, F!HostFirewallApply(on)) \in ApplyTodos BY <2>2, <1>1
  <2> QED BY <2>3, <2>4 DEF F!Handler
<1> QED BY <1>3 DEF F!Order, FirewallOrders

LEMMA RollbackOrder ==
    ASSUME NEW l \in F!Layers, NEW no \in Nat
    PROVE  LET o == F!Order("rollback", l, no, FALSE, FALSE, {})
           IN o \in FirewallOrders /\ o.kind = "rollback" /\ o.no = no /\ o.todo \in RollbackTodos /\ Len(o.todo) = 7
<1>1. F!Handler("rollback", l, FALSE) = F!FirewallRollback(l) BY DEF F!Handler
<1>4. F!FirewallRollback(l) =
        <<<<"unhook", "node">>, <<"flush", "node">>, <<"remove", "node">>, <<"unhook", "host">>, <<"flush", "host">>, <<"remove", "host">>, <<"accept", l>>>>
  BY DEF F!FirewallRollback
<1>5. RollbackFrom(l, 7) = F!FirewallRollback(l) BY <1>4 DEF RollbackFrom
<1>2. F!FirewallRollback(l) \in RollbackTodos BY <1>5 DEF RollbackTodos
<1>3. Len(F!FirewallRollback(l)) = 7 BY <1>4
<1> QED BY <1>1, <1>2, <1>3 DEF F!Order, FirewallOrders

-----------------------------------------------------------------------------
(* Firewalls: rows.                                                        *)

\* What is under way stays so.
LEMMA FirewallFrame ==
    ASSUME FirewallInv, FirewallTyped', UNCHANGED <<tasks, commands, hooked, twice, drops, opening, opened>>, accepted' >= accepted
    PROVE  FirewallInv'
<1>1. Settled' /\ OnItsWay' /\ F!RollbackOpens' BY DEF FirewallInv, Settled, F!ApplyUnderWay, OnItsWay, Free, F!RollbackOpens
<1>2. accepted \in Nat /\ accepted' \in Nat BY DEF FirewallInv, FirewallTyped
<1>3. \A n \in Nat : n <= accepted => n <= accepted' BY <1>2
<1>4. \A o \in FirewallOrders : o.no \in Nat BY DEF FirewallOrders
<1>5. \A o \in commands : o.no \in Nat BY <1>4 DEF FirewallInv, FirewallTyped
<1>6. \A i \in DOMAIN tasks : tasks[i].order.no \in Nat
  <2>1. tasks \in Seq(FirewallTasks) BY DEF FirewallInv, FirewallTyped
  <2>2. \A i \in DOMAIN tasks : tasks[i] \in FirewallTasks BY <2>1
  <2> QED BY <1>4, <2>2 DEF FirewallTasks
<1>7. Numbered' BY <1>3, <1>5, <1>6 DEF FirewallInv, Numbered, IsRollback
<1> QED BY <1>1, <1>7 DEF FirewallInv

LEMMA RowsInv ==
    ASSUME FirewallInv, NEW r \in Requests, NEW l \in F!Layers,
           F!UpdatePolicy(r, l) \/ F!CreateRule(r, l) \/ F!DeleteRule(r, l) \/ F!Apply(r, l)
    PROVE  FirewallInv'
<1>1. UNCHANGED <<tasks, commands, hooked, twice, drops, opening, opened>>
  BY DEF F!UpdatePolicy, F!CreateRule, F!DeleteRule, F!Apply, F!input, F!history
<1>2. accepted' = accepted + 1 BY DEF F!UpdatePolicy, F!CreateRule, F!DeleteRule, F!Apply, F!Begin
<1>3. accepted \in Nat BY DEF FirewallInv, FirewallTyped
<1>4. enabled' \in [F!Layers -> BOOLEAN] /\ deny' \in [F!Layers -> BOOLEAN]
  BY DEF FirewallInv, FirewallTyped, F!UpdatePolicy, F!CreateRule, F!DeleteRule, F!Apply, F!config
<1>5. rules' \in [F!Layers -> SUBSET Nat]
  BY <1>3 DEF FirewallInv, FirewallTyped, F!UpdatePolicy, F!CreateRule, F!DeleteRule, F!Apply, F!config
<1>6. \E q \in FirewallRequests : handler' = [handler EXCEPT ![r] = q]
  <2>1. F!Idle \in FirewallRequests BY DEF FirewallRequests
  <2>2. [pc |-> "bump", layer |-> l] \in FirewallRequests BY DEF FirewallRequests
  <2>3. [pc |-> "rules", layer |-> l, no |-> accepted + 1, on |-> enabled[l], deny |-> deny[l]] \in FirewallRequests
    BY DEF FirewallRequests, FirewallInv, FirewallTyped
  <2> QED BY <2>1, <2>2, <2>3 DEF F!UpdatePolicy, F!CreateRule, F!DeleteRule, F!Apply, F!Begin
<1>7. FirewallTyped' BY <1>1, <1>2, <1>4, <1>5, <1>6 DEF FirewallInv, FirewallTyped
<1> QED BY <1>1, <1>2, <1>3, <1>7, FirewallFrame

\* Where a request goes: to rest, or it waits.
LEMMA GotoTyped ==
    ASSUME FirewallInv, NEW r \in Requests, NEW pc,
           F!Goto(r, pc), pc = "idle" \/ (pc = "wait" /\ handler[r].pc = "rules")
    PROVE  handler' \in [Requests -> FirewallRequests]
<1> DEFINE q == IF pc = "idle" THEN F!Idle ELSE [handler[r] EXCEPT !.pc = pc]
<1>1. handler' = [handler EXCEPT ![r] = q] BY DEF F!Goto, FirewallInv, FirewallTyped
<1>2. CASE pc = "idle" BY <1>1, <1>2 DEF FirewallInv, FirewallTyped, FirewallRequests
<1>3. CASE pc = "wait" /\ handler[r].pc = "rules"
  <2>1. handler[r] \in [pc : {"rules", "wait"}, layer : F!Layers, no : Nat, on : BOOLEAN, deny : BOOLEAN]
    BY <1>3 DEF FirewallInv, FirewallTyped, FirewallRequests, F!Idle
  <2>2. q \in [pc : {"rules", "wait"}, layer : F!Layers, no : Nat, on : BOOLEAN, deny : BOOLEAN] BY <1>3, <2>1
  <2>3. q \in FirewallRequests BY <2>2 DEF FirewallRequests
  <2> HIDE DEF q
  <2> QED BY <1>1, <2>3 DEF FirewallInv, FirewallTyped
<1> QED BY <1>2, <1>3

LEMMA BumpWriteInv ==
    ASSUME FirewallInv, NEW r \in Requests, F!BumpVersion(r) \/ F!Write(r) PROVE FirewallInv'
<1>1. UNCHANGED <<rules, deny, tasks, commands, hooked, twice, drops, opening, opened, accepted>> /\ F!Goto(r, "idle")
  BY DEF F!BumpVersion, F!Write, F!input, F!history
<1>2. handler' \in [Requests -> FirewallRequests] BY <1>1, GotoTyped
<1>3. enabled' \in [F!Layers -> BOOLEAN] BY DEF FirewallInv, FirewallTyped, F!BumpVersion, F!Write, F!Done
<1>4. FirewallTyped' BY <1>1, <1>2, <1>3 DEF FirewallInv, FirewallTyped
<1>5. accepted' >= accepted BY <1>1 DEF FirewallInv, FirewallTyped
<1> QED BY <1>1, <1>4, <1>5, FirewallFrame

-----------------------------------------------------------------------------
(* Firewalls: what is under way.                                           *)

\* What is on the node was there, under the same number, and of the tasks at most
\* the oldest is gone: no apply comes up, and numbers stay apart.
LEMMA LessUnderWay ==
    ASSUME FirewallInv, tasks' = tasks \/ (tasks # <<>> /\ tasks' = Tail(tasks)), accepted' = accepted,
           \A o \in commands' : \E p \in commands : p.kind = o.kind /\ p.no = o.no
    PROVE  Numbered' /\ (~F!ApplyUnderWay => ~F!ApplyUnderWay')
<1>1. tasks \in Seq(FirewallTasks) BY DEF FirewallInv, FirewallTyped
<1>2. PICK k \in {0, 1} : \A i \in DOMAIN tasks' : i + k \in DOMAIN tasks /\ tasks'[i] = tasks[i + k]
  <2>1. CASE tasks' = tasks BY <1>1, <2>1
  <2>2. CASE tasks # <<>> /\ tasks' = Tail(tasks) BY <1>1, <2>2
  <2> QED BY <2>1, <2>2
<1>3. tasks' \in Seq(FirewallTasks) BY <1>1, QueueSteps
<1>4. \A i, j \in DOMAIN tasks' : i \in Nat /\ j \in Nat /\ (i # j => i + k # j + k) BY <1>3
<1>5. ~F!ApplyUnderWay => ~F!ApplyUnderWay' BY <1>2 DEF F!ApplyUnderWay
<1>6. \A o \in commands' : \E p \in commands : p.no = o.no /\ (IsRollback(o) => IsRollback(p)) BY DEF IsRollback
<1>7. \A o \in commands' : IsRollback(o) => o.no <= accepted' BY <1>6 DEF FirewallInv, Numbered
<1>8. ASSUME NEW i \in DOMAIN tasks', IsRollback(tasks'[i].order)
      PROVE  /\ tasks'[i].order.no <= accepted' /\ Len(tasks'[i].order.todo) = 7
             /\ \A j \in DOMAIN tasks' :
                    j # i /\ IsRollback(tasks'[j].order) => tasks'[j].order.no # tasks'[i].order.no
             /\ ~tasks'[i].sent => \A o \in commands' : IsRollback(o) => o.no # tasks'[i].order.no
  <2>1. i + k \in DOMAIN tasks /\ tasks'[i] = tasks[i + k] BY <1>2
  <2>2. tasks'[i].order.no <= accepted' /\ Len(tasks'[i].order.todo) = 7 BY <1>8, <2>1 DEF FirewallInv, Numbered
  <2>3. ASSUME NEW j \in DOMAIN tasks', j # i, IsRollback(tasks'[j].order)
        PROVE  tasks'[j].order.no # tasks'[i].order.no
    <3>1. j + k \in DOMAIN tasks /\ tasks'[j] = tasks[j + k] BY <1>2
    <3>2. j + k # i + k BY <1>4, <2>3
    <3> QED BY <1>8, <2>1, <2>3, <3>1, <3>2 DEF FirewallInv, Numbered
  <2>4. ~tasks'[i].sent => \A o \in commands' : IsRollback(o) => o.no # tasks'[i].order.no
    BY <1>6, <1>8, <2>1 DEF FirewallInv, Numbered
  <2> QED BY <2>2, <2>3, <2>4
<1>9. Numbered' BY <1>7, <1>8 DEF Numbered, IsRollback
<1> QED BY <1>5, <1>9

\* An answer is lost or the agent restarts: nothing moves on the node.
LEMMA FirewallFaultInv == ASSUME FirewallInv, F!LoseAnswer \/ F!Restart PROVE FirewallInv'
<1>1. /\ UNCHANGED <<enabled, deny, rules, hooked, twice, drops, accepted, opening, opened>> /\ commands' \subseteq commands
      /\ tasks' = tasks \/ (tasks # <<>> /\ tasks' = Tail(tasks))
  BY DEF F!LoseAnswer, F!Restart, F!config, F!input, F!history
<1>2. Numbered' /\ (~F!ApplyUnderWay => ~F!ApplyUnderWay') BY <1>1, LessUnderWay
<1>7. tasks \in Seq(FirewallTasks) BY DEF FirewallInv, FirewallTyped
<1>3. tasks' \in Seq(FirewallTasks) BY <1>1, <1>7, QueueSteps
<1>4. handler' \in [Requests -> FirewallRequests]
  <2>1. CASE \E r \in Requests : F!Waits(r) /\ F!Goto(r, "idle") BY <2>1, GotoTyped
  <2>2. CASE handler' = handler BY <2>2 DEF FirewallInv, FirewallTyped
  <2>3. CASE F!Restart
    <3>1. F!Idle \in FirewallRequests BY DEF FirewallRequests
    <3> QED BY <2>3, <3>1 DEF F!Restart, FirewallInv, FirewallTyped
  <2> QED BY <2>1, <2>2, <2>3 DEF F!LoseAnswer
<1>5. FirewallTyped' BY <1>1, <1>3, <1>4 DEF FirewallInv, FirewallTyped
<1>6. Settled' /\ OnItsWay' /\ F!RollbackOpens' BY <1>1, <1>2 DEF FirewallInv, Settled, OnItsWay, Free, F!RollbackOpens
<1> QED BY <1>2, <1>5, <1>6 DEF FirewallInv

\* An apply is accepted: from here on nothing counts as opened.
LEMMA AcceptInv == ASSUME FirewallInv, NEW r \in Requests, F!Accept(r) PROVE FirewallInv'
<1> DEFINE q == handler[r]
           o == F!Order("apply", q.layer, q.no, q.on, q.deny, rules[q.layer])
           t == [order |-> o, sent |-> FALSE]
<1>1. /\ UNCHANGED <<enabled, deny, rules, hooked, twice, drops, accepted>> /\ opening' = {} /\ opened' = FALSE
      /\ \/ commands' = commands \cup {o} /\ tasks' = tasks /\ F!Goto(r, "wait")
         \/ tasks' = Append(tasks, t) /\ commands' = commands /\ F!Goto(r, "idle")
  BY DEF F!Accept, F!config, F!input
<1>2. q \in [pc : {"rules", "wait"}, layer : F!Layers, no : Nat, on : BOOLEAN, deny : BOOLEAN] /\ q.pc = "rules"
  BY DEF F!Accept, FirewallInv, FirewallTyped, FirewallRequests, F!Idle
<1>3. rules[q.layer] \in SUBSET Nat BY <1>2 DEF FirewallInv, FirewallTyped
<1>4. o \in FirewallOrders /\ o.kind = "apply" BY <1>2, <1>3, ApplyOrder
<1>5. handler' \in [Requests -> FirewallRequests] BY <1>1, <1>2, GotoTyped
<1> HIDE DEF o
<1>6. t \in FirewallTasks /\ t.order = o BY <1>4 DEF FirewallTasks
<1>7. tasks \in Seq(FirewallTasks) BY DEF FirewallInv, FirewallTyped
<1> HIDE DEF t, q
<1>8. tasks' \in Seq(FirewallTasks) BY <1>1, <1>6, <1>7, QueueSteps
<1>9. FirewallTyped' BY <1>1, <1>4, <1>5, <1>8 DEF FirewallInv, FirewallTyped
<1>10. Numbered'
  <2>1. ~IsRollback(o) BY <1>4 DEF IsRollback
  <2>2. CASE commands' = commands \cup {o} /\ tasks' = tasks BY <1>1, <2>1, <2>2 DEF FirewallInv, Numbered
  <2>3. CASE tasks' = Append(tasks, t) /\ commands' = commands
    <3>1. \A i \in DOMAIN tasks' : IsRollback(tasks'[i].order) => i \in DOMAIN tasks /\ tasks'[i] = tasks[i]
      BY <1>6, <1>7, <2>1, <2>3
    <3> QED BY <1>1, <2>3, <3>1 DEF FirewallInv, Numbered
  <2> QED BY <1>1, <2>2, <2>3
<1>11. Settled' /\ OnItsWay' /\ F!RollbackOpens' BY <1>1 DEF Settled, OnItsWay, Free, F!RollbackOpens
<1> QED BY <1>9, <1>10, <1>11 DEF FirewallInv

\* A rollback has seven commands.
LEMMA HowFar ==
    ASSUME NEW n \in 1..7
    PROVE  /\ n = 7 \/ n <= 6
           /\ n - 1 <= 3 => n <= 3 \/ n = 4
           /\ n = 1 => n <= 6 /\ n <= 3
           /\ n = 7 => ~(n <= 6) /\ ~(n <= 3)
OBVIOUS

\* A rollback reaches the node, all of it still to do. It opens if no apply is
\* under way.
LEMMA RollbackSent ==
    ASSUME FirewallInv, NEW o \in FirewallOrders, commands' = commands \cup {o}, opening' = F!Opening(o),
           UNCHANGED <<hooked, twice, drops, opened>>,
           F!ApplyUnderWay' <=> (F!ApplyUnderWay \/ o.kind = "apply"),
           o.kind = "apply" => F!ApplyUnderWay,
           IsRollback(o) => Len(o.todo) = 7 /\ \A p \in commands : IsRollback(p) => p.no # o.no
    PROVE  Settled' /\ OnItsWay' /\ F!RollbackOpens'
<1>1. o.kind \in {"apply", "rollback"} BY DEF FirewallOrders
<1>2. F!RollbackOpens' BY DEF FirewallInv, F!RollbackOpens
<1>3. Settled' BY <1>1 DEF FirewallInv, Settled, F!Opening
<1>4. OnItsWay'
  <2>1. CASE F!ApplyUnderWay
    <3>1. opening' = {} BY <2>1 DEF F!Opening, FirewallInv, Settled
    <3> QED BY <3>1 DEF OnItsWay
  <2>2. CASE ~F!ApplyUnderWay
    <3>1. IsRollback(o) /\ opening' = opening \cup {o.no} BY <1>1, <2>2 DEF F!Opening, IsRollback
    <3>2. \A p \in commands : IsRollback(p)
      <4>1. \A p \in commands : p.kind # "apply" BY <2>2 DEF F!ApplyUnderWay
      <4> QED BY <4>1 DEF IsRollback, FirewallInv, FirewallTyped, FirewallOrders
    <3>3. \A p \in commands : p.no \in opening' => p.no \in opening BY <3>1, <3>2
    <3>4. ~(Len(o.todo) <= 6) /\ ~(Len(o.todo) <= 3)
      <4>1. Len(o.todo) = 7 BY <3>1
      <4> QED BY <4>1, HowFar
    <3> QED BY <3>3, <3>4 DEF FirewallInv, OnItsWay, Free
  <2> QED BY <2>1, <2>2
<1> QED BY <1>2, <1>3, <1>4

LEMMA RollbackInv == ASSUME FirewallInv, NEW r \in Requests, NEW l \in F!Layers, F!Rollback(r, l) PROVE FirewallInv'
<1> DEFINE o == F!Order("rollback", l, accepted + 1, FALSE, FALSE, {})
           t == [order |-> o, sent |-> FALSE]
<1>1. accepted \in Nat /\ accepted' = accepted + 1 /\ tasks \in Seq(FirewallTasks)
  BY DEF FirewallInv, FirewallTyped, F!Rollback, F!Begin
<1>2. o \in FirewallOrders /\ o.kind = "rollback" /\ o.no = accepted + 1 /\ Len(o.todo) = 7
  <2>1. accepted + 1 \in Nat BY <1>1
  <2> QED BY <2>1, RollbackOrder
<1>3. UNCHANGED <<deny, rules, hooked, twice, drops, opened>> BY DEF F!Rollback, F!input
<1>4. \/ commands' = commands \cup {o} /\ opening' = F!Opening(o) /\ tasks' = tasks
      \/ commands' = commands /\ opening' = opening /\ tasks' = Append(tasks, t)
  BY DEF F!Rollback
<1>5. enabled' \in [F!Layers -> BOOLEAN] BY DEF F!Rollback, FirewallInv, FirewallTyped
<1>6. handler' \in [Requests -> FirewallRequests]
  <2>1. F!Idle \in FirewallRequests BY DEF FirewallRequests
  <2>2. [pc |-> "wait", layer |-> l, no |-> accepted + 1] \in FirewallRequests BY <1>1 DEF FirewallRequests
  <2> QED BY <2>1, <2>2 DEF F!Rollback, F!Begin, FirewallInv, FirewallTyped
<1> HIDE DEF o
<1>7. t \in FirewallTasks /\ t.order = o BY <1>2 DEF FirewallTasks
<1> HIDE DEF t
<1>8. tasks' \in Seq(FirewallTasks) BY <1>1, <1>4, <1>7, QueueSteps
<1>9. FirewallTyped' BY <1>1, <1>2, <1>3, <1>4, <1>5, <1>6, <1>8 DEF FirewallInv, FirewallTyped
<1>10. \A p \in FirewallOrders : p.no \in Nat BY DEF FirewallOrders
<1>11. \A p \in commands : IsRollback(p) => p.no \in Nat /\ p.no <= accepted /\ p.no # o.no
  BY <1>1, <1>2, <1>10 DEF FirewallInv, FirewallTyped, Numbered
<1>12. \A i \in DOMAIN tasks : IsRollback(tasks[i].order) =>
            tasks[i].order.no \in Nat /\ tasks[i].order.no <= accepted /\ tasks[i].order.no # o.no
  <2>1. \A i \in DOMAIN tasks : tasks[i] \in FirewallTasks BY <1>1
  <2>2. \A i \in DOMAIN tasks : tasks[i].order.no \in Nat BY <1>10, <2>1 DEF FirewallTasks
  <2> QED BY <1>1, <1>2, <2>2 DEF FirewallInv, Numbered
<1>13. o.no <= accepted' /\ accepted' \in Nat /\ \A n \in Nat : n <= accepted => n <= accepted' BY <1>1, <1>2
<1>14. CASE commands' = commands \cup {o} /\ opening' = F!Opening(o) /\ tasks' = tasks
  <2>1. F!ApplyUnderWay' <=> (F!ApplyUnderWay \/ o.kind = "apply") BY <1>2, <1>14 DEF F!ApplyUnderWay
  <2>2. Settled' /\ OnItsWay' /\ F!RollbackOpens' BY <1>2, <1>3, <1>11, <1>14, <2>1, RollbackSent
  <2>3. Numbered' BY <1>11, <1>12, <1>13, <1>14 DEF FirewallInv, Numbered, IsRollback
  <2> QED BY <1>9, <2>2, <2>3 DEF FirewallInv
<1>15. CASE commands' = commands /\ opening' = opening /\ tasks' = Append(tasks, t)
  <2>1. \A i \in DOMAIN tasks' : (i \in DOMAIN tasks /\ tasks'[i] = tasks[i]) \/ (i = Len(tasks) + 1 /\ tasks'[i] = t)
    BY <1>1, <1>7, <1>15
  <2>2. F!ApplyUnderWay' => F!ApplyUnderWay BY <1>2, <1>7, <1>15, <2>1 DEF F!ApplyUnderWay
  <2>3. Settled' /\ OnItsWay' /\ F!RollbackOpens' BY <1>3, <1>15, <2>2 DEF FirewallInv, Settled, OnItsWay, Free, F!RollbackOpens
  <2>4. \A p \in commands' : IsRollback(p) => p.no <= accepted' BY <1>11, <1>13, <1>15
  <2>5. ASSUME NEW i \in DOMAIN tasks', IsRollback(tasks'[i].order)
        PROVE  /\ tasks'[i].order.no <= accepted' /\ Len(tasks'[i].order.todo) = 7
               /\ \A j \in DOMAIN tasks' :
                    j # i /\ IsRollback(tasks'[j].order) => tasks'[j].order.no # tasks'[i].order.no
               /\ ~tasks'[i].sent => \A p \in commands' : IsRollback(p) => p.no # tasks'[i].order.no
    <3>1. CASE i \in DOMAIN tasks /\ tasks'[i] = tasks[i]
      <4>1. tasks'[i].order.no <= accepted' /\ Len(tasks'[i].order.todo) = 7
        BY <1>12, <1>13, <2>5, <3>1 DEF FirewallInv, Numbered
      <4>2. ASSUME NEW j \in DOMAIN tasks', j # i, IsRollback(tasks'[j].order)
            PROVE  tasks'[j].order.no # tasks'[i].order.no
        BY <1>7, <1>12, <2>1, <2>5, <3>1, <4>2 DEF FirewallInv, Numbered
      <4> QED BY <1>15, <2>5, <3>1, <4>1, <4>2 DEF FirewallInv, Numbered
    <3>2. CASE i = Len(tasks) + 1 /\ tasks'[i] = t
      <4>1. \A j \in DOMAIN tasks' : j # i => j \in DOMAIN tasks /\ tasks'[j] = tasks[j] BY <2>1, <3>2
      <4> QED BY <1>2, <1>7, <1>11, <1>12, <1>13, <1>15, <3>2, <4>1
    <3> QED BY <2>1, <2>5, <3>1, <3>2
  <2>6. Numbered' BY <2>4, <2>5 DEF Numbered, IsRollback
  <2> QED BY <1>9, <2>3, <2>6 DEF FirewallInv
<1> QED BY <1>4, <1>14, <1>15

\* The oldest task is sent.
LEMMA FirewallDispatchInv == ASSUME FirewallInv, F!Dispatch PROVE FirewallInv'
<1> DEFINE o == Head(tasks).order
           t == [order |-> o, sent |-> TRUE]
<1>1. /\ UNCHANGED <<enabled, deny, rules, hooked, twice, drops, handler, accepted, opened>>
      /\ tasks # <<>> /\ ~Head(tasks).sent
      /\ tasks' = <<t>> \o Tail(tasks) /\ commands' = commands \cup {o} /\ opening' = F!Opening(o)
  BY DEF F!Dispatch, F!config, F!input
<1>2. tasks \in Seq(FirewallTasks) BY DEF FirewallInv, FirewallTyped
<1>3. Head(tasks) \in FirewallTasks /\ Head(tasks) = tasks[1] /\ 1 \in DOMAIN tasks BY <1>1, <1>2
<1>4. o \in FirewallOrders BY <1>3 DEF FirewallTasks
<1>5. o = tasks[1].order /\ ~tasks[1].sent BY <1>1, <1>3
<1> HIDE DEF o
<1>6. t \in FirewallTasks /\ t.order = o /\ t.sent BY <1>4 DEF FirewallTasks
<1> HIDE DEF t
<1>7. tasks' \in Seq(FirewallTasks) BY <1>1, <1>2, <1>6, QueueSteps
<1>8. DOMAIN tasks' = DOMAIN tasks /\ tasks'[1] = t /\ \A i \in DOMAIN tasks : i # 1 => tasks'[i] = tasks[i]
  <2>1. Len(Tail(tasks)) = Len(tasks) - 1 /\ Tail(tasks) \in Seq(FirewallTasks) BY <1>1, <1>2
  <2>2. Len(tasks') = Len(tasks) BY <1>1, <1>2, <2>1
  <2>3. tasks'[1] = t BY <1>1, <2>1
  <2>4. \A i \in DOMAIN tasks : i # 1 => tasks'[i] = tasks[i] BY <1>1, <1>2, <2>1
  <2> QED BY <1>2, <1>7, <2>2, <2>3, <2>4
<1>9. \A i \in DOMAIN tasks : tasks'[i].order = tasks[i].order /\ (i # 1 => tasks'[i].sent = tasks[i].sent)
  BY <1>5, <1>6, <1>8
<1>10. FirewallTyped' BY <1>1, <1>4, <1>7 DEF FirewallInv, FirewallTyped
<1>11. o.kind = "apply" => F!ApplyUnderWay BY <1>3, <1>5 DEF F!ApplyUnderWay
<1>12. F!ApplyUnderWay' <=> (F!ApplyUnderWay \/ o.kind = "apply") BY <1>1, <1>8, <1>9 DEF F!ApplyUnderWay
<1>13. IsRollback(o) => Len(o.todo) = 7 /\ o.no <= accepted /\ \A p \in commands : IsRollback(p) => p.no # o.no
  BY <1>3, <1>5 DEF FirewallInv, Numbered
<1>14. Settled' /\ OnItsWay' /\ F!RollbackOpens' BY <1>1, <1>4, <1>11, <1>12, <1>13, RollbackSent
<1>15. Numbered'
  <2>1. \A p \in commands' : IsRollback(p) => p.no <= accepted' BY <1>1, <1>13 DEF FirewallInv, Numbered
  <2>2. ASSUME NEW i \in DOMAIN tasks', IsRollback(tasks'[i].order)
        PROVE  /\ tasks'[i].order.no <= accepted' /\ Len(tasks'[i].order.todo) = 7
               /\ \A j \in DOMAIN tasks' :
                    j # i /\ IsRollback(tasks'[j].order) => tasks'[j].order.no # tasks'[i].order.no
               /\ ~tasks'[i].sent => \A p \in commands' : IsRollback(p) => p.no # tasks'[i].order.no
    <3>1. i \in DOMAIN tasks /\ IsRollback(tasks[i].order) BY <1>8, <1>9, <2>2
    <3>2. tasks'[i].order.no <= accepted' /\ Len(tasks'[i].order.todo) = 7 BY <1>1, <1>9, <3>1 DEF FirewallInv, Numbered
    <3>3. \A j \in DOMAIN tasks' :
            j # i /\ IsRollback(tasks'[j].order) => tasks'[j].order.no # tasks'[i].order.no
      BY <1>8, <1>9, <3>1 DEF FirewallInv, Numbered
    <3>4. ~tasks'[i].sent => \A p \in commands' : IsRollback(p) => p.no # tasks'[i].order.no
      <4>1. CASE i = 1 BY <1>6, <1>8, <4>1
      <4>2. CASE i # 1
        <5>1. IsRollback(o) => o.no # tasks[i].order.no BY <1>3, <1>5, <3>1, <4>2 DEF FirewallInv, Numbered
        <5>2. tasks'[i] = tasks[i] BY <1>8, <3>1, <4>2
        <5> QED BY <1>1, <3>1, <5>1, <5>2 DEF FirewallInv, Numbered
      <4> QED BY <4>1, <4>2
    <3> QED BY <3>2, <3>3, <3>4
  <2> QED BY <2>1, <2>2 DEF Numbered, IsRollback
<1> QED BY <1>10, <1>14, <1>15 DEF FirewallInv

-----------------------------------------------------------------------------
(* Firewalls: the node.                                                    *)

\* What remains of an order when one command was carried out.
LEMMA Remaining ==
    ASSUME NEW o \in FirewallOrders
    PROVE  /\ Head(o.todo)[2] \in F!Layers \/ o.kind = "rollback"
           /\ Len(o.todo) # 1 => LET p == [o EXCEPT !.todo = Tail(@)]
                                 IN p \in FirewallOrders /\ p.kind = o.kind /\ p.no = o.no /\ p.todo = Tail(o.todo)
<1>1. CASE o.kind = "apply"
  <2>1. o \in [kind : {"apply"}, layer : F!Layers, no : Nat, on : BOOLEAN, deny : BOOLEAN, spec : SUBSET Nat, todo : ApplyTodos]
    BY <1>1 DEF FirewallOrders
  <2> DEFINE CL == FirewallCommands \X F!Layers
  <2>2. \A c \in CL : c[2] \in F!Layers OBVIOUS
  <2> HIDE DEF CL
  <2>3. o.todo \in Seq(CL) /\ o.todo # <<>> BY <2>1 DEF ApplyTodos, CL
  <2>4. Head(o.todo) \in CL BY <2>3
  <2>5. Len(o.todo) # 1 => Tail(o.todo) \in Seq(CL) /\ Tail(o.todo) # <<>>
    <3>1. Tail(o.todo) \in Seq(CL) /\ Len(Tail(o.todo)) = Len(o.todo) - 1 /\ Len(o.todo) \in Nat
      BY <2>3, HeadTailProperties
    <3>2. ASSUME Tail(o.todo) = <<>> PROVE Len(o.todo) = 1
      <4>0. \A s : s = <<>> => Len(s) = 0 OBVIOUS
      <4>1. Len(Tail(o.todo)) = 0 BY <3>2, <4>0
      <4>2. \A n \in Nat : n - 1 = 0 => n = 1 OBVIOUS
      <4> QED BY <3>1, <4>1, <4>2
    <3> QED BY <3>1, <3>2
  <2>6. Len(o.todo) # 1 => Tail(o.todo) \in ApplyTodos BY <2>5 DEF ApplyTodos, CL
  <2>7. Len(o.todo) # 1 => [o EXCEPT !.todo = Tail(@)] \in FirewallOrders BY <2>1, <2>6 DEF FirewallOrders
  <2> QED BY <2>1, <2>2, <2>4, <2>7
<1>2. CASE o.kind = "rollback"
  <2>1. o \in [kind : {"rollback"}, layer : F!Layers, no : Nat, on : BOOLEAN, deny : BOOLEAN, spec : SUBSET Nat,
               todo : RollbackTodos]
    BY <1>2 DEF FirewallOrders
  <2>2. Len(o.todo) # 1 => Tail(o.todo) \in RollbackTodos BY <2>1, RollbackStep
  <2>3. Len(o.todo) # 1 => [o EXCEPT !.todo = Tail(@)] \in FirewallOrders BY <2>1, <2>2 DEF FirewallOrders
  <2> QED BY <2>1, <2>3
<1> QED BY <1>1, <1>2 DEF FirewallOrders

\* What a command does to the jumps and the default.
LEMMA Jumps ==
    ASSUME FirewallInv, NEW o, NEW c, NEW l \in F!Layers, F!Perform(o, c, l)
    PROVE  /\ hooked' \in [F!Layers -> Nat] /\ \A m \in F!Layers : hooked'[m] > 1 => m \in twice'
           /\ c # "hook" => \A m \in F!Layers : Free(m) => Free(m)'
           /\ c = "unhook" => Free(l)'
           /\ c # "policy" => (~drops => ~drops')
           /\ c = "accept" => ~drops'
<1> DEFINE after == CASE c = "hook" -> hooked[l] + 1
                     [] c = "unhook" /\ hooked[l] > 0 -> hooked[l] - 1
                     [] OTHER -> hooked[l]
<1>0. hooked \in [F!Layers -> Nat] /\ hooked[l] \in Nat BY DEF FirewallInv, FirewallTyped
<1>a. after \in Nat BY <1>0
<1>b. /\ hooked' = [hooked EXCEPT ![l] = after]
      /\ twice' = IF after = 0 THEN twice \ {l} ELSE IF after > 1 THEN twice \cup {l} ELSE twice
  BY DEF F!Perform
<1>1. PICK left \in Nat :
        /\ left = CASE c = "hook" -> hooked[l] + 1 [] c = "unhook" /\ hooked[l] > 0 -> hooked[l] - 1 [] OTHER -> hooked[l]
        /\ hooked' = [hooked EXCEPT ![l] = left]
        /\ twice' = IF left = 0 THEN twice \ {l} ELSE IF left > 1 THEN twice \cup {l} ELSE twice
  BY <1>a, <1>b
<1>2. hooked \in [F!Layers -> Nat] /\ \A m \in F!Layers : hooked[m] > 1 => m \in twice
  BY DEF FirewallInv, FirewallTyped
<1>3. hooked' \in [F!Layers -> Nat] /\ hooked'[l] = left /\ \A m \in F!Layers : m # l => hooked'[m] = hooked[m]
  BY <1>1, <1>2
<1>4. \A m \in F!Layers : m # l => (m \in twice' <=> m \in twice) BY <1>1
<1>5. \A m \in F!Layers : hooked'[m] > 1 => m \in twice' BY <1>1, <1>2, <1>3, <1>4
<1>6. c # "hook" => (hooked[l] = 0 => left = 0) BY <1>1
<1>7. l \in twice => left = 0 \/ l \in twice' BY <1>1
<1>8. c # "hook" => \A m \in F!Layers : Free(m) => Free(m)' BY <1>3, <1>4, <1>6, <1>7 DEF Free
<1>9. c = "unhook" => Free(l)'
  <2>1. c = "unhook" => left = 0 \/ hooked[l] > 1 BY <1>1, <1>2
  <2> QED BY <1>2, <1>3, <1>7, <2>1 DEF Free
<1>10. (c # "policy" => (~drops => ~drops')) /\ (c = "accept" => ~drops')
  <2>1. CASE c = "policy" BY <2>1
  <2>2. CASE c = "accept"
    <3>1. drops' = FALSE BY <2>2 DEF F!Perform
    <3> QED BY <2>2, <3>1
  <2>3. CASE c # "policy" /\ c # "accept"
    <3>1. drops' = drops BY <2>3 DEF F!Perform
    <3> QED BY <2>3, <3>1
  <2> QED BY <2>1, <2>2, <2>3
<1>11. hooked' \in [F!Layers -> Nat] BY <1>3
<1> QED BY <1>5, <1>8, <1>9, <1>10, <1>11

\* A handler goes on after a command, done or passed over: a rollback opens more
\* and more, and both layers are free when only the default is left.
LEMMA AdvanceInv ==
    ASSUME FirewallInv, NEW o \in commands, NEW standing \in SUBSET opening, F!Advance(o, standing),
           UNCHANGED <<deny, rules, accepted>>,
           hooked' \in [F!Layers -> Nat], \A m \in F!Layers : hooked'[m] > 1 => m \in twice',
           o.kind = "rollback" => /\ \A m \in F!Layers : Free(m) => Free(m)'
                                  /\ ~drops => ~drops'
                                  /\ o.no \in standing => /\ Len(o.todo) = 7 => Free("node")'
                                                          /\ Len(o.todo) = 4 => Free("host")'
                                                          /\ Len(o.todo) = 1 => ~drops'
    PROVE  FirewallInv'
<1> DEFINE p == [o EXCEPT !.todo = Tail(@)]
<1>1. \/ /\ Len(o.todo) = 1 /\ F!Answer(o) /\ commands' = commands \ {o}
         /\ opened' = (opened \/ o.no \in standing) /\ opening' = standing \ {o.no}
      \/ /\ Len(o.todo) # 1 /\ commands' = (commands \ {o}) \cup {p} /\ opening' = standing
         /\ UNCHANGED <<tasks, handler, enabled, opened>>
  BY DEF F!Advance
<1>2. o \in FirewallOrders BY DEF FirewallInv, FirewallTyped
<1>3. Len(o.todo) # 1 => p \in FirewallOrders /\ p.kind = o.kind /\ p.no = o.no /\ p.todo = Tail(o.todo)
  BY <1>2, Remaining
<1> HIDE DEF p
<1>4. tasks' = tasks \/ (tasks # <<>> /\ tasks' = Tail(tasks)) BY <1>1 DEF F!Answer, F!Asked
<1>5. \A q \in commands' : q \in FirewallOrders /\ \E u \in commands : u.kind = q.kind /\ u.no = q.no
  BY <1>1, <1>3 DEF FirewallInv, FirewallTyped
<1>6. Numbered' /\ (~F!ApplyUnderWay => ~F!ApplyUnderWay') BY <1>4, <1>5, LessUnderWay
<1>8. enabled' \in [F!Layers -> BOOLEAN] BY <1>1 DEF F!Answer, F!Done, FirewallInv, FirewallTyped
<1>9. handler' \in [Requests -> FirewallRequests]
  <2>1. [pc |-> "write", layer |-> o.layer, order |-> o] \in FirewallRequests
    BY <1>2 DEF FirewallRequests, FirewallOrders
  <2>2. handler \in [Requests -> FirewallRequests] BY DEF FirewallInv, FirewallTyped
  <2> QED BY <1>1, <2>1, <2>2 DEF F!Answer
<1>7. tasks \in Seq(FirewallTasks) BY DEF FirewallInv, FirewallTyped
<1>10. tasks' \in Seq(FirewallTasks) BY <1>4, <1>7, QueueSteps
<1>a. opened' \in BOOLEAN BY <1>1 DEF FirewallInv, FirewallTyped
<1>11. FirewallTyped' BY <1>5, <1>8, <1>9, <1>10, <1>a DEF FirewallInv, FirewallTyped
<1>12. CASE o.kind = "apply"
  <2>1. ~opened /\ opening = {} BY <1>12 DEF F!ApplyUnderWay, FirewallInv, Settled
  <2>2. ~opened' /\ opening' = {} BY <1>1, <2>1 DEF FirewallInv, FirewallTyped
  <2> QED BY <1>6, <1>11, <2>2 DEF FirewallInv, Settled, OnItsWay, F!RollbackOpens
<1>13. CASE o.kind = "rollback"
  <2>1. o.todo \in RollbackTodos BY <1>2, <1>13 DEF FirewallOrders
  <2>2. "node" \in F!Layers /\ "host" \in F!Layers BY DEF F!Layers
  <2>3. opening' \subseteq standing /\ (opened' => opened \/ (o.no \in standing /\ Len(o.todo) = 1))
    <3>1. opening' \subseteq standing BY <1>1
    <3>2. opened' => opened \/ (o.no \in standing /\ Len(o.todo) = 1) BY <1>1, Zenon
    <3> QED BY <3>1, <3>2
  <2>4. Settled' BY <1>6, <2>3 DEF FirewallInv, Settled
  <2>5. Len(o.todo) \in 1..7 /\ (Len(o.todo) # 1 => Len(Tail(o.todo)) = Len(o.todo) - 1) BY <2>1, RollbackStep
  <2>8. /\ Len(o.todo) = 7 \/ Len(o.todo) <= 6
        /\ Len(o.todo) - 1 <= 3 => Len(o.todo) <= 3 \/ Len(o.todo) = 4
        /\ Len(o.todo) = 1 => Len(o.todo) <= 6 /\ Len(o.todo) <= 3
    BY <2>5, HowFar
  <2>6. OnItsWay'
    <3> SUFFICES ASSUME NEW q \in commands', q.no \in opening'
                 PROVE  /\ Len(q.todo) <= 6 => Free("node")'
                        /\ Len(q.todo) <= 3 => Free("host")'
      BY DEF OnItsWay
    <3>1. CASE q \in commands BY <1>13, <2>2, <2>3, <3>1 DEF FirewallInv, OnItsWay
    <3>2. CASE q \notin commands
      <4>1. q = p /\ Len(o.todo) # 1 BY <1>1, <3>2
      <4>2. Len(q.todo) = Len(o.todo) - 1 /\ o.no \in standing BY <1>3, <2>3, <2>5, <4>1
      <4>5. /\ Len(o.todo) <= 6 => Free("node")
            /\ Len(o.todo) <= 3 => Free("host")
        BY <4>2 DEF FirewallInv, OnItsWay
      <4>3. Len(q.todo) <= 6 => Free("node")' BY <1>13, <2>2, <2>8, <4>2, <4>5
      <4>4. Len(q.todo) <= 3 => Free("host")' BY <1>13, <2>2, <2>8, <4>2, <4>5
      <4> QED BY <4>3, <4>4
    <3> QED BY <3>1, <3>2
  <2>7. F!RollbackOpens'
    <3>1. CASE opened BY <1>13, <3>1 DEF FirewallInv, F!RollbackOpens, Free
    <3>2. CASE o.no \in standing /\ Len(o.todo) = 1
      <4>1. Free("node") /\ Free("host") BY <2>8, <3>2 DEF FirewallInv, OnItsWay
      <4>2. \A m \in F!Layers : Free(m)' BY <1>13, <4>1 DEF F!Layers
      <4> QED BY <1>13, <3>2, <4>2 DEF F!RollbackOpens, Free
    <3> QED BY <2>3, <3>1, <3>2 DEF F!RollbackOpens
  <2> QED BY <1>6, <1>11, <2>4, <2>6, <2>7 DEF FirewallInv
<1> QED BY <1>2, <1>12, <1>13 DEF FirewallOrders

\* The command of a rollback that is next, and of which layer.
LEMMA NextCommand ==
    ASSUME FirewallInv, NEW o \in commands
    PROVE  /\ Head(o.todo)[2] \in F!Layers
           /\ o.kind = "rollback" =>
                /\ Head(o.todo)[1] \in {"unhook", "flush", "remove", "accept"}
                /\ Len(o.todo) = 7 => Head(o.todo)[1] = "unhook" /\ Head(o.todo)[2] = "node"
                /\ Len(o.todo) = 4 => Head(o.todo)[1] = "unhook" /\ Head(o.todo)[2] = "host"
                /\ Len(o.todo) = 1 => Head(o.todo)[1] = "accept"
<1>1. o \in FirewallOrders BY DEF FirewallInv, FirewallTyped
<1>2. o.kind = "rollback" => o.todo \in RollbackTodos BY <1>1 DEF FirewallOrders
<1>3. o.kind = "rollback" =>
        /\ Head(o.todo)[1] \in {"unhook", "flush", "remove", "accept"} /\ Head(o.todo)[2] \in F!Layers
        /\ Len(o.todo) = 7 => Head(o.todo) = <<"unhook", "node">>
        /\ Len(o.todo) = 4 => Head(o.todo) = <<"unhook", "host">>
        /\ Len(o.todo) = 1 => Head(o.todo)[1] = "accept"
  BY <1>2, RollbackStep
<1>4. Head(o.todo)[2] \in F!Layers BY <1>1, <1>3, Remaining
<1> QED BY <1>3, <1>4

LEMMA FirewallWorkInv == ASSUME FirewallInv, NEW o \in commands, F!Work(o) PROVE FirewallInv'
<1> DEFINE c == Head(o.todo)[1]
           l == Head(o.todo)[2]
<1>1. F!Perform(o, c, l) /\ F!Advance(o, opening) /\ UNCHANGED <<deny, rules, accepted>> BY DEF F!Work
<1>2. /\ l \in F!Layers
      /\ o.kind = "rollback" =>
            /\ c \in {"unhook", "flush", "remove", "accept"}
            /\ Len(o.todo) = 7 => c = "unhook" /\ l = "node"
            /\ Len(o.todo) = 4 => c = "unhook" /\ l = "host"
            /\ Len(o.todo) = 1 => c = "accept"
  BY NextCommand
<1> HIDE DEF c, l
<1>3. /\ hooked' \in [F!Layers -> Nat] /\ \A m \in F!Layers : hooked'[m] > 1 => m \in twice'
      /\ c # "hook" => \A m \in F!Layers : Free(m) => Free(m)'
      /\ c = "unhook" => Free(l)'
      /\ c # "policy" => (~drops => ~drops')
      /\ c = "accept" => ~drops'
  BY <1>1, <1>2, Jumps
<1>4. o.kind = "rollback" => /\ \A m \in F!Layers : Free(m) => Free(m)'
                             /\ ~drops => ~drops'
                             /\ Len(o.todo) = 7 => Free("node")'
                             /\ Len(o.todo) = 4 => Free("host")'
                             /\ Len(o.todo) = 1 => ~drops'
  BY <1>2, <1>3
<1> QED BY <1>1, <1>3, <1>4, AdvanceInv

\* A command fails: an apply ends there, or what it is for is not done.
LEMMA CommandFailsInv == ASSUME FirewallInv, NEW o \in commands, F!CommandFails(o) PROVE FirewallInv'
<1> DEFINE c == Head(o.todo)[1]
           standing == IF c \in {"unhook", "accept"} THEN opening \ {o.no} ELSE opening
<1>1. UNCHANGED <<deny, rules, hooked, twice, drops, accepted>> BY DEF F!CommandFails, F!input
<1>2. CASE F!Abort(o)
  <2>1. /\ UNCHANGED <<enabled, opening, opened>> /\ commands' \subseteq commands
        /\ tasks' = tasks \/ (tasks # <<>> /\ tasks' = Tail(tasks))
    BY <1>2 DEF F!Abort, F!Asked, F!history
  <2>2. Numbered' /\ (~F!ApplyUnderWay => ~F!ApplyUnderWay') BY <1>1, <2>1, LessUnderWay
  <2>7. tasks \in Seq(FirewallTasks) BY DEF FirewallInv, FirewallTyped
  <2>3. tasks' \in Seq(FirewallTasks) BY <2>1, <2>7, QueueSteps
  <2>4. handler' \in [Requests -> FirewallRequests]
    <3>1. F!Idle \in FirewallRequests BY DEF FirewallRequests
    <3> QED BY <1>2, <3>1 DEF F!Abort, FirewallInv, FirewallTyped
  <2>5. FirewallTyped' BY <1>1, <2>1, <2>3, <2>4 DEF FirewallInv, FirewallTyped
  <2>6. Settled' /\ OnItsWay' /\ F!RollbackOpens'
    BY <1>1, <2>1, <2>2 DEF FirewallInv, Settled, OnItsWay, Free, F!RollbackOpens
  <2> QED BY <2>2, <2>5, <2>6 DEF FirewallInv
<1>3. CASE F!Advance(o, standing)
  <2>1. o.kind = "rollback" => /\ Len(o.todo) = 7 => c = "unhook"
                               /\ Len(o.todo) = 4 => c = "unhook"
                               /\ Len(o.todo) = 1 => c = "accept"
    BY NextCommand
  <2>2. standing \in SUBSET opening /\ (c \in {"unhook", "accept"} => o.no \notin standing) OBVIOUS
  <2> HIDE DEF c, standing
  <2>3. \A m \in F!Layers : Free(m) => Free(m)' BY <1>1 DEF Free
  <2>4. hooked' \in [F!Layers -> Nat] /\ \A m \in F!Layers : hooked'[m] > 1 => m \in twice'
    BY <1>1 DEF FirewallInv, FirewallTyped
  <2>5. o.kind = "rollback" => (o.no \in standing => Len(o.todo) # 7 /\ Len(o.todo) # 4 /\ Len(o.todo) # 1)
    BY <2>1, <2>2
  <2> QED BY <1>1, <1>3, <2>2, <2>3, <2>4, <2>5, AdvanceInv
<1> QED BY <1>2, <1>3 DEF F!CommandFails

LEMMA FirewallNextInv == ASSUME FirewallInv, [F!Next]_F!vars PROVE FirewallInv'
<1>1. CASE UNCHANGED F!vars
  <2>1. FirewallTyped' /\ accepted' >= accepted BY <1>1 DEF F!vars, FirewallInv, FirewallTyped
  <2> QED BY <1>1, <2>1, FirewallFrame DEF F!vars
<1>2. CASE \E r \in Requests, l \in F!Layers :
            F!UpdatePolicy(r, l) \/ F!CreateRule(r, l) \/ F!DeleteRule(r, l) \/ F!Apply(r, l) \/ F!Rollback(r, l)
  BY <1>2, RowsInv, RollbackInv
<1>3. CASE \E r \in Requests : F!BumpVersion(r) \/ F!Accept(r) \/ F!Write(r) BY <1>3, BumpWriteInv, AcceptInv
<1>4. CASE F!Dispatch \/ F!LoseAnswer \/ F!Restart BY <1>4, FirewallDispatchInv, FirewallFaultInv
<1>5. CASE \E o \in commands : F!Work(o) \/ F!CommandFails(o) BY <1>5, FirewallWorkInv, CommandFailsInv
<1> QED BY <1>1, <1>2, <1>3, <1>4, <1>5 DEF F!Next

(* Security groups: the invariant.                                         *)

RuleRow == [id : Nat, group : Groups, at : Nat, says : G!Says]
KeyOf(r) == <<r.id, r.at>>

\* The versions that previews were shown under.
Versions == {p.version : p \in previews}
EffectiveRequests ==
    {G!Done}
    \cup [pc : {"groups"}, version : SUBSET Versions, ids : SUBSET Groups]
    \cup [pc : {"rules"}, version : SUBSET Versions, ids : SUBSET Groups, found : SUBSET Groups]

GroupsTyped ==
    /\ clock \in Nat /\ links \subseteq Groups
    /\ grouped \subseteq RuleRow /\ \A r \in grouped : r.at < clock
    /\ effective \in [Operators -> EffectiveRequests]

\* A row is told by its key, since every write takes a time of its own.
Distinct == \A q, r \in grouped : KeyOf(q) = KeyOf(r) => q = r

\* A preview comes of rows that had been written by then: a row that has the key of
\* one of them is that one.
Comes(p, read) ==
    /\ p = [version |-> G!VersionOf(p.version.groups, read), rules |-> G!Merge(p.version.groups, read)]
    /\ \A r \in read : r.at < clock /\ \A q \in grouped : KeyOf(q) = KeyOf(r) => q = r
Dated == \A p \in previews : \E read \in SUBSET RuleRow : Comes(p, read)

GroupsInv == GroupsTyped /\ Distinct /\ Dated /\ G!SeenBeforeShipped

LEMMA GroupsInitInv == ASSUME G!Init PROVE GroupsInv
<1>1. GroupsTyped BY DEF G!Init, GroupsTyped, EffectiveRequests
<1>2. Distinct /\ Dated /\ G!SeenBeforeShipped BY DEF G!Init, Distinct, Dated, G!SeenBeforeShipped
<1> QED BY <1>1, <1>2 DEF GroupsInv

-----------------------------------------------------------------------------
(* Security groups: edits.                                                 *)

\* A write leaves what has been read, and at most one row is new: it has the time
\* of the write.
LEMMA EditInv ==
    ASSUME GroupsInv, clock' = clock + 1, links' \subseteq Groups, NEW new \in SUBSET RuleRow,
           \A q, r \in new : q = r, \A r \in new : r.at = clock,
           grouped' \subseteq grouped \cup new,
           UNCHANGED <<effective, previews, applying>>
    PROVE  GroupsInv'
<1> USE DEF GroupsInv
<1>1. \A q \in grouped' : q \in RuleRow /\ (q \in grouped \/ (q \in new /\ q.at = clock)) BY DEF GroupsTyped
<1>2. clock \in Nat /\ \A r \in grouped : r.at \in Nat /\ r.at < clock BY DEF GroupsTyped, RuleRow
<1>3. GroupsTyped'
  <2>1. \A r \in grouped' : r.at < clock' BY <1>1, <1>2
  <2>2. EffectiveRequests' = EffectiveRequests BY DEF EffectiveRequests, Versions
  <2> QED BY <1>1, <2>1, <2>2 DEF GroupsTyped
<1>4. Distinct' BY <1>1, <1>2 DEF Distinct, KeyOf
<1>5. Dated'
  <2> SUFFICES ASSUME NEW p \in previews PROVE \E read \in SUBSET RuleRow : Comes(p, read)' BY DEF Dated
  <2>1. PICK read \in SUBSET RuleRow : Comes(p, read) BY DEF Dated
  <2>2. \A r \in read : r.at \in Nat /\ r.at < clock BY <2>1 DEF Comes, RuleRow
  <2>3. ASSUME NEW r \in read, NEW q \in grouped', KeyOf(q) = KeyOf(r) PROVE q = r
    <3>1. q.at # clock BY <2>2, <2>3, <1>2 DEF KeyOf
    <3> QED BY <1>1, <2>1, <2>3, <3>1 DEF Comes
  <2>4. \A r \in read : r.at < clock' BY <2>2, <1>2
  <2>5. Comes(p, read)' BY <2>1, <2>3, <2>4 DEF Comes, KeyOf
  <2> QED BY <2>5
<1>6. G!SeenBeforeShipped' BY DEF G!SeenBeforeShipped
<1> QED BY <1>3, <1>4, <1>5, <1>6

LEMMA CreateRuleInv == ASSUME GroupsInv, NEW g \in Groups, NEW s \in G!Says, G!CreateRule(g, s) PROVE GroupsInv'
<1> DEFINE r == [id |-> clock, group |-> g, at |-> clock, says |-> s]
<1>1. r \in RuleRow /\ r.at = clock /\ links \subseteq Groups BY DEF GroupsInv, GroupsTyped, RuleRow
<1>2. grouped' = grouped \cup {r} /\ links' = links BY DEF G!CreateRule
<1>3. clock' = clock + 1 /\ UNCHANGED <<effective, previews, applying>> BY DEF G!CreateRule, G!Edit
<1> HIDE DEF r
<1> DEFINE new == {r}
<1>4. new \in SUBSET RuleRow /\ (\A q, p \in new : q = p) /\ (\A p \in new : p.at = clock)
      /\ grouped' \subseteq grouped \cup new /\ links' \subseteq Groups BY <1>1, <1>2
<1> HIDE DEF new
<1> QED BY <1>3, <1>4, EditInv

LEMMA UpdateRuleInv == ASSUME GroupsInv, NEW r \in grouped, NEW s \in G!Says, G!UpdateRule(r, s) PROVE GroupsInv'
<1> DEFINE w == [r EXCEPT !.at = clock, !.says = s]
<1>1. w \in RuleRow /\ w.at = clock /\ links \subseteq Groups BY DEF GroupsInv, GroupsTyped, RuleRow
<1>2. grouped' = (grouped \ {r}) \cup {w} /\ links' = links BY DEF G!UpdateRule
<1>3. clock' = clock + 1 /\ UNCHANGED <<effective, previews, applying>> BY DEF G!UpdateRule, G!Edit
<1> HIDE DEF w
<1> DEFINE new == {w}
<1>4. new \in SUBSET RuleRow /\ (\A q, p \in new : q = p) /\ (\A p \in new : p.at = clock)
      /\ grouped' \subseteq grouped \cup new /\ links' \subseteq Groups BY <1>1, <1>2
<1> HIDE DEF new
<1> QED BY <1>3, <1>4, EditInv

LEMMA OtherEditInv ==
    ASSUME GroupsInv,
           \/ \E g \in Groups : G!Attach(g) \/ G!Detach(g) \/ G!DeleteGroup(g)
           \/ \E r \in grouped : G!DeleteRule(r)
    PROVE  GroupsInv'
<1>1. clock' = clock + 1 /\ UNCHANGED <<effective, previews, applying>>
  BY DEF G!Attach, G!Detach, G!DeleteGroup, G!DeleteRule, G!Edit
<1>2. links' \subseteq Groups BY DEF GroupsInv, GroupsTyped, G!Attach, G!Detach, G!DeleteGroup, G!DeleteRule
<1> DEFINE new == {}
<1>3. /\ new \in SUBSET RuleRow /\ grouped' \subseteq grouped \cup new
      /\ (\A q, p \in new : q = p) /\ (\A p \in new : p.at = clock)
  BY DEF G!Attach, G!Detach, G!DeleteGroup, G!DeleteRule
<1> HIDE DEF new
<1> QED BY <1>1, <1>2, <1>3, EditInv

-----------------------------------------------------------------------------
(* Security groups: previews and what is applied.                          *)

\* A step that leaves the rows, and previews, but for one request.
LEMMA RequestInv ==
    ASSUME GroupsInv, NEW o \in Operators, NEW e \in EffectiveRequests, effective' = [effective EXCEPT ![o] = e],
           UNCHANGED <<grouped, links, clock, previews, applying>>
    PROVE  GroupsInv'
<1> USE DEF GroupsInv
<1>1. EffectiveRequests' = EffectiveRequests BY DEF EffectiveRequests, Versions
<1>2. GroupsTyped' BY <1>1 DEF GroupsTyped
<1>3. Distinct' /\ Dated' BY DEF Distinct, Dated, Comes
<1>4. G!SeenBeforeShipped' BY DEF G!SeenBeforeShipped
<1> QED BY <1>2, <1>3, <1>4

LEMMA StartInv == ASSUME GroupsInv, NEW o \in Operators, G!Request(o) \/ G!ReadGroups(o) PROVE GroupsInv'
<1>1. UNCHANGED <<grouped, links, clock, previews, applying>> BY DEF G!Request, G!ReadGroups, G!Untouched
<1>2. CASE G!Request(o)
  <2>1. PICK v \in {{}} \cup {{p.version} : p \in previews} :
            effective' = [effective EXCEPT ![o] = [pc |-> "groups", version |-> v, ids |-> links]]
    BY <1>2 DEF G!Request
  <2>2. v \in SUBSET Versions BY DEF Versions
  <2>3. [pc |-> "groups", version |-> v, ids |-> links] \in EffectiveRequests
    BY <2>2 DEF EffectiveRequests, GroupsInv, GroupsTyped
  <2> QED BY <1>1, <2>1, <2>3, RequestInv
<1>3. CASE G!ReadGroups(o)
  <2> DEFINE e == [pc |-> "rules", version |-> effective[o].version, ids |-> effective[o].ids,
                   found |-> effective[o].ids \cap groups]
  <2>1. effective[o] \in [pc : {"groups"}, version : SUBSET Versions, ids : SUBSET Groups]
    BY <1>3 DEF G!ReadGroups, GroupsInv, GroupsTyped, EffectiveRequests, G!Done
  <2>2. e \in EffectiveRequests BY <2>1 DEF EffectiveRequests
  <2>3. effective' = [effective EXCEPT ![o] = e] BY <1>3 DEF G!ReadGroups, GroupsInv, GroupsTyped
  <2> QED BY <1>1, <2>2, <2>3, RequestInv
<1> QED BY <1>2, <1>3

\* What is read under the version of a preview is what the preview was made of.
LEMMA SameVersion ==
    ASSUME GroupsInv, NEW p \in previews, NEW found, NEW read \in SUBSET grouped,
           p.version = G!VersionOf(found, read)
    PROVE  p = [version |-> G!VersionOf(found, read), rules |-> G!Merge(found, read)]
<1>1. PICK seen \in SUBSET RuleRow : Comes(p, seen) BY DEF GroupsInv, Dated
<1>2. p = [version |-> G!VersionOf(p.version.groups, seen), rules |-> G!Merge(p.version.groups, seen)]
      /\ \A r \in seen : \A q \in grouped : KeyOf(q) = KeyOf(r) => q = r
  BY <1>1 DEF Comes
<1>3. p.version.groups = found BY DEF G!VersionOf
<1>4. {KeyOf(r) : r \in seen} = {KeyOf(r) : r \in read}
  <2>1. p.version.rules = {KeyOf(r) : r \in read} BY DEF G!VersionOf, KeyOf
  <2>2. p.version = G!VersionOf(p.version.groups, seen) BY <1>2
  <2>3. p.version.rules = {KeyOf(r) : r \in seen} BY <2>2 DEF G!VersionOf, KeyOf
  <2> QED BY <2>1, <2>3
<1>5. seen = read
  <2>1. ASSUME NEW r \in seen PROVE r \in read
    <3>1. KeyOf(r) \in {KeyOf(q) : q \in read} BY <1>4
    <3>2. PICK q \in read : KeyOf(q) = KeyOf(r) BY <3>1
    <3> QED BY <1>2, <3>2
  <2>2. ASSUME NEW q \in read PROVE q \in seen
    <3>1. KeyOf(q) \in {KeyOf(r) : r \in seen} BY <1>4
    <3>2. PICK r \in seen : KeyOf(q) = KeyOf(r) BY <3>1
    <3> QED BY <1>2, <3>2
  <2> QED BY <2>1, <2>2
<1> QED BY <1>2, <1>3, <1>5

LEMMA ReadRulesInv == ASSUME GroupsInv, NEW o \in Operators, G!ReadRules(o) PROVE GroupsInv'
<1> DEFINE read == {r \in grouped : r.group \in effective[o].ids}
           found == effective[o].found
           p == [version |-> G!VersionOf(found, read), rules |-> G!Merge(found, read)]
<1>1. UNCHANGED <<grouped, links, clock>> /\ effective' = [effective EXCEPT ![o] = G!Done]
  BY DEF G!ReadRules, G!Untouched
<1>2. effective[o] \in [pc : {"rules"}, version : SUBSET Versions, ids : SUBSET Groups, found : SUBSET Groups]
  BY DEF G!ReadRules, GroupsInv, GroupsTyped, EffectiveRequests, G!Done
<1>3. Comes(p, read)
  <2>1. p.version.groups = found BY DEF G!VersionOf
  <2>2. \A r \in read : r.at < clock /\ \A q \in grouped : KeyOf(q) = KeyOf(r) => q = r
    BY DEF GroupsInv, GroupsTyped, Distinct
  <2> HIDE DEF read, found
  <2> QED BY <2>1, <2>2 DEF Comes
<1>4. previews \subseteq previews' /\ previews' \subseteq previews \cup {p} BY DEF G!ReadRules
<1>5. read \in SUBSET grouped /\ read \in SUBSET RuleRow BY DEF GroupsInv, GroupsTyped
<1>6. applying' \subseteq previews'
  <2>1. CASE effective[o].version = {p.version} /\ applying' = {p} /\ previews' = previews
    <3>1. p.version \in Versions BY <1>2, <2>1
    <3>2. PICK q \in previews : q.version = p.version BY <3>1 DEF Versions
    <3>3. q.version = G!VersionOf(found, read) BY <3>2
    <3> HIDE DEF read, found
    <3>4. q = p BY <1>5, <3>3, SameVersion
    <3> QED BY <2>1, <3>4
  <2>2. CASE applying' = applying BY <2>2, <1>4 DEF GroupsInv, G!SeenBeforeShipped
  <2> QED BY <2>1, <2>2 DEF G!ReadRules
<1> HIDE DEF p
<1>7. GroupsTyped'
  <2>1. Versions \subseteq Versions' BY <1>4 DEF Versions
  <2>2. EffectiveRequests \subseteq EffectiveRequests' BY <2>1 DEF EffectiveRequests
  <2>3. G!Done \in EffectiveRequests' BY DEF EffectiveRequests
  <2> QED BY <1>1, <2>2, <2>3 DEF GroupsInv, GroupsTyped
<1>8. Distinct' BY <1>1 DEF GroupsInv, Distinct, KeyOf
<1>9. Dated'
  <2>1. \A q \in previews' : \E r \in SUBSET RuleRow : Comes(q, r)
    <3> HIDE DEF read
    <3> QED BY <1>3, <1>4, <1>5 DEF GroupsInv, Dated
  <2> QED BY <2>1, <1>1 DEF Dated, Comes
<1> QED BY <1>6, <1>7, <1>8, <1>9 DEF GroupsInv, G!SeenBeforeShipped

LEMMA GroupsNextInv == ASSUME GroupsInv, [G!Next]_G!vars PROVE GroupsInv'
<1>1. CASE \/ UNCHANGED G!vars \/ G!Run \/ \E g \in Groups : G!AttachedCount(g)
  <2>1. UNCHANGED <<grouped, links, clock, previews, effective>> /\ (applying' = applying \/ applying' = {})
    BY <1>1 DEF G!vars, G!Run, G!Untouched, G!AttachedCount
  <2>2. EffectiveRequests' = EffectiveRequests BY <2>1 DEF EffectiveRequests, Versions
  <2> QED BY <2>1, <2>2 DEF GroupsInv, GroupsTyped, Distinct, Dated, Comes, KeyOf, G!SeenBeforeShipped
<1>2. CASE \E g \in Groups : \/ \E s \in G!Says : G!CreateRule(g, s)
                             \/ G!Attach(g) \/ G!Detach(g) \/ G!DeleteGroup(g)
  BY <1>2, CreateRuleInv, OtherEditInv
<1>3. CASE \E r \in grouped : G!DeleteRule(r) \/ \E s \in G!Says : G!UpdateRule(r, s)
  BY <1>3, UpdateRuleInv, OtherEditInv
<1>4. CASE \E o \in Operators : G!Request(o) \/ G!ReadGroups(o) \/ G!ReadRules(o)
  BY <1>4, StartInv, ReadRulesInv
<1> QED BY <1>1, <1>2, <1>3, <1>4 DEF G!Next

-----------------------------------------------------------------------------
(* A public address: the invariant.                                        *)

TaskKinds == {"bind", "migrate", "unbind"}
AddressRows == P!Queues \ {P!NoRow}
AddressOrders(kinds) ==
    [kind : kinds, row : AddressRows, vm : VMs \cup {P!Nobody}, mode : P!Modes, no : Nat]
\* What is queued under q: changes of the row q, or repairs.
OrdersOf(q) == {o \in AddressOrders(TaskKinds \cup {"repair"}) : P!Queue(o) = q}
TasksOf(q) == [order : OrdersOf(q), state : {"queued", "sent", "done"}]
QueuedOf(q) == [order : OrdersOf(q), state : {"queued"}]
AddressRequests == {P!Idle} \cup [pc : {"act"}, order : AddressOrders(TaskKinds \cup {"delete"})]

\* Only the oldest task of a queue was sent to the node.
InLine(q, s) ==
    s \in Seq(TasksOf(q)) /\ (s # <<>> => Head(s) \in TasksOf(q) /\ Tail(s) \in Seq(QueuedOf(q)))

AddressTyped ==
    /\ pooled \in P!Queues /\ bound \in BOOLEAN /\ stale \in BOOLEAN
    /\ binding \in {P!NoBinding} \cup [vm : VMs \cup {P!Nobody}, mode : P!Modes]
    /\ sent \subseteq AddressOrders(TaskKinds \cup {"reload", "repair"})
    /\ dispatch \in [Requests -> AddressRequests]
    /\ bindings \in Nat /\ lapses \in Nat

QueuesTyped == moving = [q \in P!Queues |-> moving[q]] /\ \A q \in P!Queues : InLine(q, moving[q])

\* While no answer was lost, what the node has is a reload or what the oldest task
\* of a queue waits for.
AtHead(o) ==
    LET s == moving[P!Queue(o)] IN s # <<>> /\ Head(s).state = "sent" /\ Head(s).order = o
OneWaits == lapses = 0 => \A o \in sent : o.kind = "reload" \/ AtHead(o)

\* The status of the address says whether it is bound, and a row that is gone is not.
StatusFits == (bound <=> binding # P!NoBinding) /\ (pooled = P!NoRow => binding = P!NoBinding)

\* The node did what the oldest task wants, and its transaction is still to come.
Awaits(kinds) ==
    moving[pooled] # <<>> /\ Head(moving[pooled]).state = "done" /\ Head(moving[pooled]).order.kind \in kinds

\* The node has no rules for an address with no binding, but where a binding is
\* about to be written, nor once it undid one, unless an answer was lost or the node
\* bound from what was not so any more.
Clean == dnat = <<>> /\ route = P!Nobody
RulesFit ==
    lapses = 0 /\ ~stale =>
        /\ binding = P!NoBinding /\ ~Awaits({"bind", "migrate"}) => Clean
        /\ Awaits({"unbind"}) => Clean

AddressInv == AddressTyped /\ QueuesTyped /\ OneWaits /\ StatusFits /\ RulesFit

LEMMA BindingsDiffer == ASSUME NEW v, NEW m PROVE [vm |-> v, mode |-> m] # P!NoBinding
<1>1. DOMAIN [vm |-> v, mode |-> m] = {"vm", "mode"} /\ DOMAIN P!NoBinding = {"vm"} BY DEF P!NoBinding
<1>2. "mode" \notin {"vm"} OBVIOUS
<1> QED BY <1>1, <1>2

LEMMA AddressInitInv == ASSUME P!Init PROVE AddressInv
<1>0. 1 \in P!Queues BY PartsAssumption DEF P!PublicIPAssumption, P!Queues
<1>1. AddressTyped BY <1>0 DEF P!Init, AddressTyped, AddressRequests
<1>2. QueuesTyped
  <2>1. moving = [q \in P!Queues |-> <<>>] BY DEF P!Init
  <2>2. \A q : InLine(q, <<>>) BY DEF InLine
  <2> QED BY <2>1, <2>2 DEF QueuesTyped
<1>3. OneWaits /\ StatusFits BY <1>0 DEF P!Init, OneWaits, StatusFits, P!NoRow
<1>4. RulesFit BY DEF P!Init, RulesFit, Clean, Awaits
<1> QED BY <1>1, <1>2, <1>3, <1>4 DEF AddressInv

-----------------------------------------------------------------------------
(* A public address: its queues.                                           *)

\* A task comes, goes on, or leaves.
LEMMA Lines ==
    ASSUME NEW q, NEW s, InLine(q, s)
    PROVE  /\ \A t \in QueuedOf(q) :
                /\ InLine(q, Append(s, t)) /\ Append(s, t) # <<>>
                /\ s # <<>> => Head(Append(s, t)) = Head(s)
                /\ s = <<>> => Head(Append(s, t)) = t
           /\ s # <<>> => /\ Head(s) \in TasksOf(q) /\ InLine(q, Tail(s))
                          /\ Tail(s) # <<>> => Head(Tail(s)).state = "queued"
           /\ \A to \in {"sent", "done"} : s # <<>> =>
                /\ InLine(q, P!Goes(s, to)) /\ P!Goes(s, to) # <<>>
                /\ Head(P!Goes(s, to)) = [order |-> Head(s).order, state |-> to]
<1>0. QueuedOf(q) \subseteq TasksOf(q) BY DEF QueuedOf, TasksOf
<1>1. s \in Seq(TasksOf(q)) BY DEF InLine
<1>2. ASSUME NEW t \in QueuedOf(q)
      PROVE  /\ InLine(q, Append(s, t)) /\ Append(s, t) # <<>>
             /\ s # <<>> => Head(Append(s, t)) = Head(s)
             /\ s = <<>> => Head(Append(s, t)) = t
  <2> DEFINE a == Append(s, t)
  <2>1. t \in TasksOf(q) BY <1>0
  <2>2. a \in Seq(TasksOf(q)) /\ a # <<>> BY <1>1, <2>1, QueueSteps
  <2>3. CASE s = <<>>
    <3>1. Head(a) = t /\ Tail(a) = <<>> BY <2>3
    <3> QED BY <2>1, <2>2, <2>3, <3>1 DEF InLine
  <2>4. CASE s # <<>>
    <3>1. Tail(s) \in Seq(QueuedOf(q)) BY <2>4 DEF InLine
    <3>2. Head(a) = Head(s) /\ Tail(a) = Append(Tail(s), t) BY <1>1, <2>1, <2>4
    <3>3. Append(Tail(s), t) \in Seq(QueuedOf(q)) BY <3>1
    <3> HIDE DEF a
    <3> QED BY <2>2, <2>4, <3>2, <3>3 DEF InLine
  <2> QED BY <2>3, <2>4
<1>3. ASSUME s # <<>>
      PROVE  /\ Head(s) \in TasksOf(q) /\ InLine(q, Tail(s))
             /\ Tail(s) # <<>> => Head(Tail(s)).state = "queued"
  <2>1. Head(s) \in TasksOf(q) /\ Tail(s) \in Seq(QueuedOf(q)) BY <1>3 DEF InLine
  <2>2. Tail(s) \in Seq(TasksOf(q)) BY <1>1, <1>3
  <2>3. Tail(s) # <<>> => Head(Tail(s)) \in QueuedOf(q) /\ Tail(Tail(s)) \in Seq(QueuedOf(q)) BY <2>1
  <2>4. Tail(s) # <<>> => Head(Tail(s)).state = "queued" BY <2>3 DEF QueuedOf
  <2> QED BY <1>0, <2>1, <2>2, <2>3, <2>4 DEF InLine
<1>4. ASSUME NEW to \in {"sent", "done"}, s # <<>>
      PROVE  /\ InLine(q, P!Goes(s, to)) /\ P!Goes(s, to) # <<>>
             /\ Head(P!Goes(s, to)) = [order |-> Head(s).order, state |-> to]
  <2> DEFINE t == [order |-> Head(s).order, state |-> to]
             g == <<t>> \o Tail(s)
  <2>1. t \in TasksOf(q) BY <1>4 DEF InLine, TasksOf
  <2>2. Tail(s) \in Seq(TasksOf(q)) /\ Tail(s) \in Seq(QueuedOf(q)) BY <1>1, <1>4 DEF InLine
  <2> HIDE DEF t
  <2>3. g \in Seq(TasksOf(q)) /\ g # <<>> /\ Head(g) = t /\ Tail(g) = Tail(s) BY <2>1, <2>2
  <2>4. InLine(q, g) BY <2>1, <2>2, <2>3 DEF InLine
  <2>5. P!Goes(s, to) = g BY DEF P!Goes, t
  <2> QED BY <2>3, <2>4, <2>5 DEF t
<1> QED BY <1>2, <1>3, <1>4

\* One queue is given a new content.
LEMMA QueueChanged ==
    ASSUME QueuesTyped, NEW q \in P!Queues, NEW s, InLine(q, s), moving' = [moving EXCEPT ![q] = s]
    PROVE  QueuesTyped' /\ moving'[q] = s /\ \A p \in P!Queues \ {q} : moving'[p] = moving[p]
<1>1. DOMAIN moving = P!Queues BY DEF QueuesTyped
<1>2. moving'[q] = s /\ \A p \in P!Queues \ {q} : moving'[p] = moving[p] BY <1>1
<1>3. moving' = [p \in P!Queues |-> moving'[p]] BY <1>1
<1>4. \A p \in P!Queues : InLine(p, moving'[p]) BY <1>2 DEF QueuesTyped
<1> QED BY <1>2, <1>3, <1>4 DEF QueuesTyped

LEMMA OrderFields ==
    ASSUME NEW q \in P!Queues, NEW o \in OrdersOf(q)
    PROVE  /\ o.kind \in TaskKinds \cup {"repair"} /\ o.row \in AddressRows /\ P!Queue(o) = q
           /\ o.vm \in VMs \cup {P!Nobody} /\ o.mode \in P!Modes
           /\ o.kind = "repair" <=> q = P!NoRow
           /\ o.kind # "repair" => o.row = q
BY DEF OrdersOf, AddressOrders, AddressRows, P!Queue, P!Platform, P!NoRow

\* Neither the row nor what the oldest tasks wait for changes.
SameHeads ==
    \A q \in P!Queues :
        /\ moving'[q] # <<>> /\ Head(moving'[q]).state # "queued" => moving[q] # <<>>
        /\ moving[q] # <<>> => moving'[q] # <<>> /\ Head(moving'[q]) = Head(moving[q])
LEMMA HeadsKept ==
    ASSUME AddressTyped, QueuesTyped, OneWaits, RulesFit, SameHeads,
           UNCHANGED <<pooled, binding, dnat, route, sent, lapses, stale>>
    PROVE  OneWaits' /\ RulesFit'
<1>1. \A o \in sent : P!Queue(o) \in P!Queues
  BY PartsAssumption DEF AddressTyped, AddressOrders, AddressRows, P!Queue, P!Platform, P!Queues, P!PublicIPAssumption
<1>2. OneWaits' BY <1>1 DEF OneWaits, AtHead, SameHeads
<1>3. pooled \in P!Queues BY DEF AddressTyped
<1>4. \A kinds : Awaits(kinds)' <=> Awaits(kinds) BY <1>3 DEF Awaits, SameHeads
<1>5. Clean' <=> Clean BY DEF Clean
<1>6. RulesFit' BY <1>4, <1>5 DEF RulesFit
<1> QED BY <1>2, <1>6

-----------------------------------------------------------------------------
(* A public address: requests.                                             *)

LEMMA CheckInv == ASSUME AddressInv, NEW r \in Requests, P!Check(r) PROVE AddressInv'
<1>1. UNCHANGED <<pooled, bound, binding, dnat, route, moving, sent, lapses, stale>> /\ bindings' = bindings + 1
  BY DEF P!Check, P!rows
<1>2. PICK o \in P!Asked : dispatch' = [dispatch EXCEPT ![r] = [pc |-> "act", order |-> o]]
  BY DEF P!Check
<1>3. pooled \in AddressRows BY DEF AddressInv, AddressTyped, AddressRows, P!Check
<1>4. o \in AddressOrders(TaskKinds \cup {"delete"})
  BY <1>3 DEF P!Asked, P!Order, AddressOrders, TaskKinds, P!Modes, AddressInv, AddressTyped
<1>5. [pc |-> "act", order |-> o] \in AddressRequests BY <1>4 DEF AddressRequests
<1> HIDE DEF AddressRequests
<1>6. AddressTyped'
  <2>1. bindings' \in Nat BY <1>1 DEF AddressInv, AddressTyped
  <2>2. dispatch' \in [Requests -> AddressRequests] BY <1>2, <1>5 DEF AddressInv, AddressTyped
  <2>3. UNCHANGED <<pooled, bound, binding, sent, lapses, stale>> BY <1>1
  <2> QED BY <2>1, <2>2, <2>3 DEF AddressInv, AddressTyped
<1>7. SameHeads BY <1>1 DEF SameHeads
<1>8. QueuesTyped' /\ StatusFits' BY <1>1 DEF AddressInv, QueuesTyped, InLine, StatusFits
<1> QED BY <1>1, <1>6, <1>7, <1>8, HeadsKept DEF AddressInv

\* A task is queued.
LEMMA EnqueueInv ==
    ASSUME AddressInv, NEW q \in P!Queues, NEW o \in OrdersOf(q),
           moving' = [moving EXCEPT ![q] = Append(@, P!Queued(o))],
           UNCHANGED <<pooled, bound, binding, dnat, route, sent, lapses, stale>>
    PROVE  QueuesTyped' /\ OneWaits' /\ StatusFits' /\ RulesFit'
<1>1. QueuesTyped /\ InLine(q, moving[q]) BY DEF AddressInv, QueuesTyped
<1>2. P!Queued(o) \in QueuedOf(q) /\ P!Queued(o).state = "queued" BY DEF P!Queued, QueuedOf
<1> DEFINE s == Append(moving[q], P!Queued(o))
<1>3. /\ InLine(q, s) /\ s # <<>>
      /\ moving[q] # <<>> => Head(s) = Head(moving[q])
      /\ moving[q] = <<>> => Head(s) = P!Queued(o)
  BY <1>1, <1>2, Lines
<1>4. moving' = [moving EXCEPT ![q] = s] OBVIOUS
<1> HIDE DEF s
<1>5. QueuesTyped' /\ moving'[q] = s /\ \A p \in P!Queues \ {q} : moving'[p] = moving[p]
  BY <1>1, <1>3, <1>4, QueueChanged
<1>6. SameHeads BY <1>2, <1>3, <1>5 DEF SameHeads
<1>7. StatusFits' BY DEF AddressInv, StatusFits
<1> QED BY <1>5, <1>6, <1>7, HeadsKept DEF AddressInv

LEMMA RemoveRowInv ==
    ASSUME AddressInv, NEW q \in AddressRows, P!RemoveRow(q), UNCHANGED <<dnat, route, moving, sent, lapses>>
    PROVE  /\ OneWaits' /\ StatusFits' /\ RulesFit'
           /\ pooled' \in P!Queues /\ bound' \in BOOLEAN /\ stale' \in BOOLEAN
           /\ binding' \in {P!NoBinding} \cup [vm : VMs \cup {P!Nobody}, mode : P!Modes]
<1>1. CASE q # pooled
  <2>1. UNCHANGED <<pooled, bound, binding, stale>> BY <1>1 DEF P!RemoveRow, P!rows
  <2>2. SameHeads BY DEF SameHeads
  <2> QED BY <2>1, <2>2, HeadsKept DEF AddressInv, StatusFits, AddressTyped
<1>2. CASE q = pooled
  <2>1. /\ pooled' = P!NoRow /\ bound' = FALSE /\ binding' = P!NoBinding
        /\ stale' = (stale \/ binding # P!NoBinding \/ P!Dispatched(q))
    BY <1>2 DEF P!RemoveRow
  <2>2. OneWaits' BY DEF AddressInv, OneWaits, AtHead
  <2>3. RulesFit'
    <3> SUFFICES ASSUME lapses = 0, ~stale' PROVE Clean' BY DEF RulesFit
    <3>1. ~stale /\ binding = P!NoBinding /\ ~P!Dispatched(pooled) BY <1>2, <2>1
    <3>2. ~Awaits({"bind", "migrate"}) BY <3>1 DEF Awaits, P!Dispatched
    <3> QED BY <3>1, <3>2 DEF AddressInv, RulesFit, Clean
  <2>4. P!NoRow \in P!Queues BY PartsAssumption DEF P!NoRow, P!Queues, P!PublicIPAssumption
  <2> QED BY <2>1, <2>2, <2>3, <2>4 DEF StatusFits
<1> QED BY <1>1, <1>2

LEMMA ActInv == ASSUME AddressInv, NEW r \in Requests, P!Act(r) PROVE AddressInv'
<1> DEFINE o == dispatch[r].order
<1>1. UNCHANGED <<dnat, route, sent, bindings, lapses>> /\ dispatch' = [dispatch EXCEPT ![r] = P!Idle]
  BY DEF P!Act
<1>2. o \in AddressOrders(TaskKinds \cup {"delete"})
  BY DEF P!Act, AddressInv, AddressTyped, AddressRequests
<1>3. CASE o.kind = "delete"
  <2>1. P!RemoveRow(o.row) /\ UNCHANGED moving BY <1>3 DEF P!Act
  <2>2. o.row \in AddressRows BY <1>2 DEF AddressOrders
  <2> HIDE DEF o
  <2>3. /\ OneWaits' /\ StatusFits' /\ RulesFit'
        /\ pooled' \in P!Queues /\ bound' \in BOOLEAN /\ stale' \in BOOLEAN
        /\ binding' \in {P!NoBinding} \cup [vm : VMs \cup {P!Nobody}, mode : P!Modes]
    BY <1>1, <2>1, <2>2, RemoveRowInv
  <2>4. AddressTyped' BY <1>1, <2>3 DEF AddressInv, AddressTyped, AddressRequests
  <2>5. QueuesTyped' BY <2>1 DEF AddressInv, QueuesTyped, InLine
  <2> QED BY <2>3, <2>4, <2>5 DEF AddressInv
<1>4. CASE o.kind # "delete"
  <2>1. /\ moving' = [moving EXCEPT ![o.row] = Append(@, P!Queued(o))]
        /\ UNCHANGED <<pooled, bound, binding, stale>>
    BY <1>4 DEF P!Act, P!rows
  <2>2. o.row \in P!Queues /\ o \in OrdersOf(o.row)
    BY <1>2, <1>4 DEF AddressOrders, AddressRows, OrdersOf, P!Queue, TaskKinds
  <2> HIDE DEF o
  <2>3. QueuesTyped' /\ OneWaits' /\ StatusFits' /\ RulesFit' BY <1>1, <2>1, <2>2, EnqueueInv
  <2>4. AddressTyped' BY <1>1, <2>1 DEF AddressInv, AddressTyped, AddressRequests
  <2> QED BY <2>3, <2>4 DEF AddressInv
<1> QED BY <1>3, <1>4

\* What the platform has queued are repairs, which no transaction follows.
LEMMA CreateInv == ASSUME AddressInv, P!Create PROVE AddressInv'
<1>1. /\ UNCHANGED <<dnat, route, moving, sent, dispatch, lapses, stale>> /\ bindings' = bindings + 1
      /\ pooled = P!NoRow /\ bindings < AddressCalls
      /\ pooled' = bindings + 2 /\ bound' = FALSE /\ binding' = P!NoBinding
  BY DEF P!Create
<1>2. bindings \in Nat /\ AddressCalls \in Nat BY PartsAssumption DEF AddressInv, AddressTyped, P!PublicIPAssumption
<1>3. pooled' \in P!Queues /\ pooled' # P!NoRow BY <1>1, <1>2 DEF P!Queues, P!NoRow
<1>4. AddressTyped'
  <2>1. bindings' \in Nat BY <1>1, <1>2
  <2>2. bound' \in BOOLEAN /\ binding' = P!NoBinding BY <1>1
  <2> QED BY <1>1, <1>3, <2>1, <2>2 DEF AddressInv, AddressTyped
<1>5. QueuesTyped' /\ OneWaits' /\ StatusFits'
  BY <1>1, <1>3 DEF AddressInv, QueuesTyped, InLine, OneWaits, AtHead, StatusFits
<1>6. ~Awaits({"bind", "migrate"})
  <2> SUFFICES ASSUME moving[pooled] # <<>> PROVE Head(moving[pooled]).order.kind = "repair" BY DEF Awaits
  <2>1. pooled \in P!Queues /\ InLine(pooled, moving[pooled]) BY DEF AddressInv, AddressTyped, QueuesTyped
  <2>2. Head(moving[pooled]).order \in OrdersOf(pooled) BY <2>1 DEF InLine, TasksOf
  <2> QED BY <1>1, <2>1, <2>2, OrderFields
<1>7. lapses = 0 /\ ~stale => Clean BY <1>1, <1>6 DEF AddressInv, StatusFits, RulesFit
<1>8. RulesFit' BY <1>1, <1>7 DEF RulesFit, Clean
<1> QED BY <1>4, <1>5, <1>8 DEF AddressInv

LEMMA AgainTyped ==
    ASSUME AddressInv, binding # P!NoBinding, NEW k
    PROVE  P!Again(k) \in AddressOrders({k}) /\ P!Again(k).kind = k
<1>1. pooled \in AddressRows BY DEF AddressInv, AddressTyped, StatusFits, AddressRows
<1> QED BY <1>1 DEF AddressInv, AddressTyped, P!Again, P!Order, AddressOrders

LEMMA ReloadRulesInv == ASSUME AddressInv, P!ReloadRules PROVE AddressInv'
<1> DEFINE o == P!Again("reload")
<1>1. /\ UNCHANGED <<pooled, bound, binding, dnat, route, moving, dispatch, lapses, stale>> /\ bindings' = bindings + 1
      /\ sent' = sent \cup {o} /\ binding # P!NoBinding
  BY DEF P!ReloadRules, P!rows
<1>2. o \in AddressOrders({"reload"}) /\ o.kind = "reload" BY <1>1, AgainTyped
<1>3. o \in AddressOrders(TaskKinds \cup {"reload", "repair"}) BY <1>2 DEF AddressOrders
<1> HIDE DEF o
<1>4. AddressTyped' BY <1>1, <1>3 DEF AddressInv, AddressTyped
<1>5. QueuesTyped' /\ StatusFits' BY <1>1 DEF AddressInv, QueuesTyped, InLine, StatusFits
<1>6. OneWaits' BY <1>1, <1>2 DEF AddressInv, OneWaits, AtHead
<1>7. RulesFit' BY <1>1 DEF AddressInv, RulesFit, Awaits, Clean
<1> QED BY <1>4, <1>5, <1>6, <1>7 DEF AddressInv

LEMMA RepairInv == ASSUME AddressInv, P!Repair PROVE AddressInv'
<1> DEFINE o == P!Again("repair")
<1>1. /\ UNCHANGED <<pooled, bound, binding, dnat, route, sent, dispatch, lapses, stale>> /\ bindings' = bindings + 1
      /\ moving' = [moving EXCEPT ![P!Platform] = Append(@, P!Queued(o))] /\ binding # P!NoBinding
  BY DEF P!Repair, P!rows
<1>2. o \in AddressOrders({"repair"}) /\ o.kind = "repair" BY <1>1, AgainTyped
<1>3. P!Platform \in P!Queues BY PartsAssumption DEF P!Platform, P!Queues, P!PublicIPAssumption
<1>4. o \in OrdersOf(P!Platform) BY <1>2 DEF OrdersOf, AddressOrders, P!Queue
<1> HIDE DEF o
<1>5. AddressTyped'
  <2>1. bindings' \in Nat BY <1>1 DEF AddressInv, AddressTyped
  <2>2. UNCHANGED <<pooled, bound, binding, sent, dispatch, lapses, stale>> BY <1>1
  <2> QED BY <2>1, <2>2 DEF AddressInv, AddressTyped
<1>6. QueuesTyped' /\ OneWaits' /\ StatusFits' /\ RulesFit' BY <1>1, <1>3, <1>4, EnqueueInv
<1> QED BY <1>5, <1>6 DEF AddressInv

-----------------------------------------------------------------------------
(* A public address: the executors and the node.                           *)

\* What a queue waits for, while another queue changes.
LEMMA OthersWait ==
    ASSUME AddressTyped, NEW q \in P!Queues, NEW o \in sent, AtHead(o), P!Queue(o) # q,
           \A p \in P!Queues \ {q} : moving'[p] = moving[p]
    PROVE  moving'[P!Queue(o)] = moving[P!Queue(o)] /\ AtHead(o)'
<1>1. P!Queue(o) \in P!Queues
  BY PartsAssumption DEF AddressTyped, AddressOrders, AddressRows, P!Queue, P!Platform, P!Queues, P!PublicIPAssumption
<1> QED BY <1>1 DEF AtHead

LEMMA AddressDispatchInv == ASSUME AddressInv, NEW q \in P!Queues, P!Dispatch(q) PROVE AddressInv'
<1> DEFINE s == P!Goes(moving[q], "sent")  o == Head(moving[q]).order
<1>1. /\ UNCHANGED <<pooled, bound, binding, dnat, route, dispatch, bindings, lapses, stale>>
      /\ moving[q] # <<>> /\ Head(moving[q]).state = "queued"
      /\ sent' = sent \cup {o} /\ moving' = [moving EXCEPT ![q] = s]
  BY DEF P!Dispatch, P!Dispatched, P!rows
<1>2. QueuesTyped /\ InLine(q, moving[q]) BY DEF AddressInv, QueuesTyped
<1>3. InLine(q, s) /\ s # <<>> /\ Head(s) = [order |-> o, state |-> "sent"] BY <1>1, <1>2, Lines
<1>4. o \in OrdersOf(q) BY <1>1, <1>2 DEF InLine, TasksOf
<1> HIDE DEF s, o
<1>5. QueuesTyped' /\ moving'[q] = s /\ \A p \in P!Queues \ {q} : moving'[p] = moving[p]
  BY <1>1, <1>2, <1>3, QueueChanged
<1>6. o \in AddressOrders(TaskKinds \cup {"reload", "repair"}) /\ P!Queue(o) = q
  BY <1>4 DEF OrdersOf, AddressOrders
<1>7. AddressTyped' BY <1>1, <1>6 DEF AddressInv, AddressTyped
<1>8. OneWaits'
  <2> SUFFICES ASSUME lapses = 0, NEW p \in sent', p.kind # "reload" PROVE AtHead(p)' BY <1>1 DEF OneWaits
  <2>1. CASE p = o BY <1>3, <1>5, <1>6, <2>1 DEF AtHead
  <2>2. CASE p \in sent
    <3>1. AtHead(p) BY <2>2 DEF AddressInv, OneWaits
    <3>2. P!Queue(p) # q BY <1>1, <3>1 DEF AtHead
    <3> QED BY <1>5, <2>2, <3>1, <3>2, OthersWait DEF AddressInv
  <2> QED BY <1>1, <2>1, <2>2
<1>9. pooled \in P!Queues BY DEF AddressInv, AddressTyped
<1>10. \A kinds : Awaits(kinds)' <=> Awaits(kinds) BY <1>1, <1>3, <1>5, <1>9 DEF Awaits
<1>11. RulesFit' BY <1>1, <1>10 DEF AddressInv, RulesFit, Clean
<1>12. StatusFits' BY <1>1 DEF AddressInv, StatusFits
<1> QED BY <1>5, <1>7, <1>8, <1>11, <1>12 DEF AddressInv

LEMMA AddressLoseInv == ASSUME AddressInv, NEW q \in P!Queues, P!LoseAnswer(q) PROVE AddressInv'
<1>1. /\ UNCHANGED <<pooled, bound, binding, dnat, route, sent, dispatch, bindings, stale>>
      /\ moving[q] # <<>> /\ moving' = [moving EXCEPT ![q] = Tail(moving[q])] /\ lapses' = lapses + 1
  BY DEF P!LoseAnswer, P!Dispatched, P!rows
<1>2. QueuesTyped /\ InLine(q, moving[q]) BY DEF AddressInv, QueuesTyped
<1>3. InLine(q, Tail(moving[q])) BY <1>1, <1>2, Lines
<1>4. QueuesTyped' BY <1>1, <1>2, <1>3, QueueChanged
<1>5. lapses' \in Nat /\ lapses' # 0 BY <1>1 DEF AddressInv, AddressTyped
<1>6. AddressTyped' BY <1>1, <1>5 DEF AddressInv, AddressTyped
<1>7. OneWaits' /\ StatusFits' /\ RulesFit' BY <1>1, <1>5 DEF AddressInv, OneWaits, StatusFits, RulesFit
<1> QED BY <1>4, <1>6, <1>7 DEF AddressInv

\* The transaction: the oldest task is over, and the next one is not sent yet.
LEMMA FinishInv == ASSUME AddressInv, NEW q \in P!Queues, P!Finish(q) PROVE AddressInv'
<1> DEFINE o == Head(moving[q]).order
<1>1. /\ UNCHANGED <<pooled, dnat, route, sent, dispatch, bindings, lapses, stale>>
      /\ moving[q] # <<>> /\ Head(moving[q]).state = "done" /\ moving' = [moving EXCEPT ![q] = Tail(moving[q])]
      /\ \/ o.kind \in {"bind", "migrate"} /\ P!BindTx(o)
         \/ o.kind = "unbind" /\ P!UnbindTx(o)
         \/ o.kind = "repair" /\ UNCHANGED <<binding, bound>>
  BY DEF P!Finish
<1>2. QueuesTyped /\ InLine(q, moving[q]) BY DEF AddressInv, QueuesTyped
<1>3. InLine(q, Tail(moving[q])) /\ (Tail(moving[q]) # <<>> => Head(Tail(moving[q])).state = "queued")
  BY <1>1, <1>2, Lines
<1>4. o \in OrdersOf(q) BY <1>1, <1>2 DEF InLine, TasksOf
<1>5. QueuesTyped' /\ moving'[q] = Tail(moving[q]) /\ \A p \in P!Queues \ {q} : moving'[p] = moving[p]
  BY <1>1, <1>2, <1>3, QueueChanged
<1>6. /\ o.vm \in VMs \cup {P!Nobody} /\ o.mode \in P!Modes /\ o.row \in AddressRows
      /\ o.kind = "repair" <=> q = P!NoRow
      /\ o.kind # "repair" => o.row = q
  BY <1>4, OrderFields
<1>7. [vm |-> o.vm, mode |-> o.mode] # P!NoBinding BY BindingsDiffer
<1>8. \/ UNCHANGED <<binding, bound>> /\ (q # pooled \/ pooled = P!NoRow)
      \/ /\ q = pooled /\ pooled # P!NoRow /\ o.kind \in {"bind", "migrate"}
         /\ binding' = [vm |-> o.vm, mode |-> o.mode] /\ bound' = TRUE
      \/ q = pooled /\ pooled # P!NoRow /\ o.kind = "unbind" /\ binding' = P!NoBinding /\ bound' = FALSE
  <2>1. CASE o.kind = "repair" BY <1>1, <1>6, <2>1
  <2>2. CASE o.kind # "repair"
    <3>1. o.row = q /\ q # P!NoRow BY <1>6, <2>2
    <3> QED BY <1>1, <2>2, <3>1 DEF P!BindTx, P!UnbindTx
  <2> QED BY <2>1, <2>2
<1>9. AddressTyped'
  <2>1. [vm |-> o.vm, mode |-> o.mode] \in [vm : VMs \cup {P!Nobody}, mode : P!Modes] BY <1>6
  <2>2. bound' \in BOOLEAN BY <1>8 DEF AddressInv, AddressTyped
  <2>3. binding' \in {P!NoBinding} \cup [vm : VMs \cup {P!Nobody}, mode : P!Modes]
    BY <1>8, <2>1 DEF AddressInv, AddressTyped
  <2>4. UNCHANGED <<pooled, sent, dispatch, bindings, lapses, stale>> BY <1>1
  <2> QED BY <2>2, <2>3, <2>4 DEF AddressInv, AddressTyped
<1>10. OneWaits'
  <2> SUFFICES ASSUME lapses = 0, NEW p \in sent, p.kind # "reload" PROVE AtHead(p)' BY <1>1 DEF OneWaits
  <2>1. AtHead(p) BY DEF AddressInv, OneWaits
  <2>2. P!Queue(p) # q BY <1>1, <2>1 DEF AtHead
  <2> QED BY <1>5, <2>1, <2>2, OthersWait DEF AddressInv
<1>11. StatusFits' BY <1>1, <1>7, <1>8 DEF AddressInv, StatusFits
<1>12. pooled \in P!Queues BY DEF AddressInv, AddressTyped
<1>13. RulesFit'
  <2> SUFFICES ASSUME lapses = 0, ~stale
               PROVE  /\ binding' = P!NoBinding /\ ~Awaits({"bind", "migrate"})' => Clean
                      /\ Awaits({"unbind"})' => Clean
    BY <1>1 DEF RulesFit, Clean
  <2>1. CASE q # pooled
    <3>1. \A kinds : Awaits(kinds)' <=> Awaits(kinds) BY <1>1, <1>5, <1>12, <2>1 DEF Awaits
    <3> QED BY <1>8, <2>1, <3>1 DEF AddressInv, RulesFit
  <2>2. CASE q = pooled
    <3>1. \A kinds : ~Awaits(kinds)' BY <1>1, <1>3, <1>5, <2>2 DEF Awaits
    <3>2. CASE UNCHANGED binding /\ pooled = P!NoRow
      <4>1. o.kind = "repair" BY <1>6, <2>2, <3>2
      <4>2. ~Awaits({"bind", "migrate"}) BY <2>2, <4>1 DEF Awaits
      <4> QED BY <3>1, <3>2, <4>2 DEF AddressInv, RulesFit
    <3>3. CASE binding' = [vm |-> o.vm, mode |-> o.mode] BY <1>7, <3>1, <3>3
    <3>4. CASE o.kind = "unbind"
      <4>1. Awaits({"unbind"}) BY <1>1, <2>2, <3>4 DEF Awaits
      <4> QED BY <4>1 DEF AddressInv, RulesFit
    <3> QED BY <1>8, <2>2, <3>2, <3>3, <3>4
  <2> QED BY <2>1, <2>2
<1> QED BY <1>5, <1>9, <1>10, <1>11, <1>13 DEF AddressInv

\* What an operation leaves in the queue it was waited for in, if it was.
LEMMA AnsweredInv ==
    ASSUME AddressInv, NEW o \in sent, NEW to \in {"done", "gone"}, sent' = sent \ {o}, lapses' = 0 => lapses = 0,
           P!Answered(o, IF to = "done" THEN P!Goes(moving[P!Queue(o)], "done") ELSE Tail(moving[P!Queue(o)]))
    PROVE  /\ QueuesTyped' /\ OneWaits'
           /\ ~P!Waited(o) => moving' = moving
           /\ P!Waited(o) =>
                LET s == moving'[P!Queue(o)] IN
                /\ to = "done" => s # <<>> /\ Head(s) = [order |-> o, state |-> "done"]
                /\ to = "gone" /\ s # <<>> => Head(s).state = "queued"
                /\ \A p \in P!Queues \ {P!Queue(o)} : moving'[p] = moving[p]
<1> DEFINE q == P!Queue(o)
           s == IF to = "done" THEN P!Goes(moving[q], "done") ELSE Tail(moving[q])
<1>1. q \in P!Queues
  BY PartsAssumption DEF AddressInv, AddressTyped, AddressOrders, AddressRows, P!Queue, P!Platform, P!Queues, P!PublicIPAssumption
<1>2. QueuesTyped /\ InLine(q, moving[q]) BY <1>1 DEF AddressInv, QueuesTyped
<1>3. CASE ~P!Waited(o)
  <2>1. moving' = moving BY <1>3 DEF P!Answered
  <2>2. QueuesTyped' BY <1>2, <2>1 DEF QueuesTyped, InLine
  <2>3. OneWaits' BY <2>1 DEF AddressInv, OneWaits, AtHead
  <2> QED BY <1>3, <2>1, <2>2, <2>3
<1>4. CASE P!Waited(o)
  <2>1. moving[q] # <<>> /\ Head(moving[q]).order = o BY <1>4 DEF P!Waited, P!Dispatched
  <2>2. /\ InLine(q, s)
        /\ to = "done" => s # <<>> /\ Head(s) = [order |-> o, state |-> "done"]
        /\ to = "gone" /\ s # <<>> => Head(s).state = "queued"
    BY <1>2, <2>1, Lines
  <2>3. moving' = [moving EXCEPT ![q] = s] BY <1>4 DEF P!Answered
  <2> HIDE DEF s
  <2>4. QueuesTyped' /\ moving'[q] = s /\ \A p \in P!Queues \ {q} : moving'[p] = moving[p]
    BY <1>1, <1>2, <2>2, <2>3, QueueChanged
  <2>5. OneWaits'
    <3> SUFFICES ASSUME lapses' = 0, lapses = 0, NEW p \in sent \ {o}, p.kind # "reload" PROVE AtHead(p)' BY DEF OneWaits
    <3>1. AtHead(p) BY DEF AddressInv, OneWaits
    <3>2. P!Queue(p) # q BY <2>1, <3>1 DEF AtHead
    <3> QED BY <1>1, <2>4, <3>1, <3>2, OthersWait DEF AddressInv
  <2> QED BY <1>4, <2>2, <2>4, <2>5
<1> QED BY <1>3, <1>4

\* Only what the oldest task wants can still give the address rules that its
\* transaction has not written down.
LEMMA AddressWorkInv == ASSUME AddressInv, NEW o \in sent, P!Work(o) PROVE AddressInv'
<1>1. UNCHANGED <<pooled, bound, binding, dispatch, bindings, lapses>> /\ sent' = sent \ {o}
  BY DEF P!Work, P!rows
<1>2. /\ o.kind \in TaskKinds \cup {"reload", "repair"} /\ o.row \in AddressRows
      /\ pooled \in P!Queues /\ stale \in BOOLEAN
  BY DEF AddressInv, AddressTyped, AddressOrders
<1>3. StatusFits' BY <1>1 DEF AddressInv, StatusFits
<1>4. [vm |-> o.vm, mode |-> o.mode] # P!NoBinding BY BindingsDiffer
<1>5. CASE /\ P!Perform(o) /\ stale' = (stale \/ P!Outdated(o))
           /\ P!Answered(o, P!Goes(moving[P!Queue(o)], "done"))
  <2>1. /\ QueuesTyped' /\ OneWaits'
        /\ ~P!Waited(o) => moving' = moving
        /\ P!Waited(o) =>
             LET s == moving'[P!Queue(o)] IN
             /\ s # <<>> /\ Head(s) = [order |-> o, state |-> "done"]
             /\ \A p \in P!Queues \ {P!Queue(o)} : moving'[p] = moving[p]
    BY <1>1, <1>5, AnsweredInv
  <2>2. stale' \in BOOLEAN BY <1>2, <1>5
  <2>3. AddressTyped' BY <1>1, <2>2 DEF AddressInv, AddressTyped
  <2>4. ASSUME lapses = 0, ~stale' PROVE Clean' \/ (binding' # P!NoBinding /\ ~Awaits({"unbind"})') \/ (Awaits({"bind", "migrate"})' /\ ~Awaits({"unbind"})')
    <3>1. ~P!Outdated(o) BY <1>5, <2>4
    <3>2. CASE o.kind = "unbind" BY <1>5, <3>2 DEF P!Perform, P!RulesAfter, P!RouteAfter, Clean
    <3>3. CASE o.kind \in {"bind", "migrate"}
      <4>1. o.row = pooled /\ P!Queue(o) = pooled BY <3>1, <3>3 DEF P!Outdated, P!Queue
      <4>2. P!Waited(o) BY <2>4, <3>3 DEF AddressInv, OneWaits, AtHead, P!Waited, P!Dispatched
      <4> QED BY <1>1, <2>1, <3>3, <4>1, <4>2 DEF Awaits
    <3>4. CASE o.kind \in {"reload", "repair"}
      <4>1. binding = [vm |-> o.vm, mode |-> o.mode] /\ ~P!Dispatched(pooled) BY <3>1, <3>4 DEF P!Outdated
      <4>2. pooled # P!NoRow BY <1>4, <4>1 DEF AddressInv, StatusFits
      <4>3. P!Waited(o) => P!Queue(o) # pooled
        <5>1. CASE o.kind = "repair" BY <4>2, <5>1 DEF P!Queue, P!Platform, P!NoRow
        <5>2. CASE o.kind = "reload"
          <6>1. P!Waited(o) => P!Dispatched(P!Queue(o)) BY DEF P!Waited
          <6> QED BY <4>1, <6>1
        <5> QED BY <3>4, <5>1, <5>2
      <4>4. moving'[pooled] = moving[pooled] BY <1>2, <2>1, <4>3
      <4>5. ~Awaits({"unbind"})' BY <1>1, <4>1, <4>4 DEF Awaits, P!Dispatched
      <4> QED BY <1>1, <1>4, <4>1, <4>5
    <3> QED BY <1>2, <3>2, <3>3, <3>4 DEF TaskKinds
  <2>5. RulesFit' BY <1>1, <2>4 DEF RulesFit
  <2> QED BY <1>3, <2>1, <2>3, <2>5 DEF AddressInv
<1>6. CASE P!Refuses(o) /\ UNCHANGED stale /\ P!Answered(o, Tail(moving[P!Queue(o)]))
  <2>1. /\ QueuesTyped' /\ OneWaits'
        /\ ~P!Waited(o) => moving' = moving
        /\ P!Waited(o) =>
             LET s == moving'[P!Queue(o)] IN
             /\ s # <<>> => Head(s).state = "queued"
             /\ \A p \in P!Queues \ {P!Queue(o)} : moving'[p] = moving[p]
    BY <1>1, <1>6, AnsweredInv
  <2>2. AddressTyped' BY <1>1, <1>6 DEF AddressInv, AddressTyped
  <2>3. Clean => Clean' BY <1>6 DEF P!Refuses, Clean
  <2>4. lapses = 0 => \A kinds : Awaits(kinds)' <=> Awaits(kinds)
    <3> SUFFICES ASSUME lapses = 0, NEW kinds PROVE Awaits(kinds)' <=> Awaits(kinds) OBVIOUS
    <3>1. CASE moving'[pooled] = moving[pooled] BY <1>1, <3>1 DEF Awaits
    <3>2. CASE P!Waited(o) /\ P!Queue(o) = pooled /\ o.kind # "reload"
      <4>1. Head(moving[pooled]).state = "sent" BY <3>2 DEF AddressInv, OneWaits, AtHead
      <4> QED BY <1>1, <2>1, <3>2, <4>1 DEF Awaits
    <3>3. CASE P!Waited(o) /\ o.kind = "reload"
      <4>1. P!Queue(o) = o.row /\ o.row \in P!Queues BY <1>2, <3>3 DEF P!Queue, AddressRows
      <4>2. moving[o.row] # <<>> /\ Head(moving[o.row]).order = o BY <3>3, <4>1 DEF P!Waited, P!Dispatched
      <4>3. o \in OrdersOf(o.row) BY <4>1, <4>2 DEF AddressInv, QueuesTyped, InLine, TasksOf
      <4> QED BY <3>3, <4>1, <4>3, OrderFields DEF TaskKinds
    <3> QED BY <1>2, <2>1, <3>1, <3>2, <3>3
  <2>5. RulesFit' BY <1>1, <1>6, <2>3, <2>4 DEF AddressInv, RulesFit
  <2> QED BY <1>3, <2>1, <2>2, <2>5 DEF AddressInv
<1> QED BY <1>5, <1>6 DEF P!Work

LEMMA OverlookInv == ASSUME AddressInv, NEW o \in sent, P!Overlook(o) PROVE AddressInv'
<1>1. /\ UNCHANGED <<pooled, bound, binding, dispatch, bindings, stale>> /\ sent' = sent \ {o} /\ lapses' = lapses + 1
      /\ P!Answered(o, P!Goes(moving[P!Queue(o)], "done"))
  BY DEF P!Overlook, P!rows
<1>2. lapses' \in Nat /\ lapses' # 0 BY <1>1 DEF AddressInv, AddressTyped
<1>3. QueuesTyped' /\ OneWaits' BY <1>1, <1>2, AnsweredInv
<1>4. AddressTyped' BY <1>1, <1>2 DEF AddressInv, AddressTyped
<1>5. StatusFits' /\ RulesFit' BY <1>1, <1>2 DEF AddressInv, StatusFits, RulesFit
<1> QED BY <1>3, <1>4, <1>5 DEF AddressInv

LEMMA AddressNextInv == ASSUME AddressInv, [P!Next]_P!vars PROVE AddressInv'
<1>1. CASE UNCHANGED P!vars
  BY <1>1 DEF P!vars, AddressInv, AddressTyped, QueuesTyped, InLine, OneWaits, AtHead, StatusFits, RulesFit, Awaits, Clean
<1>2. CASE \E r \in Requests : P!Check(r) \/ P!Act(r) BY <1>2, CheckInv, ActInv
<1>3. CASE P!Create \/ P!ReloadRules \/ P!Repair BY <1>3, CreateInv, ReloadRulesInv, RepairInv
<1>4. CASE \E q \in P!Queues : P!Dispatch(q) \/ P!Finish(q) \/ P!LoseAnswer(q)
  BY <1>4, AddressDispatchInv, FinishInv, AddressLoseInv
<1>5. CASE \E o \in sent : P!Work(o) \/ P!Overlook(o) BY <1>5, AddressWorkInv, OverlookInv
<1> QED BY <1>1, <1>2, <1>3, <1>4, <1>5 DEF P!Next

-----------------------------------------------------------------------------
(* The invariant.                                                          *)

Agents == Nat \ {N!NoAgent}
Todos == {N!Files, <<"key", "json">>, <<"json">>}

\* A command that found a pending row found nobody there: first is TRUE.
EnrollCommands ==
    {N!AtRest}
    \cup [pc : {"find"}, row : Rows, id : Agents]
    \cup [pc : {"update", "answer"}, row : Rows, id : Agents, first : {TRUE}]
    \cup [pc : {"save"}, id : Agents, todo : Todos]

RowType == [state : {"none", "pending", "enrolled", "removed"},
            token : BOOLEAN, expired : BOOLEAN, agent : Nat]

EnrollTyped ==
    /\ node \in [Rows -> RowType]
    /\ enroll \in [Hosts -> EnrollCommands]
    /\ disk \in [Hosts -> [cert : Nat, key : Nat, json : Nat]]
    /\ enrolls \in Nat

\* A token is there before its row has an agent, never after.
Unspent == \A t \in Rows : node[t].state \in {"none", "pending"} => node[t].agent = N!NoAgent

\* The files are of one agent, but where a whole directory is written over.
Saving(h, todo) == enroll[h].pc = "save" /\ enroll[h].todo = todo
Fits(h) ==
    /\ N!Enrolled(h) /\ h \notin halfway => N!Whole(h)
    /\ Saving(h, <<"key", "json">>) =>
        disk[h].cert = enroll[h].id /\ (N!Enrolled(h) => h \in halfway)
    /\ Saving(h, <<"json">>) =>
        /\ disk[h].cert = enroll[h].id /\ disk[h].key = enroll[h].id
        /\ N!Enrolled(h) => h \in halfway
Fitting == \A h \in Hosts : Fits(h)

\* Who got an answer, or saved it, has a row, or lost it to an overlapping
\* registration or a removal.
Known(a) == a \in lost \/ \E t \in Rows : node[t].agent = a
Admitted ==
    \A h \in Hosts : /\ enroll[h].pc \in {"answer", "save"} => Known(enroll[h].id)
                     /\ N!Enrolled(h) => Known(disk[h].json)

EnrollInv == EnrollTyped /\ Unspent /\ Fitting /\ Admitted

-----------------------------------------------------------------------------
(* Enrolment: the control plane.                                           *)

LEMMA EnrollInitInv == ASSUME N!Init PROVE EnrollInv
BY DEF N!Init, EnrollInv, EnrollTyped, RowType, EnrollCommands, N!AtRest, N!Unused, N!NoAgent, Unspent, Fitting, Fits, Saving,
       N!Enrolled, Admitted

\* A row is made, expires or is removed: its agent stays.
LEMMA RowInv ==
    ASSUME EnrollInv, NEW t \in Rows, N!CreateEnrollToken(t) \/ N!Expire(t) \/ N!Remove(t) PROVE EnrollInv'
<1> USE DEF EnrollInv
<1>1. UNCHANGED <<enroll, disk, enrolls, halfway, lost>> BY DEF N!CreateEnrollToken, N!Expire, N!Remove
<1>0. node[t] \in RowType BY DEF EnrollTyped
<1>a. PICK n \in RowType : /\ node' = [node EXCEPT ![t] = n] /\ n.agent = node[t].agent
                           /\ n.state \in {"none", "pending"} => node[t].state \in {"none", "pending"}
  <2>1. CASE N!CreateEnrollToken(t)
    <3> DEFINE n == [node[t] EXCEPT !.state = "pending", !.token = TRUE]
    <3>1. n \in RowType /\ n.agent = node[t].agent BY <1>0 DEF RowType
    <3>2. node' = [node EXCEPT ![t] = n] BY <2>1 DEF N!CreateEnrollToken
    <3>3. node[t].state = "none" BY <2>1 DEF N!CreateEnrollToken, N!Unused
    <3> QED BY <3>1, <3>2, <3>3
  <2>2. CASE N!Expire(t)
    <3> DEFINE n == [node[t] EXCEPT !.expired = TRUE]
    <3>1. n \in RowType /\ n.agent = node[t].agent /\ n.state = node[t].state BY <1>0 DEF RowType
    <3>2. node' = [node EXCEPT ![t] = n] BY <2>2 DEF N!Expire
    <3> QED BY <3>1, <3>2
  <2>3. CASE N!Remove(t)
    <3> DEFINE n == [node[t] EXCEPT !.state = "removed", !.token = FALSE]
    <3>1. n \in RowType /\ n.agent = node[t].agent /\ n.state = "removed" BY <1>0 DEF RowType
    <3>2. node' = [node EXCEPT ![t] = n] BY <2>3 DEF N!Remove
    <3> QED BY <3>1, <3>2
  <2> QED BY <2>1, <2>2, <2>3
<1>2. EnrollTyped' BY <1>1, <1>a DEF EnrollTyped
<1>3. \A u \in Rows : node'[u].agent = node[u].agent BY <1>a DEF EnrollTyped
<1>4. Unspent' BY <1>a DEF EnrollTyped, Unspent
<1>5. Fitting' BY <1>1 DEF Fitting, Fits, Saving, N!Enrolled, N!Whole
<1>6. Admitted' BY <1>1, <1>3 DEF Admitted, Known, N!Enrolled
<1> QED BY <1>2, <1>4, <1>5, <1>6

-----------------------------------------------------------------------------
(* Enrolment: the command.                                                 *)

\* Steps that only say where one command is, and save nothing: they keep what is
\* known, if the agent of an answer is.
LEMMA OnlyEnroll ==
    ASSUME EnrollInv, NEW h \in Hosts, NEW c \in EnrollCommands,
           enroll' = [enroll EXCEPT ![h] = c], UNCHANGED <<node, disk, halfway, lost>>,
           enrolls' \in Nat,
           c.pc = "save" => c.todo = N!Files,
           c.pc \in {"answer", "save"} => Known(c.id)
    PROVE  EnrollInv'
<1> USE DEF EnrollInv
<1>1. EnrollTyped' BY DEF EnrollTyped
<1>2. Unspent' BY DEF Unspent
<1>3. enroll'[h] = c /\ \A g \in Hosts \ {h} : enroll'[g] = enroll[g] BY DEF EnrollTyped
<1>4. Fitting'
  <2>1. ~Saving(h, <<"key", "json">>)' /\ ~Saving(h, <<"json">>)' BY <1>3 DEF Saving, N!Files
  <2> QED BY <1>3, <2>1 DEF Fitting, Fits, Saving, N!Enrolled, N!Whole
<1>5. Admitted' BY <1>3 DEF Admitted, Known, N!Enrolled
<1> QED BY <1>1, <1>2, <1>4, <1>5

LEMMA CmdEnrollInv == ASSUME EnrollInv, NEW h \in Hosts, NEW t \in Rows, N!CmdEnroll(h, t) PROVE EnrollInv'
<1>1. PICK id \in {enrolls + 1, disk[h].json} \ {N!NoAgent} :
        enroll' = [enroll EXCEPT ![h] = [pc |-> "find", row |-> t, id |-> id]]
  BY DEF N!CmdEnroll
<1>2. id \in Agents BY DEF EnrollInv, EnrollTyped, Agents
<1> DEFINE c == [pc |-> "find", row |-> t, id |-> id]
<1>3. c \in EnrollCommands /\ c.pc = "find" BY <1>2 DEF EnrollCommands
<1>4. enrolls' \in Nat BY DEF EnrollInv, EnrollTyped, N!CmdEnroll
<1> HIDE DEF c
<1> QED BY <1>1, <1>3, <1>4, OnlyEnroll DEF N!CmdEnroll, c

\* What a command is, by where it is.
LEMMA ByPlace ==
    ASSUME NEW c \in EnrollCommands
    PROVE  \/ c = N!AtRest /\ c.pc = "idle"
           \/ c \in [pc : {"find"}, row : Rows, id : Agents]
           \/ c \in [pc : {"update", "answer"}, row : Rows, id : Agents, first : {TRUE}]
           \/ c \in [pc : {"save"}, id : Agents, todo : Todos]
<1>1. c = N!AtRest => c.pc = "idle" BY DEF N!AtRest
<1> QED BY <1>1 DEF EnrollCommands

\* What a command is that is neither at rest nor saving.
LEMMA Registering ==
    ASSUME EnrollInv, NEW h \in Hosts, enroll[h].pc \in {"find", "update", "answer"}
    PROVE  /\ enroll[h].row \in Rows /\ enroll[h].id \in Agents
           /\ enroll[h].pc # "find" => enroll[h] \in
                [pc : {"update", "answer"}, row : Rows, id : Agents, first : {TRUE}]
<1>1. enroll[h] \in EnrollCommands BY DEF EnrollInv, EnrollTyped
<1> QED BY <1>1, ByPlace

LEMMA FindInv == ASSUME EnrollInv, NEW h \in Hosts, N!FindByEnrollToken(h) PROVE EnrollInv'
<1> DEFINE e == enroll[h]
           n == node[e.row]
           c == IF n.token /\ n.state = "pending" /\ ~n.expired
                THEN [pc |-> "update", row |-> e.row, id |-> e.id, first |-> n.agent = N!NoAgent]
                ELSE N!AtRest
<1>1. e.row \in Rows /\ e.id \in Agents BY Registering DEF N!FindByEnrollToken
<1>2. enroll' = [enroll EXCEPT ![h] = c] BY DEF N!FindByEnrollToken, EnrollInv, EnrollTyped
<1>3. n.state = "pending" => (n.agent = N!NoAgent) = TRUE BY <1>1 DEF EnrollInv, Unspent
<1>4. c \in EnrollCommands /\ c.pc \in {"update", "idle"}
  <2>1. CASE n.token /\ n.state = "pending" /\ ~n.expired
    <3>1. c = [pc |-> "update", row |-> e.row, id |-> e.id, first |-> TRUE] BY <2>1, <1>3
    <3> HIDE DEF c
    <3>2. c \in [pc : {"update", "answer"}, row : Rows, id : Agents, first : {TRUE}] /\ c.pc = "update"
      BY <3>1, <1>1
    <3> QED BY <3>1, <3>2 DEF EnrollCommands
  <2>2. CASE ~(n.token /\ n.state = "pending" /\ ~n.expired) BY <2>2 DEF EnrollCommands, N!AtRest
  <2> QED BY <2>1, <2>2
<1>5. UNCHANGED <<node, disk, halfway, lost, enrolls>> BY DEF N!FindByEnrollToken
<1>6. enrolls' \in Nat BY <1>5 DEF EnrollInv, EnrollTyped
<1> HIDE DEF c
<1> QED BY <1>2, <1>4, <1>5, <1>6, OnlyEnroll

\* The registration: the row gets the agent, was removed, or the identity is
\* another row's.
LEMMA RegisterInv == ASSUME EnrollInv, NEW h \in Hosts, N!Register(h) PROVE EnrollInv'
<1> DEFINE t == enroll[h].row
           id == enroll[h].id
           c == [enroll[h] EXCEPT !.pc = "answer"]
<1>1. /\ enroll[h] \in [pc : {"update", "answer"}, row : Rows, id : Agents, first : {TRUE}]
      /\ t \in Rows /\ id \in Agents
  BY Registering DEF N!Register
<1>2. c \in EnrollCommands /\ c.pc = "answer" /\ c.id = id BY <1>1 DEF EnrollCommands
<1>3. CASE enroll' = [enroll EXCEPT ![h] = N!AtRest] /\ UNCHANGED <<node, lost>>
  <2>1. N!AtRest \in EnrollCommands /\ N!AtRest.pc = "idle" BY DEF EnrollCommands, N!AtRest
  <2>2. enrolls' \in Nat BY DEF EnrollInv, EnrollTyped, N!Register
  <2> QED BY <1>3, <2>1, <2>2, OnlyEnroll DEF N!Register
<1>4. CASE /\ enroll' = [enroll EXCEPT ![h].pc = "answer"]
           /\ IF node[t].state = "removed" THEN lost' = lost \cup {id} /\ node' = node
              ELSE /\ node' = [node EXCEPT ![t] = N!Spent(@, id)]
                   /\ lost' = lost \cup ({node[t].agent} \ {id, N!NoAgent})
  <2>1. enroll' = [enroll EXCEPT ![h] = c] BY <1>4
  <2> HIDE DEF c
  <2>2. enroll'[h] = c /\ \A g \in Hosts \ {h} : enroll'[g] = enroll[g] BY <2>1 DEF EnrollInv, EnrollTyped
  <2>3. UNCHANGED <<disk, enrolls, halfway>> BY DEF N!Register
  <2>4. node' = node \/ node' = [node EXCEPT ![t] = N!Spent(@, id)] BY <1>4
  <2>5. N!Spent(node[t], id) \in RowType BY <1>1 DEF N!Spent, Agents, RowType
  <2>6. EnrollTyped' BY <1>2, <2>1, <2>3, <2>4, <2>5 DEF EnrollInv, EnrollTyped
  <2>7. Unspent' BY <1>1, <2>4 DEF EnrollInv, EnrollTyped, Unspent, N!Spent
  <2>8. Fitting'
    <3>1. ~Saving(h, <<"key", "json">>)' /\ ~Saving(h, <<"json">>)' BY <1>2, <2>2 DEF Saving
    <3> QED BY <2>2, <2>3, <3>1 DEF EnrollInv, Fitting, Fits, Saving, N!Enrolled, N!Whole
  <2>9. ASSUME NEW a \in Agents, Known(a) \/ a = id PROVE Known(a)'
    <3>1. CASE node[t].state = "removed"
      <4>1. lost' = lost \cup {id} /\ node' = node BY <3>1, <1>4
      <4> QED BY <2>9, <4>1 DEF Known
    <3>2. CASE node[t].state # "removed"
      <4>1. node' = [node EXCEPT ![t] = N!Spent(@, id)] BY <1>4, <3>2
      <4>2. node'[t].agent = id /\ \A u \in Rows \ {t} : node'[u].agent = node[u].agent
        BY <4>1, <1>1 DEF EnrollInv, EnrollTyped, N!Spent
      <4>3. lost' = lost \cup ({node[t].agent} \ {id, N!NoAgent}) BY <1>4, <3>2
      <4> QED BY <2>9, <4>2, <4>3, <1>1 DEF Known, Agents
    <3> QED BY <3>1, <3>2
  <2>10. Admitted'
    <3>1. \A g \in Hosts : N!Enrolled(g) => disk[g].json \in Agents BY DEF EnrollInv, EnrollTyped, N!Enrolled, Agents
    <3>2. \A g \in Hosts : enroll[g].pc \in {"answer", "save"} => enroll[g].id \in Agents
      <4>1. \A g \in Hosts : enroll[g] \in EnrollCommands BY DEF EnrollInv, EnrollTyped
      <4> QED BY <4>1, ByPlace
    <3> QED BY <1>1, <1>2, <2>2, <2>3, <2>9, <3>1, <3>2 DEF EnrollInv, Admitted, N!Enrolled
  <2> QED BY <2>6, <2>7, <2>8, <2>10 DEF EnrollInv
<1>5. enroll[h].first BY <1>1
<1> QED BY <1>3, <1>4, <1>5 DEF N!Register

LEMMA AnswerInv == ASSUME EnrollInv, NEW h \in Hosts, N!Answer(h) PROVE EnrollInv'
<1> DEFINE c == [pc |-> "save", id |-> enroll[h].id, todo |-> N!Files]
<1>1. enroll[h].id \in Agents /\ Known(enroll[h].id) BY Registering DEF N!Answer, EnrollInv, Admitted
<1>2. enroll' = [enroll EXCEPT ![h] = c] BY DEF N!Answer, EnrollInv, EnrollTyped
<1>3. c \in EnrollCommands /\ c.todo = N!Files /\ Known(c.id) BY <1>1 DEF EnrollCommands, Todos
<1>4. enrolls' \in Nat /\ UNCHANGED <<node, disk, halfway, lost>> BY DEF EnrollInv, EnrollTyped, N!Answer
<1> HIDE DEF c
<1> QED BY <1>2, <1>3, <1>4, OnlyEnroll

LEMMA CutShortInv == ASSUME EnrollInv, NEW h \in Hosts, N!CutShort(h) PROVE EnrollInv'
<1>1. N!AtRest \in EnrollCommands /\ N!AtRest.pc = "idle" BY DEF EnrollCommands, N!AtRest
<1>2. enrolls' \in Nat /\ UNCHANGED <<node, disk, halfway, lost>> BY DEF EnrollInv, EnrollTyped, N!CutShort
<1> QED BY <1>1, <1>2, OnlyEnroll DEF N!CutShort

\* The three files, one after the other.
LEMMA SaveInv == ASSUME EnrollInv, NEW h \in Hosts, N!SaveEnrollment(h) PROVE EnrollInv'
<1> DEFINE id == enroll[h].id
<1>1. enroll[h] \in [pc : {"save"}, id : Agents, todo : Todos] 
  <2>1. enroll[h] \in EnrollCommands BY DEF EnrollInv, EnrollTyped
  <2> QED BY <2>1, ByPlace DEF N!SaveEnrollment
<1>2. UNCHANGED <<node, enrolls, lost>> BY DEF N!SaveEnrollment
<1>3. id \in Agents /\ Known(id) BY <1>1 DEF EnrollInv, Admitted, N!SaveEnrollment
<1>4. /\ disk' \in [Hosts -> [cert : Nat, key : Nat, json : Nat]]
      /\ enroll' \in [Hosts -> EnrollCommands]
      /\ \A g \in Hosts \ {h} : disk'[g] = disk[g] /\ enroll'[g] = enroll[g]
                                /\ ((g \in halfway') <=> (g \in halfway))
      /\ enroll'[h].pc = "idle" \/ (enroll'[h].pc = "save" /\ enroll'[h].id = id)
      /\ N!Enrolled(h)' => N!Enrolled(h) \/ disk'[h].json = id
      /\ disk'[h].json \in {disk[h].json, id}
      /\ Fits(h)'
  <2>1. CASE enroll[h].todo = N!Files
    <3>0. Head(enroll[h].todo) = "cert" BY <2>1 DEF N!Files
    <3>1. disk' = [disk EXCEPT ![h].cert = id] BY <3>0 DEF N!SaveEnrollment
    <3>2. enroll' = [enroll EXCEPT ![h].todo = <<"key", "json">>] BY <2>1 DEF N!SaveEnrollment, N!Files
    <3>3. halfway' = IF disk[h].json # N!NoAgent THEN halfway \cup {h} ELSE halfway
      BY <2>1 DEF N!SaveEnrollment, N!Files
    <3>4. enroll'[h] = [pc |-> "save", id |-> id, todo |-> <<"key", "json">>] BY <1>1, <3>2 DEF EnrollInv, EnrollTyped
    <3>5. disk'[h] = [disk[h] EXCEPT !.cert = id] BY <3>1 DEF EnrollInv, EnrollTyped
    <3>6. enroll'[h] \in EnrollCommands
      <4>1. enroll'[h].todo \in Todos BY <3>4 DEF Todos
      <4>2. enroll'[h] \in [pc : {"save"}, id : Agents, todo : Todos] BY <3>4, <4>1, <1>3
      <4> QED BY <4>2 DEF EnrollCommands
    <3> QED BY <3>1, <3>2, <3>3, <3>4, <3>5, <3>6, <1>3
        DEF EnrollInv, EnrollTyped, Agents, Fits, Saving, N!Enrolled, N!Whole, N!Files
  <2>2. CASE enroll[h].todo = <<"key", "json">>
    <3>0. Head(enroll[h].todo) = "key" BY <2>2
    <3>1. disk' = [disk EXCEPT ![h].key = id] BY <3>0 DEF N!SaveEnrollment
    <3>2. enroll' = [enroll EXCEPT ![h].todo = <<"json">>] BY <2>2 DEF N!SaveEnrollment
    <3>3. halfway' = halfway BY <2>2 DEF N!SaveEnrollment, N!Files
    <3>4. enroll'[h] = [pc |-> "save", id |-> id, todo |-> <<"json">>] BY <1>1, <3>2 DEF EnrollInv, EnrollTyped
    <3>5. disk'[h] = [disk[h] EXCEPT !.key = id] BY <3>1 DEF EnrollInv, EnrollTyped
    <3>6. enroll'[h] \in EnrollCommands
      <4>1. enroll'[h].todo \in Todos BY <3>4 DEF Todos
      <4>2. enroll'[h] \in [pc : {"save"}, id : Agents, todo : Todos] BY <3>4, <4>1, <1>3
      <4> QED BY <4>2 DEF EnrollCommands
    <3>7. disk[h].cert = id /\ (N!Enrolled(h) => h \in halfway) BY <2>2, <1>1 DEF EnrollInv, Fitting, Fits, Saving
    <3> QED BY <3>1, <3>2, <3>3, <3>4, <3>5, <3>6, <3>7, <1>3
        DEF EnrollInv, EnrollTyped, Agents, Fits, Saving, N!Enrolled, N!Whole
  <2>3. CASE enroll[h].todo = <<"json">>
    <3>0. Head(enroll[h].todo) = "json" BY <2>3
    <3>1. disk' = [disk EXCEPT ![h].json = id] BY <3>0 DEF N!SaveEnrollment
    <3>2. enroll' = [enroll EXCEPT ![h] = N!AtRest] /\ halfway' = halfway \ {h} BY <2>3 DEF N!SaveEnrollment
    <3>3. enroll'[h] = N!AtRest /\ N!AtRest \in EnrollCommands /\ N!AtRest.pc = "idle" BY <3>2 DEF EnrollInv, EnrollTyped, EnrollCommands, N!AtRest
    <3>4. disk'[h] = [disk[h] EXCEPT !.json = id] BY <3>1 DEF EnrollInv, EnrollTyped
    <3>5. disk[h].cert = id /\ disk[h].key = id BY <2>3, <1>1 DEF EnrollInv, Fitting, Fits, Saving
    <3>6. disk'[h] = [cert |-> id, key |-> id, json |-> id] BY <3>4, <3>5 DEF EnrollInv, EnrollTyped
    <3>7. N!Whole(h)' BY <3>6, <1>3 DEF N!Whole, N!Enrolled, Agents
    <3>8. Fits(h)' BY <3>3, <3>7 DEF Fits, Saving
    <3> QED BY <3>1, <3>2, <3>3, <3>6, <3>8, <1>3 DEF EnrollInv, EnrollTyped, Agents, N!Enrolled
  <2> QED BY <1>1, <2>1, <2>2, <2>3 DEF Todos
<1>5. EnrollTyped' BY <1>2, <1>4 DEF EnrollInv, EnrollTyped
<1>6. Unspent' BY <1>2 DEF EnrollInv, Unspent
<1>7. Fitting' BY <1>4 DEF EnrollInv, Fitting, Fits, Saving, N!Enrolled, N!Whole
<1>8. Admitted' BY <1>2, <1>3, <1>4 DEF EnrollInv, Admitted, Known, N!Enrolled, N!SaveEnrollment
<1> QED BY <1>5, <1>6, <1>7, <1>8 DEF EnrollInv

LEMMA EnrollNextInv == ASSUME EnrollInv, [N!Next]_N!vars PROVE EnrollInv'
<1>1. CASE UNCHANGED N!vars
  BY <1>1 DEF N!vars, EnrollInv, EnrollTyped, Unspent, Fitting, Fits, Saving, N!Enrolled, N!Whole, Admitted, Known
<1>2. CASE \E t \in Rows : \/ N!CreateEnrollToken(t) \/ N!Expire(t) \/ N!Remove(t)
                           \/ \E h \in Hosts : N!CmdEnroll(h, t)
  BY <1>2, RowInv, CmdEnrollInv
<1>3. CASE \E h \in Hosts : \/ N!FindByEnrollToken(h) \/ N!Register(h) \/ N!Answer(h)
                            \/ N!SaveEnrollment(h) \/ N!CutShort(h)
  BY <1>3, FindInv, RegisterInv, AnswerInv, SaveInv, CutShortInv
<1> QED BY <1>1, <1>2, <1>3 DEF N!Next

-----------------------------------------------------------------------------
(* Theorems.                                                               *)

\* A rollback of either firewall that has ended with no apply under way leaves
\* nothing that filters, until an apply is accepted: it takes both chains from
\* INPUT before it opens the default, and nothing but an apply puts one back; but
\* for a chain that INPUT had two jumps to, and a rollback a command of which failed
\* (firewallRollback).
THEOREM RollbackIsTheWayOut == F!Spec => []RollbackOpens
<1>1. F!Init => FirewallInv BY FirewallInitInv
<1>2. FirewallInv /\ [F!Next]_F!vars => FirewallInv' BY FirewallNextInv
<1>3. FirewallInv => RollbackOpens BY DEF FirewallInv, RollbackOpens
<1> QED BY <1>1, <1>2, <1>3, PTL DEF F!Spec

\* What is sent to the node is what an operator saw under that version: a write
\* gives its row a new time, so the rows of a version are the same rows, and the
\* rest of the preview is computed from them (versionOf, Service.Apply).
THEOREM AppliedWasSeen == G!Spec => []SeenBeforeShipped
<1>1. G!Init => GroupsInv BY GroupsInitInv
<1>2. GroupsInv /\ [G!Next]_G!vars => GroupsInv' BY GroupsNextInv
<1>3. GroupsInv => SeenBeforeShipped BY DEF GroupsInv, SeenBeforeShipped
<1> QED BY <1>1, <1>2, <1>3, PTL DEF G!Spec

\* An address that is shown as free has no rule and no route on the node, though
\* reloads and repairs bind again what they read, and the node and the transaction
\* act one after the other: unless an answer was lost, a command failed unnoticed, a
\* reload or a repair met a change of the address or came after it, or a row was
\* removed that was being bound
\* (publicIPChange, bindTx, unbindTx, Delete).
THEOREM FreeAddressIsClear == P!Spec => []FreeLeadsNowhere
<1>1. P!Init => AddressInv BY AddressInitInv
<1>2. AddressInv /\ [P!Next]_P!vars => AddressInv' BY AddressNextInv
<1>3. AddressInv => FreeLeadsNowhere
  <2> SUFFICES ASSUME AddressInv, P!Quiet, pooled # P!NoRow, ~bound PROVE Clean
    BY DEF FreeLeadsNowhere, P!FreeLeadsNowhere, Clean
  <2>1. pooled \in P!Queues /\ binding = P!NoBinding BY DEF AddressInv, AddressTyped, StatusFits
  <2>2. ~Awaits({"bind", "migrate"}) BY <2>1 DEF P!Quiet, P!Dispatched, Awaits
  <2> QED BY <2>1, <2>2 DEF AddressInv, RulesFit, P!Quiet
<1> QED BY <1>1, <1>2, <1>3, PTL DEF P!Spec

\* Whenever the host stops, a state directory with an agent.json has that agent's
\* certificate and key as well (SaveEnrollment writes it last), unless an older
\* enrolment was being written over.
THEOREM DirectoryStartsWhole == N!Spec => []StartsWhole
<1>1. N!Init => EnrollInv BY EnrollInitInv
<1>2. EnrollInv /\ [N!Next]_N!vars => EnrollInv' BY EnrollNextInv
<1>3. EnrollInv => StartsWhole BY DEF EnrollInv, Fitting, Fits, StartsWhole, N!StartsWhole
<1> QED BY <1>1, <1>2, <1>3, PTL DEF N!Spec

\* An agent that can start has its row in the control plane, unless registrations
\* with one token overlapped or the row was removed meanwhile: the answer is
\* given after the row is written, and the token is spent with it (Register).
THEOREM TokenAdmitsOnce == N!Spec => []AdmittedOnce
<1>1. N!Init => EnrollInv BY EnrollInitInv
<1>2. EnrollInv /\ [N!Next]_N!vars => EnrollInv' BY EnrollNextInv
<1>3. EnrollInv => AdmittedOnce BY DEF EnrollInv, Admitted, Known, AdmittedOnce, N!AdmittedOnce, N!Whole
<1> QED BY <1>1, <1>2, <1>3, PTL DEF N!Spec
=============================================================================
