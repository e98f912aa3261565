------------------------- MODULE TaskEnqueueProofs -------------------------
(***************************************************************************)
(* Theorems of TaskEnqueue, and of the modules whose instances MCTaskEn-   *)
(* queue holds: M, Migration; S, Snapshots; U, Uploads. Each is about the  *)
(* specification of its module, for all values of the constants. Of the    *)
(* enqueuing, for any number of requests with one idempotency key: at most *)
(* one task of the intent is in flight, and no request is answered with a  *)
(* task that was settled before it arrived.                                *)
(***************************************************************************)
EXTENDS MCTaskEnqueue, TLAPS, SequenceTheorems, FiniteSetTheorems

\* The unique index: one row has the key.
OneKey == \A t, u \in keyed : t = u

\* A task in flight never loses its key, only an existing row has it.
KeyedRows ==
    /\ InFlight \subseteq keyed
    /\ \A t \in keyed : row[t] \in {"active", "terminal"}

Settled(t) == row[t] \in {"terminal", "deleted"}

\* What was terminal when a request read it stays so, until it clears the key.
ReadSettled ==
    /\ \A r \in Requests : req[r] = "clear" => found[r] \in TaskIds /\ Settled(found[r])
    /\ \A r \in Requests : \A t \in settled[r] : Settled(t)

\* Between the two insertions of a request the key can only belong to the task
\* that the request found, or to a younger one.
KeyYounger ==
    /\ \A r \in Requests : req[r] = "clear" => \A t \in keyed \cap settled[r] : t = found[r]
    /\ \A r \in Requests : req[r] \in {"reinsert", "winner"} => keyed \cap settled[r] = {}

Unanswered == \A r \in Requests : req[r] # "done" => answer[r] = NoTask

IInv ==
    /\ TypeOK /\ OneKey /\ KeyedRows /\ ReadSettled /\ KeyYounger /\ Unanswered
    /\ FreshAnswer

LEMMA InitIInv == Init => IInv
<1> SUFFICES ASSUME Init PROVE IInv
    OBVIOUS
<1> QED
    BY DEF Init, IInv, TypeOK, OneKey, KeyedRows, InFlight, ReadSettled, Settled, KeyYounger,
           Unanswered, FreshAnswer, NoTask

\* A new row under a free key, for both insertions.
LEMMA InsertIInv ==
    ASSUME IInv, NEW r \in Requests,
           \/ req[r] = "insert" /\ InsertRow(r, "find")
           \/ req[r] = "reinsert" /\ InsertRow(r, "winner")
    PROVE  IInv'
<1>1. CASE Free
    <2>1. PICK t \in TaskIds :
              /\ row[t] = "absent"
              /\ row' = [row EXCEPT ![t] = "active"] /\ keyed' = keyed \cup {t}
              /\ Return(r, t)
        BY <1>1 DEF InsertRow
    <2>2. keyed = {} /\ keyed' = {t} /\ UNCHANGED <<found, settled>>
        BY <1>1, <2>1 DEF Free, InsertRow
    <2>3. /\ answer' = [answer EXCEPT ![r] = t] /\ req' = [req EXCEPT ![r] = "done"]
        BY <2>1 DEF Return, Goto
    <2>4. \A q \in Requests : t \notin settled[q]
        BY <2>1 DEF IInv, ReadSettled, Settled
    <2>5. TypeOK'
        BY <2>1, <2>2, <2>3 DEF IInv, TypeOK
    <2>6. OneKey' /\ KeyedRows'
        BY <2>1, <2>2 DEF IInv, TypeOK, OneKey, KeyedRows, InFlight
    <2>7. ReadSettled'
        BY <2>1, <2>2, <2>3 DEF IInv, TypeOK, ReadSettled, Settled
    <2>8. KeyYounger' /\ Unanswered' /\ FreshAnswer'
        BY <2>1, <2>2, <2>3, <2>4 DEF IInv, TypeOK, KeyYounger, Unanswered, FreshAnswer
    <2> QED
        BY <2>5, <2>6, <2>7, <2>8 DEF IInv
<1>2. CASE ~Free
    <2>1. /\ UNCHANGED <<row, keyed, answer, found, settled>>
          /\ req' \in {[req EXCEPT ![r] = "find"], [req EXCEPT ![r] = "winner"]}
          /\ req'[r] = "winner" => req[r] = "reinsert"
        BY <1>2 DEF InsertRow, Goto, IInv, TypeOK
    <2> QED
        BY <2>1 DEF IInv, TypeOK, OneKey, KeyedRows, InFlight, ReadSettled, Settled, KeyYounger,
                    Unanswered, FreshAnswer
<1> QED
    BY <1>1, <1>2

LEMMA FindIInv == ASSUME IInv, NEW r \in Requests, Find(r) PROVE IInv'
<1>0. UNCHANGED <<row, keyed, settled>> /\ req[r] = "find"
    BY DEF Find
<1>1. CASE keyed = {}
    <2>1. UNCHANGED <<found, answer>> /\ req' = [req EXCEPT ![r] = "failed"]
        BY <1>1 DEF Find, Goto
    <2> QED
        BY <1>0, <2>1 DEF IInv, TypeOK, OneKey, KeyedRows, InFlight, ReadSettled, Settled,
                          KeyYounger, Unanswered, FreshAnswer
<1>2. ASSUME NEW t \in keyed, IsTerminal(t), Goto(r, "clear"),
             found' = [found EXCEPT ![r] = t], UNCHANGED answer
      PROVE  IInv'
    <2>1. t \in TaskIds /\ row[t] = "terminal" /\ req' = [req EXCEPT ![r] = "clear"]
        BY <1>2 DEF IsTerminal, Terminal, Goto
    <2> QED
        BY <1>0, <1>2, <2>1 DEF IInv, TypeOK, OneKey, KeyedRows, InFlight, ReadSettled, Settled,
                                KeyYounger, Unanswered, FreshAnswer
<1>3. ASSUME NEW t \in keyed, ~IsTerminal(t), Return(r, t), UNCHANGED found
      PROVE  IInv'
    <2>1. t \in TaskIds /\ row[t] = "active"
        BY <1>3 DEF IsTerminal, Terminal, IInv, KeyedRows, TypeOK
    <2>2. t \notin settled[r]
        BY <2>1 DEF IInv, ReadSettled, Settled
    <2>3. answer' = [answer EXCEPT ![r] = t] /\ req' = [req EXCEPT ![r] = "done"]
        BY <1>3 DEF Return, Goto
    <2> QED
        BY <1>0, <1>3, <2>1, <2>2, <2>3
        DEF IInv, TypeOK, OneKey, KeyedRows, InFlight, ReadSettled, Settled, KeyYounger,
            Unanswered, FreshAnswer
<1> QED
    BY <1>1, <1>2, <1>3 DEF Find

LEMMA ClearIInv == ASSUME IInv, NEW r \in Requests, Clear(r) PROVE IInv'
<1>1. /\ req[r] = "clear" /\ req' = [req EXCEPT ![r] = "reinsert"]
      /\ keyed' = keyed \ {found[r]} /\ UNCHANGED <<row, found, answer, settled>>
    BY DEF Clear, Goto
<1>2. row[found[r]] # "active"
    BY <1>1 DEF IInv, ReadSettled, Settled
<1> QED
    BY <1>1, <1>2 DEF IInv, TypeOK, OneKey, KeyedRows, InFlight, ReadSettled, Settled, KeyYounger,
                      Unanswered, FreshAnswer

LEMMA WinnerIInv == ASSUME IInv, NEW r \in Requests, Winner(r) PROVE IInv'
<1>0. req[r] = "winner" /\ UNCHANGED <<row, keyed, found, settled>>
    BY DEF Winner
<1>1. ASSUME NEW t \in keyed, Return(r, t) PROVE IInv'
    <2>1. t \in TaskIds /\ t \notin settled[r]
        BY <1>0 DEF IInv, TypeOK, KeyYounger
    <2>2. answer' = [answer EXCEPT ![r] = t] /\ req' = [req EXCEPT ![r] = "done"]
        BY <1>1 DEF Return, Goto
    <2> QED
        BY <1>0, <2>1, <2>2 DEF IInv, TypeOK, OneKey, KeyedRows, InFlight, ReadSettled, Settled,
                                KeyYounger, Unanswered, FreshAnswer
<1>2. ASSUME Goto(r, "failed"), UNCHANGED answer PROVE IInv'
    BY <1>0, <1>2 DEF Goto, IInv, TypeOK, OneKey, KeyedRows, InFlight, ReadSettled, Settled,
                      KeyYounger, Unanswered, FreshAnswer
<1> QED
    BY <1>1, <1>2 DEF Winner

LEMMA ArriveIInv == ASSUME IInv, NEW r \in Requests, Arrive(r) PROVE IInv'
<1>1. /\ req[r] = "new" /\ req' = [req EXCEPT ![r] = "insert"]
      /\ UNCHANGED <<row, keyed, found, answer>>
      /\ settled' = [settled EXCEPT ![r] = {t \in TaskIds : Settled(t)}]
    BY DEF Arrive, Goto, Settled
<1>2. NoTask \notin TaskIds
    BY EnqueueAssumption DEF NoTask
<1>3. FreshAnswer'
    BY <1>1, <1>2 DEF IInv, TypeOK, Unanswered, FreshAnswer
<1>4. TypeOK'
    BY <1>1 DEF IInv, TypeOK
<1>5. ReadSettled'
    BY <1>1 DEF IInv, TypeOK, ReadSettled, Settled
<1> QED
    BY <1>1, <1>3, <1>4, <1>5 DEF IInv, TypeOK, OneKey, KeyedRows, InFlight, KeyYounger, Unanswered

\* What the queue does to a row, and the end of the process.
LEMMA OthersIInv ==
    ASSUME IInv, (\E t \in TaskIds : Settle(t) \/ Delete(t)) \/ Crash
    PROVE  IInv'
<1>1. ASSUME NEW t \in TaskIds, Settle(t) PROVE IInv'
    BY <1>1 DEF Settle, Verdict, IInv, TypeOK, OneKey, KeyedRows, InFlight, ReadSettled, Settled,
                KeyYounger, Unanswered, FreshAnswer
<1>2. ASSUME NEW t \in TaskIds, Delete(t) PROVE IInv'
    BY <1>2 DEF Delete, IInv, TypeOK, OneKey, KeyedRows, InFlight, ReadSettled, Settled,
                KeyYounger, Unanswered, FreshAnswer
<1>3. CASE Crash
    BY <1>3 DEF Crash, IInv, TypeOK, OneKey, KeyedRows, InFlight, ReadSettled, Settled,
                KeyYounger, Unanswered, FreshAnswer
<1> QED
    BY <1>1, <1>2, <1>3

LEMMA NextIInv == IInv /\ [Next]_vars => IInv'
<1> SUFFICES ASSUME IInv, [Next]_vars PROVE IInv'
    OBVIOUS
<1>1. ASSUME NEW r \in Requests, Call(r) PROVE IInv'
    BY <1>1, ArriveIInv, InsertIInv, FindIInv, ClearIInv, WinnerIInv DEF Call, Insert, Reinsert
<1>2. CASE UNCHANGED vars
    BY <1>2 DEF vars, IInv, TypeOK, OneKey, KeyedRows, InFlight, ReadSettled, Settled, KeyYounger,
                Unanswered, FreshAnswer
<1> QED
    BY <1>1, <1>2, OthersIInv DEF Next

THEOREM Inductive == Spec => []IInv
BY InitIInv, NextIInv, PTL DEF Spec

\* However many requests retry one intent, however their round trips mix with
\* each other, with the end of tasks, with Cleanup and with crashes, two tasks of
\* the intent are never in flight (queue.go, Enqueue).
THEOREM IntentOnce == Spec => []OneInFlight
<1>1. IInv => OneInFlight
    BY DEF IInv, OneKey, KeyedRows, OneInFlight
<1> QED
    BY <1>1, Inductive, PTL

\* No request is answered with a task that had ended before it arrived.
THEOREM AnswersFresh == Spec => []FreshAnswer
<1>1. IInv => FreshAnswer
    BY DEF IInv
<1> QED
    BY <1>1, Inductive, PTL

-----------------------------------------------------------------------------
\* The operator of FiniteSets, as the instances have it.
LEMMA SameCardinality ==
    ASSUME NEW X
    PROVE  /\ M!Cardinality(X) = Cardinality(X) /\ S!Cardinality(X) = Cardinality(X)
           /\ T!Cardinality(X) = Cardinality(X)
<1>1. M!Cardinality(X) = Cardinality(X) BY DEF M!Cardinality, Cardinality
<1>2. S!Cardinality(X) = Cardinality(X) BY DEF S!Cardinality, Cardinality
<1>3. T!Cardinality(X) = Cardinality(X) BY DEF T!Cardinality, Cardinality
<1> QED BY <1>1, <1>2, <1>3

-----------------------------------------------------------------------------
(* Migration: the invariant.                                               *)

Domains == {"none", "off", "on"}
MoveSteps == {"start", "source", "takeover", "commit", "cleanup"}
PowerTask == [step : {"poweron", "poweroff"}, from : Nodes]
MoveTask == {t \in [step : MoveSteps, from : Nodes, to : Nodes, mode : {"none", "warm", "offline"},
                    move : Nat, memory : BOOLEAN] : t.from # t.to}
MachineTask == PowerTask \cup MoveTask
Mover == {q \in [pc : {"probe", "active", "running", "insert", "enqueue"}, from : Nodes, to : Nodes,
                 mode : {"none", "warm", "offline"}, move : Nat] : q.from # q.to}

MovesTyped ==
    /\ node \in Nodes /\ domain \in [Nodes -> Domains]
    /\ moving \in Seq(MachineTask) /\ mover \in [Callers -> {M!Idle} \cup Mover]

MovesWait == \A i \in DOMAIN moving : i > 1 => moving[i].step \in {"start", "poweron", "poweroff"}

\* The first task: the row names its source until it is committed; the source is
\* stopped before the target begins, and the target complete before the commit.
UnderWay ==
    moving # <<>> =>
        /\ M!Now.step \in {"source", "takeover", "commit"} => M!Now.from = node
        /\ M!Now.step \in {"takeover", "commit"} => domain[node] # "on"
        /\ M!Now.step = "commit" => domain[M!Now.to] # "none" /\ M!Now.to \in disk
        /\ M!Now.step = "cleanup" => M!Now.from # node

FoundThere == domain[node] # "none" /\ node \in disk
Taken(n) == moving # <<>> /\ M!Now.step = "commit" /\ n = M!Now.to
OnlyHere == unknown \/ \A n \in Nodes : domain[n] = "on" => n = node \/ Taken(n)

Proper == MovesTyped /\ MovesWait /\ UnderWay /\ FoundThere /\ OnlyHere

\* After an operation that outlived its task, or a task that ran astray, nothing is
\* claimed any more.
Excused == outlived \/ astray
MovesInv == Excused \/ Proper

LEMMA MovesInitInv == ASSUME M!Init PROVE MovesInv
<1>1. Home \in Nodes BY PartAssumptions DEF M!MigrationAssumption
<1>2. MovesTyped BY <1>1 DEF M!Init, MovesTyped, Domains
<1>3. moving = <<>> BY DEF M!Init
<1>4. MovesWait /\ UnderWay BY <1>3 DEF MovesWait, UnderWay
<1>5. FoundThere BY <1>1 DEF M!Init, FoundThere
<1>6. OnlyHere BY <1>1 DEF M!Init, OnlyHere
<1> QED BY <1>2, <1>4, <1>5, <1>6 DEF MovesInv, Proper

LEMMA MovesInvMeans == ASSUME MovesInv PROVE M!RowFindsMachine /\ M!RunsOnce
<1>1. M!RowFindsMachine BY DEF MovesInv, Excused, Proper, FoundThere, M!RowFindsMachine
<1>2. M!RunsOnce
  <2> SUFFICES ASSUME ~outlived, ~astray, ~unknown PROVE Cardinality({n \in Nodes : domain[n] = "on"}) <= 1 BY SameCardinality DEF M!RunsOnce
  <2> DEFINE Ground == {n \in Nodes : domain[n] = "on"}
  <2>1. Proper BY DEF MovesInv, Excused
  <2>2. \E x : Ground \subseteq {x}
    <3>1. CASE moving # <<>> /\ M!Now.step = "commit"
      <4>1. Ground \subseteq {M!Now.to} BY <2>1, <3>1 DEF Proper, OnlyHere, UnderWay, Taken
      <4> QED BY <4>1
    <3>2. CASE ~(moving # <<>> /\ M!Now.step = "commit")
      <4>1. Ground \subseteq {node} BY <2>1, <3>2 DEF Proper, OnlyHere, Taken
      <4> QED BY <4>1
    <3> QED BY <3>1, <3>2
  <2> HIDE DEF Ground
  <2>3. PICK x : Ground \subseteq {x} BY <2>2
  <2>4. IsFiniteSet({x}) /\ Cardinality({x}) = 1 BY FS_Singleton
  <2>5. Cardinality(Ground) <= Cardinality({x}) BY <2>3, <2>4, FS_Subset
  <2> QED BY <2>4, <2>5 DEF Ground
<1> QED BY <1>1, <1>2

-----------------------------------------------------------------------------
(* Migration: the queue of the machine.                                    *)

LEMMA MachineTasks ==
    ASSUME Proper, moving # <<>>
    PROVE  /\ moving \in Seq(MachineTask) /\ 1 \in DOMAIN moving /\ M!Now \in MachineTask /\ M!Now.from \in Nodes
           /\ M!Now.step \in MoveSteps => M!Now \in MoveTask /\ M!Now.to \in Nodes /\ M!Now.from # M!Now.to
<1>1. moving \in Seq(MachineTask) BY DEF Proper, MovesTyped
<1>2. 1 \in DOMAIN moving /\ M!Now \in MachineTask BY <1>1 DEF M!Now
<1>3. M!Now.from \in Nodes BY <1>2 DEF MachineTask, PowerTask, MoveTask
<1>4. M!Now.step \in MoveSteps => M!Now \in MoveTask BY <1>2 DEF MachineTask, PowerTask, MoveSteps
<1>5. M!Now \in MoveTask => M!Now.to \in Nodes /\ M!Now.from # M!Now.to BY DEF MoveTask
<1> QED BY <1>1, <1>2, <1>3, <1>4, <1>5

LEMMA EndedSteps ==
    ASSUME Proper, moving # <<>>, M!Ended
    PROVE  /\ moving' \in Seq(MachineTask) /\ MovesWait' /\ UnderWay'
           /\ \A n : ~Taken(n)'
<1>1. moving \in Seq(MachineTask) /\ moving' = Tail(moving) BY DEF Proper, MovesTyped, M!Ended
<1>2. moving' \in Seq(MachineTask) /\ \A i \in DOMAIN moving' : i + 1 \in DOMAIN moving /\ i + 1 > 1 /\ moving'[i] = moving[i + 1]
  BY <1>1
<1>3. \A i \in DOMAIN moving' : moving'[i].step \in {"start", "poweron", "poweroff"} BY <1>2 DEF Proper, MovesWait
<1>4. MovesWait' BY <1>3 DEF MovesWait
<1>5. moving' # <<>> => 1 \in DOMAIN moving' BY <1>2
<1>6. moving' # <<>> => M!Now'.step \in {"start", "poweron", "poweroff"} BY <1>3, <1>5 DEF M!Now
<1>7. UnderWay' BY <1>6 DEF UnderWay
<1> QED BY <1>2, <1>4, <1>6, <1>7 DEF Taken

\* The first task goes on as t.
LEMMA GoesOn ==
    ASSUME Proper, moving # <<>>, NEW t \in MachineTask, moving' = [moving EXCEPT ![1] = t]
    PROVE  moving' \in Seq(MachineTask) /\ moving' # <<>> /\ M!Now' = t /\ MovesWait'
<1>1. moving \in Seq(MachineTask) /\ 1 \in DOMAIN moving BY MachineTasks
<1>2. moving' \in Seq(MachineTask) /\ DOMAIN moving' = DOMAIN moving /\ moving'[1] = t
      /\ \A i \in DOMAIN moving : i # 1 => moving'[i] = moving[i] BY <1>1
<1>3. moving' # <<>> BY <1>1, <1>2
<1>4. MovesWait' BY <1>2 DEF Proper, MovesWait
<1> QED BY <1>2, <1>3, <1>4 DEF M!Now

LEMMA AppendedTask ==
    ASSUME Proper, NEW t \in MachineTask, t.step \in {"start", "poweron", "poweroff"}, moving' = Append(moving, t),
           UNCHANGED <<node, domain, disk, unknown>>
    PROVE  moving' \in Seq(MachineTask) /\ MovesWait' /\ UnderWay' /\ FoundThere' /\ OnlyHere'
<1>1. moving \in Seq(MachineTask) BY DEF Proper, MovesTyped
<1>2. /\ moving' \in Seq(MachineTask) /\ moving' # <<>>
      /\ \A i \in DOMAIN moving' : (i \in DOMAIN moving /\ moving'[i] = moving[i]) \/ moving'[i] = t
      /\ moving # <<>> => moving'[1] = moving[1]
      /\ moving = <<>> => moving'[1] = t
  BY <1>1
<1>3. MovesWait' BY <1>2 DEF Proper, MovesWait
<1>4. UnderWay' BY <1>2 DEF Proper, UnderWay, M!Now
<1>5. \A n : Taken(n) => Taken(n)' BY <1>2 DEF Taken, M!Now
<1>6. FoundThere' /\ OnlyHere' BY <1>5 DEF Proper, FoundThere, OnlyHere
<1> QED BY <1>2, <1>3, <1>4, <1>6

-----------------------------------------------------------------------------
(* Migration: what an operation of the first task does to the machine.     *)

LEMMA OperationSteps ==
    ASSUME Proper, moving # <<>>, NEW reply, M!Operation(M!Now, reply), UNCHANGED node
    PROVE  /\ domain' \in [Nodes -> Domains] /\ FoundThere'
           /\ \A n \in Nodes \ {node} : domain'[n] = "on" =>
                  domain[n] = "on" \/ (M!Now.step = "takeover" /\ n = M!Now.to /\ reply # "error")
           /\ M!Now.step = "source" => domain'[node] # "on"
           /\ M!Now.step = "takeover" =>
                  /\ domain'[node] = domain[node]
                  /\ reply = "ok" => domain'[M!Now.to] # "none" /\ M!Now.to \in disk'
<1>1. /\ M!Now \in MachineTask /\ M!Now.from \in Nodes
      /\ M!Now.step \in MoveSteps => M!Now \in MoveTask /\ M!Now.to \in Nodes /\ M!Now.from # M!Now.to
  BY MachineTasks
<1>2. node \in Nodes /\ domain \in [Nodes -> Domains] /\ domain[node] # "none" /\ node \in disk
  BY DEF Proper, MovesTyped, FoundThere
<1>3. CASE M!Now.step = "source"
  <2>1. M!Now.from = node /\ M!Source(M!Now, reply) BY <1>3 DEF Proper, UnderWay, M!Operation
  <2>2. domain' = [domain EXCEPT ![node] = "off"] /\ disk' = disk BY <1>2, <2>1 DEF M!Source, M!LeftAs
  <2> QED BY <1>2, <1>3, <2>2 DEF Domains, FoundThere
<1>4. CASE M!Now.step = "takeover"
  <2>1. M!Now.from = node /\ M!Takeover(M!Now, reply) /\ M!Now.to \in Nodes /\ M!Now.to # node
    BY <1>1, <1>4 DEF Proper, UnderWay, M!Operation, MoveSteps
  <2> DEFINE placed == M!Now.to \in staged \cup disk
             resumes == M!Now.memory /\ M!Now.to \in memory /\ domain[M!Now.to] # "on"
  <2>2. /\ disk' = IF placed THEN disk \cup {M!Now.to} ELSE disk
        /\ reply = (IF placed /\ (M!Now.memory => resumes) THEN "ok" ELSE "error")
        /\ domain' = IF ~placed \/ domain[M!Now.to] = "on" THEN domain
                     ELSE [domain EXCEPT ![M!Now.to] = IF ~M!Now.memory THEN "off" ELSE IF resumes THEN "on" ELSE "none"]
    BY <2>1 DEF M!Takeover
  <2>3. PICK d \in Domains : domain' = domain \/ domain' = [domain EXCEPT ![M!Now.to] = d] BY <2>2 DEF Domains
  <2>4. domain' \in [Nodes -> Domains] BY <1>2, <2>3
  <2>5. \A n \in Nodes : n # M!Now.to => domain'[n] = domain[n] BY <1>2, <2>3
  <2>6. domain'[node] = domain[node] BY <1>2, <2>1, <2>5
  <2>7. FoundThere' BY <1>2, <2>2, <2>6 DEF FoundThere
  <2>8. CASE reply = "error"
    <3>1. domain'[M!Now.to] = "on" => domain[M!Now.to] = "on"
      <4>1. CASE ~placed \/ domain[M!Now.to] = "on" BY <2>2, <4>1
      <4>2. CASE placed /\ domain[M!Now.to] # "on"
        <5>1. M!Now.memory /\ ~resumes BY <2>2, <2>8, <4>2
        <5>2. domain' = [domain EXCEPT ![M!Now.to] = "none"] BY <2>2, <4>2, <5>1
        <5> QED BY <1>2, <2>1, <5>2
      <4> QED BY <4>1, <4>2
    <3> QED BY <1>4, <2>1, <2>4, <2>5, <2>6, <2>7, <2>8, <3>1
  <2>9. CASE reply # "error"
    <3>1. placed /\ (M!Now.memory => resumes) BY <2>2, <2>9
    <3>2. M!Now.to \in disk' BY <2>2, <3>1
    <3>3. domain'[M!Now.to] # "none"
      <4>1. CASE domain[M!Now.to] = "on" BY <2>2, <4>1
      <4>2. CASE domain[M!Now.to] # "on"
        <5>1. domain' = [domain EXCEPT ![M!Now.to] = IF ~M!Now.memory THEN "off" ELSE "on"] BY <2>2, <3>1, <4>2
        <5> QED BY <1>2, <2>1, <5>1
      <4> QED BY <4>1, <4>2
    <3> QED BY <1>4, <2>1, <2>4, <2>5, <2>6, <2>7, <2>9, <3>2, <3>3
  <2> QED BY <2>8, <2>9
<1>5. CASE M!Now.step = "cleanup"
  <2>1. M!Now.from # node /\ M!Cleanup(M!Now, reply) BY <1>5 DEF Proper, UnderWay, M!Operation
  <2>2. /\ domain' = [domain EXCEPT ![M!Now.from] = IF domain[M!Now.from] = "on" THEN "on" ELSE "none"]
        /\ disk' = disk \ {M!Now.from}
    BY <2>1 DEF M!Cleanup
  <2>3. /\ domain' \in [Nodes -> Domains] /\ domain'[node] = domain[node]
        /\ \A n \in Nodes : domain'[n] = "on" => domain[n] = "on"
    BY <1>1, <1>2, <2>1, <2>2 DEF Domains
  <2> QED BY <1>2, <1>5, <2>1, <2>2, <2>3 DEF FoundThere
<1> QED BY <1>3, <1>4, <1>5 DEF M!Operation

\* Unless the target resumed the machine, it runs only where it did.
LEMMA StillHere ==
    ASSUME Proper, node \in Nodes, UNCHANGED node, unknown => unknown', M!Now.step # "commit" \/ moving = <<>>,
           unknown' \/ \A n \in Nodes \ {node} : domain'[n] = "on" => domain[n] = "on"
    PROVE  OnlyHere'
BY DEF Proper, OnlyHere, Taken

-----------------------------------------------------------------------------
(* Migration: the steps of the executor.                                   *)

LEMMA MarkRunningInv == ASSUME Proper, moving # <<>>, M!MarkRunning PROVE MovesInv'
<1>1. /\ M!Now.step = "start" /\ M!Step("source") /\ astray' = (astray \/ M!Now.from # node)
      /\ UNCHANGED <<node, domain, disk, mover, unknown>>
  BY DEF M!MarkRunning, M!onNodes
<1>2. CASE M!Now.from # node BY <1>1, <1>2 DEF MovesInv, Excused
<1>3. CASE M!Now.from = node
  <2> DEFINE t == [M!Now EXCEPT !.step = "source"]
  <2>1. M!Now \in MoveTask BY <1>1, MachineTasks DEF MoveSteps
  <2>2. t \in MoveTask /\ t.step = "source" /\ t.from = M!Now.from BY <2>1 DEF MoveTask, MoveSteps
  <2>3. moving' = [moving EXCEPT ![1] = t] BY <1>1 DEF M!Step, M!Now
  <2>4. t \in MachineTask BY <2>2 DEF MachineTask
  <2> HIDE DEF t
  <2>5. moving' \in Seq(MachineTask) /\ moving' # <<>> /\ M!Now' = t /\ MovesWait' BY <2>3, <2>4, GoesOn
  <2>6. MovesTyped' BY <1>1, <2>5 DEF Proper, MovesTyped
  <2>7. UnderWay' BY <1>1, <1>3, <2>2, <2>5 DEF UnderWay
  <2>8. FoundThere' BY <1>1 DEF Proper, FoundThere
  <2>9. OnlyHere' BY <1>1, StillHere DEF Proper, MovesTyped
  <2> QED BY <2>5, <2>6, <2>7, <2>8, <2>9 DEF MovesInv, Proper
<1> QED BY <1>2, <1>3

LEMMA AnsweredInv == ASSUME Proper, moving # <<>>, M!Answered PROVE Proper'
<1>1. M!Now.step \in {"source", "takeover", "cleanup"} /\ UNCHANGED <<node, mover, unknown>> BY DEF M!Answered, M!history
<1>2. PICK reply \in {"ok", "error"} :
        /\ M!Operation(M!Now, reply)
        /\ IF M!Follow(M!Now.step) = "end" THEN M!Ended /\ UNCHANGED record
           ELSE IF reply = "error" THEN M!Fail
           ELSE /\ UNCHANGED record
                /\ moving' = [moving EXCEPT ![1].step = M!Follow(@),
                             ![1].memory = IF M!Now.step = "source"
                                           THEN M!Now.mode = "warm" /\ M!Now.from \in memory' ELSE @]
  BY DEF M!Answered
<1>3. /\ domain' \in [Nodes -> Domains] /\ FoundThere'
      /\ \A n \in Nodes \ {node} : domain'[n] = "on" =>
             domain[n] = "on" \/ (M!Now.step = "takeover" /\ n = M!Now.to /\ reply # "error")
      /\ M!Now.step = "source" => domain'[node] # "on"
      /\ M!Now.step = "takeover" =>
             /\ domain'[node] = domain[node]
             /\ reply = "ok" => domain'[M!Now.to] # "none" /\ M!Now.to \in disk'
  BY <1>1, <1>2, OperationSteps
<1>4. node \in Nodes BY DEF Proper, MovesTyped
<1>5. CASE M!Ended /\ (reply = "error" \/ M!Now.step = "cleanup")
  <2>1. moving' \in Seq(MachineTask) /\ MovesWait' /\ UnderWay' BY <1>5, EndedSteps
  <2>2. OnlyHere' BY <1>1, <1>3, <1>4, <1>5, StillHere
  <2>3. MovesTyped' BY <1>1, <1>3, <2>1 DEF Proper, MovesTyped
  <2> QED BY <1>3, <2>1, <2>2, <2>3 DEF Proper
<1>6. CASE reply = "ok" /\ M!Now.step \in {"source", "takeover"}
  <2> DEFINE m == IF M!Now.step = "source" THEN M!Now.mode = "warm" /\ M!Now.from \in memory' ELSE M!Now.memory
             t == [M!Now EXCEPT !.step = M!Follow(M!Now.step), !.memory = m]
  <2>1. M!Now \in MoveTask /\ M!Now.to \in Nodes /\ M!Now.from # M!Now.to BY <1>1, MachineTasks DEF MoveSteps
  <2>2. M!Follow(M!Now.step) = IF M!Now.step = "source" THEN "takeover" ELSE "commit" BY <1>6 DEF M!Follow
  <2>3. m \in BOOLEAN BY <2>1 DEF MoveTask
  <2>4. moving' = [moving EXCEPT ![1] = t]
    <3>1. moving' = [moving EXCEPT ![1].step = M!Follow(@),
                             ![1].memory = IF M!Now.step = "source"
                                           THEN M!Now.mode = "warm" /\ M!Now.from \in memory' ELSE @]
      BY <1>2, <1>6, <2>2
    <3> QED BY <3>1 DEF M!Now
  <2>5. t \in MoveTask /\ t.step = M!Follow(M!Now.step) /\ t.from = M!Now.from /\ t.to = M!Now.to
    <3> HIDE DEF m
    <3>1. M!Follow(M!Now.step) \in MoveSteps BY <2>2 DEF MoveSteps
    <3> QED BY <2>1, <2>3, <3>1 DEF MoveTask
  <2>6. t \in MachineTask BY <2>5 DEF MachineTask
  <2> HIDE DEF t
  <2>7. moving' \in Seq(MachineTask) /\ moving' # <<>> /\ M!Now' = t /\ MovesWait' BY <2>4, <2>6, GoesOn
  <2>8. MovesTyped' BY <1>1, <1>3, <2>7 DEF Proper, MovesTyped
  <2>9. M!Now.from = node BY <1>6 DEF Proper, UnderWay
  <2>10. M!Now.step = "takeover" => domain[node] # "on" BY DEF Proper, UnderWay
  <2>11. UnderWay'
    <3>1. CASE M!Now.step = "source" BY <1>1, <1>3, <2>2, <2>5, <2>7, <2>9, <3>1 DEF UnderWay
    <3>2. CASE M!Now.step = "takeover" BY <1>1, <1>3, <1>6, <2>2, <2>5, <2>7, <2>9, <2>10, <3>2 DEF UnderWay
    <3> QED BY <1>6, <3>1, <3>2
  <2>12. OnlyHere'
    <3>1. CASE M!Now.step = "source" BY <1>1, <1>3, <1>4, <3>1, StillHere
    <3>2. CASE M!Now.step = "takeover"
      <4>1. \A n : n = M!Now.to => Taken(n)' BY <2>2, <2>5, <2>7, <3>2 DEF Taken
      <4>2. \A n \in Nodes : domain'[n] = "on" => domain[n] = "on" \/ n = node \/ n = M!Now.to BY <1>3
      <4>3. unknown \/ \A n \in Nodes : domain[n] = "on" => n = node BY <3>2 DEF Proper, OnlyHere, Taken
      <4> QED BY <1>1, <4>1, <4>2, <4>3 DEF OnlyHere
    <3> QED BY <1>6, <3>1, <3>2
  <2> QED BY <1>3, <2>7, <2>8, <2>11, <2>12 DEF Proper
<1> QED BY <1>1, <1>2, <1>5, <1>6 DEF M!Follow, M!Fail

LEMMA UnansweredInv == ASSUME Proper, moving # <<>>, M!Unanswered PROVE Proper'
<1>1. /\ M!Now.step \in {"source", "takeover", "cleanup"} /\ UNCHANGED <<node, mover>> /\ M!Ended
  BY DEF M!Unanswered, M!Fail
<1>2. moving' \in Seq(MachineTask) /\ MovesWait' /\ UnderWay' BY <1>1, EndedSteps
<1>3. node \in Nodes /\ domain \in [Nodes -> Domains] BY DEF Proper, MovesTyped
<1>4. CASE UNCHANGED <<M!onNodes, unknown>>
  <2>1. MovesTyped' /\ FoundThere' BY <1>1, <1>2, <1>4 DEF Proper, MovesTyped, FoundThere, M!onNodes
  <2>2. OnlyHere' BY <1>1, <1>3, <1>4, StillHere DEF M!onNodes
  <2> QED BY <1>2, <2>1, <2>2 DEF Proper
<1>5. ASSUME NEW reply \in {"ok", "error"}, M!Operation(M!Now, reply), unknown' = (unknown \/ M!Now.step = "takeover")
      PROVE  Proper'
  <2>1. /\ domain' \in [Nodes -> Domains] /\ FoundThere'
        /\ \A n \in Nodes \ {node} : domain'[n] = "on" =>
               domain[n] = "on" \/ (M!Now.step = "takeover" /\ n = M!Now.to /\ reply # "error")
    BY <1>1, <1>5, OperationSteps
  <2>2. MovesTyped' BY <1>1, <1>2, <2>1 DEF Proper, MovesTyped
  <2>3. unknown' \/ \A n \in Nodes \ {node} : domain'[n] = "on" => domain[n] = "on" BY <1>5, <2>1
  <2>4. (unknown => unknown') /\ M!Now.step # "commit" BY <1>1, <1>5
  <2>5. OnlyHere' BY <1>1, <1>3, <2>3, <2>4, StillHere
  <2> QED BY <1>2, <2>1, <2>2, <2>5 DEF Proper
<1> QED BY <1>4, <1>5 DEF M!Unanswered

LEMMA MoveCommitInv == ASSUME Proper, moving # <<>>, M!Commit PROVE Proper'
<1>1. M!Now.step = "commit" /\ UNCHANGED <<domain, disk, mover>> BY DEF M!Commit, M!onNodes
<1>2. /\ M!Now \in MoveTask /\ M!Now.to \in Nodes /\ M!Now.from # M!Now.to BY <1>1, MachineTasks DEF MoveSteps
<1>3. /\ M!Now.from = node /\ domain[node] # "on" /\ domain[M!Now.to] # "none" /\ M!Now.to \in disk
      /\ node \in Nodes /\ domain \in [Nodes -> Domains]
  BY <1>1 DEF Proper, UnderWay, MovesTyped
<1>4. CASE node' = M!Now.to /\ M!Step("cleanup") /\ UNCHANGED unknown
  <2> DEFINE t == [M!Now EXCEPT !.step = "cleanup"]
  <2>1. t \in MoveTask /\ t.step = "cleanup" /\ t.from = M!Now.from BY <1>2 DEF MoveTask, MoveSteps
  <2>2. moving' = [moving EXCEPT ![1] = t] BY <1>4 DEF M!Step, M!Now
  <2>3. t \in MachineTask BY <2>1 DEF MachineTask
  <2> HIDE DEF t
  <2>4. moving' \in Seq(MachineTask) /\ moving' # <<>> /\ M!Now' = t /\ MovesWait' BY <2>2, <2>3, GoesOn
  <2>5. MovesTyped' BY <1>1, <1>2, <1>4, <2>4 DEF Proper, MovesTyped
  <2>6. UnderWay' BY <1>2, <1>4, <2>1, <2>4, <1>3 DEF UnderWay
  <2>7. FoundThere' BY <1>1, <1>3, <1>4 DEF FoundThere
  <2>8. OnlyHere' BY <1>1, <1>3, <1>4 DEF Proper, OnlyHere, Taken
  <2> QED BY <2>4, <2>5, <2>6, <2>7, <2>8 DEF Proper
<1>5. CASE M!Fail /\ unknown' = TRUE /\ UNCHANGED node
  <2>1. moving' \in Seq(MachineTask) /\ MovesWait' /\ UnderWay' BY <1>5, EndedSteps DEF M!Fail
  <2>2. MovesTyped' /\ FoundThere' BY <1>1, <1>5, <2>1 DEF Proper, MovesTyped, FoundThere
  <2>3. OnlyHere' BY <1>5 DEF OnlyHere
  <2> QED BY <2>1, <2>2, <2>3 DEF Proper
<1> QED BY <1>4, <1>5 DEF M!Commit

LEMMA PowerOpInv == ASSUME Proper, moving # <<>>, M!PowerOp PROVE MovesInv'
<1>1. /\ M!Now.step \in {"poweron", "poweroff"} /\ M!Ended /\ astray' = (astray \/ M!Now.from # node)
      /\ UNCHANGED <<node, disk, mover, unknown>>
  BY DEF M!PowerOp
<1>2. CASE M!Now.from # node BY <1>1, <1>2 DEF MovesInv, Excused
<1>3. CASE M!Now.from = node
  <2>1. node \in Nodes /\ domain \in [Nodes -> Domains] /\ domain[node] # "none" /\ node \in disk
    BY DEF Proper, MovesTyped, FoundThere
  <2>2. PICK d \in {"on", "off"} : domain' = [domain EXCEPT ![node] = d] BY <1>3, <2>1 DEF M!PowerOp
  <2>3. /\ domain' \in [Nodes -> Domains] /\ domain'[node] # "none"
        /\ \A n \in Nodes \ {node} : domain'[n] = domain[n]
    BY <2>1, <2>2 DEF Domains
  <2>4. moving' \in Seq(MachineTask) /\ MovesWait' /\ UnderWay' BY <1>1, EndedSteps
  <2>5. MovesTyped' /\ FoundThere' BY <1>1, <2>1, <2>3, <2>4 DEF Proper, MovesTyped, FoundThere
  <2>6. OnlyHere' BY <1>1, <2>1, <2>3, StillHere
  <2> QED BY <2>4, <2>5, <2>6 DEF MovesInv, Proper
<1> QED BY <1>2, <1>3

LEMMA MoveCancelInv == ASSUME Proper, moving # <<>>, M!Cancel PROVE Proper'
<1>1. M!Now.step = "start" /\ M!Ended /\ UNCHANGED <<node, domain, disk, mover, unknown>> BY DEF M!Cancel, M!onNodes, M!history
<1>2. moving' \in Seq(MachineTask) /\ MovesWait' /\ UnderWay' BY <1>1, EndedSteps
<1>3. MovesTyped' /\ FoundThere' BY <1>1, <1>2 DEF Proper, MovesTyped, FoundThere
<1>4. OnlyHere' BY <1>1, StillHere DEF Proper, MovesTyped
<1> QED BY <1>2, <1>3, <1>4 DEF Proper

-----------------------------------------------------------------------------
(* Migration: requests, and who carries the files.                         *)

\* A step of one request that leaves the machine and its queue.
LEMMA MoverStep ==
    ASSUME Proper, NEW r \in Callers, NEW q \in {M!Idle} \cup Mover, mover' = [mover EXCEPT ![r] = q],
           UNCHANGED <<node, domain, disk, moving, unknown>>
    PROVE  Proper'
<1>1. MovesTyped' BY DEF Proper, MovesTyped
<1>2. MovesWait' /\ UnderWay' /\ FoundThere' /\ OnlyHere' BY DEF Proper, MovesWait, UnderWay, FoundThere, OnlyHere, Taken, M!Now
<1> QED BY <1>1, <1>2 DEF Proper

LEMMA MoverIs ==
    ASSUME Proper, NEW r \in Callers, mover[r] # M!Idle
    PROVE  mover[r] \in Mover
BY DEF Proper, MovesTyped

LEMMA MoverInv ==
    ASSUME Proper, NEW r \in Callers,
           M!Arrive(r) \/ M!Probe(r) \/ M!Active(r) \/ M!Running(r) \/ M!Insert(r) \/ M!EnqueueFails(r)
    PROVE  Proper'
<1>1. UNCHANGED <<node, domain, disk, moving, unknown>>
  BY DEF M!Arrive, M!Probe, M!Active, M!Running, M!Insert, M!EnqueueFails, M!onNodes, M!history
<1>2. CASE M!Arrive(r)
  <2>1. PICK to \in Nodes \ {node} :
            mover' = [mover EXCEPT ![r] = [pc |-> "probe", from |-> node, to |-> to, mode |-> "none", move |-> M!NoMove]]
    BY <1>2 DEF M!Arrive
  <2>2. [pc |-> "probe", from |-> node, to |-> to, mode |-> "none", move |-> M!NoMove] \in Mover
    BY <2>1 DEF Mover, M!NoMove, Proper, MovesTyped
  <2> QED BY <1>1, <2>1, <2>2, MoverStep
<1>3. CASE ~M!Arrive(r)
  <2>1. mover[r].pc \in {"probe", "active", "running", "insert", "enqueue"}
    BY <1>3 DEF M!Probe, M!Active, M!Running, M!Insert, M!EnqueueFails, M!At
  <2>2. mover[r] # M!Idle BY <2>1 DEF M!Idle
  <2>3. mover[r] \in Mover BY <2>2, MoverIs
  <2>4. CASE mover' = [mover EXCEPT ![r] = M!Idle] BY <1>1, <2>4, MoverStep
  <2>5. CASE M!Probe(r)
    <3>1. PICK mode \in {"warm", "offline"} :
              \/ mover' = [mover EXCEPT ![r] = [mover[r] EXCEPT !.pc = "active", !.mode = mode]]
              \/ mover' = [mover EXCEPT ![r] = M!Idle]
      BY <2>5 DEF M!Probe
    <3>2. [mover[r] EXCEPT !.pc = "active", !.mode = mode] \in Mover BY <2>3 DEF Mover
    <3> QED BY <1>1, <2>4, <3>1, <3>2, MoverStep
  <2>6. CASE M!Active(r) \/ M!Running(r)
    <3>1. PICK pc \in {"running", "insert"} :
              mover' = [mover EXCEPT ![r] = [mover[r] EXCEPT !.pc = pc]] \/ mover' = [mover EXCEPT ![r] = M!Idle]
      BY <2>6 DEF M!Active, M!Running, M!Pass
    <3>2. [mover[r] EXCEPT !.pc = pc] \in Mover BY <2>3 DEF Mover
    <3> QED BY <1>1, <2>4, <3>1, <3>2, MoverStep
  <2>7. CASE M!Insert(r)
    <3>1. PICK m \in M!Moves : mover' = [mover EXCEPT ![r].pc = "enqueue", ![r].move = m] BY <2>7 DEF M!Insert
    <3>2. m \in Nat BY PartAssumptions DEF M!MigrationAssumption, M!Moves
    <3>3. [mover[r] EXCEPT !.pc = "enqueue", !.move = m] \in Mover BY <2>3, <3>2 DEF Mover
    <3>4. mover' = [mover EXCEPT ![r] = [mover[r] EXCEPT !.pc = "enqueue", !.move = m]] BY <3>1
    <3> QED BY <1>1, <3>3, <3>4, MoverStep
  <2>8. CASE M!EnqueueFails(r) BY <2>4, <2>8 DEF M!EnqueueFails
  <2> QED BY <1>3, <2>5, <2>6, <2>7, <2>8
<1> QED BY <1>2, <1>3

LEMMA MoveEnqueueInv == ASSUME Proper, NEW r \in Callers, M!Enqueue(r) PROVE Proper'
<1> DEFINE t == [step |-> "start", from |-> mover[r].from, to |-> mover[r].to,
                 mode |-> mover[r].mode, move |-> mover[r].move, memory |-> FALSE]
<1>1. /\ mover[r].pc = "enqueue" /\ mover' = [mover EXCEPT ![r] = M!Idle] /\ moving' = Append(moving, t)
      /\ UNCHANGED <<node, domain, disk, unknown>>
  BY DEF M!Enqueue, M!At, M!onNodes, M!history
<1>2. mover[r] \in Mover BY <1>1, MoverIs DEF M!Idle
<1>3. t \in MoveTask /\ t.step = "start" BY <1>2 DEF Mover, MoveTask, MoveSteps
<1>4. t \in MachineTask BY <1>3 DEF MachineTask
<1> HIDE DEF t
<1>5. moving' \in Seq(MachineTask) /\ MovesWait' /\ UnderWay' /\ FoundThere' /\ OnlyHere' BY <1>1, <1>3, <1>4, AppendedTask
<1>6. MovesTyped' BY <1>1, <1>5 DEF Proper, MovesTyped
<1> QED BY <1>5, <1>6 DEF Proper

LEMMA PowerInv == ASSUME Proper, M!Power PROVE Proper'
<1> DEFINE t == [step |-> IF domain[node] = "on" THEN "poweroff" ELSE "poweron", from |-> node]
<1>1. moving' = Append(moving, t) /\ UNCHANGED <<node, domain, disk, mover, unknown>> BY DEF M!Power, M!onNodes, M!history
<1>2. t \in PowerTask /\ t.step \in {"poweron", "poweroff"} BY DEF PowerTask, Proper, MovesTyped
<1>3. t \in MachineTask BY <1>2 DEF MachineTask
<1> HIDE DEF t
<1>4. moving' \in Seq(MachineTask) /\ MovesWait' /\ UnderWay' /\ FoundThere' /\ OnlyHere' BY <1>1, <1>2, <1>3, AppendedTask
<1>5. MovesTyped' BY <1>1, <1>4 DEF Proper, MovesTyped
<1> QED BY <1>4, <1>5 DEF Proper

LEMMA QuietInv == ASSUME Proper, UNCHANGED <<node, domain, disk, moving, mover, unknown>> PROVE Proper'
<1>1. MovesTyped' BY DEF Proper, MovesTyped
<1>2. MovesWait' /\ UnderWay' /\ FoundThere' /\ OnlyHere' BY DEF Proper, MovesWait, UnderWay, FoundThere, OnlyHere, Taken, M!Now
<1> QED BY <1>1, <1>2 DEF Proper

\* Histories are never taken back.
LEMMA ExcusedStays == ASSUME Excused, [M!Next]_M!vars PROVE Excused'
<1>1. UNCHANGED <<outlived, astray>> => Excused' BY DEF Excused
<1>2. CASE UNCHANGED M!vars BY <1>1, <1>2 DEF M!vars, M!history
<1>3. ASSUME NEW r \in Callers,
             M!Arrive(r) \/ M!Probe(r) \/ M!Active(r) \/ M!Running(r) \/ M!Insert(r) \/ M!Enqueue(r) \/ M!EnqueueFails(r)
      PROVE  Excused'
  BY <1>1, <1>3 DEF M!Arrive, M!Probe, M!Active, M!Running, M!Insert, M!Enqueue, M!EnqueueFails, M!history
<1>4. CASE M!Power \/ M!Relay BY <1>1, <1>4 DEF M!Power, M!Relay, M!history
<1>5. CASE M!Run
  <2>1. CASE M!Answered \/ M!Unanswered \/ M!Commit \/ M!Cancel BY <1>1, <2>1 DEF M!Answered, M!Unanswered, M!Commit, M!Cancel, M!history
  <2>2. CASE M!MarkRunning BY <2>2 DEF M!MarkRunning, Excused
  <2>3. CASE M!PowerOp BY <2>3 DEF M!PowerOp, Excused
  <2> QED BY <1>5, <2>1, <2>2, <2>3 DEF M!Run
<1>6. ASSUME NEW t \in late, M!Late(t) PROVE Excused' BY <1>6 DEF M!Late, Excused
<1> QED BY <1>2, <1>3, <1>4, <1>5, <1>6 DEF M!Next

LEMMA MovesNextInv == ASSUME MovesInv, [M!Next]_M!vars PROVE MovesInv'
<1>1. CASE Excused BY <1>1, ExcusedStays DEF MovesInv
<1>2. CASE Proper
  <2>1. CASE UNCHANGED M!vars BY <1>2, <2>1, QuietInv DEF M!vars, M!onNodes, M!history, MovesInv
  <2>2. ASSUME NEW r \in Callers,
               M!Arrive(r) \/ M!Probe(r) \/ M!Active(r) \/ M!Running(r) \/ M!Insert(r) \/ M!Enqueue(r) \/ M!EnqueueFails(r)
        PROVE  MovesInv'
    BY <1>2, <2>2, MoverInv, MoveEnqueueInv DEF MovesInv
  <2>3. CASE M!Power BY <1>2, <2>3, PowerInv DEF MovesInv
  <2>4. CASE M!Relay BY <1>2, <2>4, QuietInv DEF M!Relay, M!history, MovesInv
  <2>5. CASE M!Run
    BY <1>2, <2>5, MarkRunningInv, AnsweredInv, UnansweredInv, MoveCommitInv, PowerOpInv, MoveCancelInv DEF M!Run, MovesInv
  <2>6. ASSUME NEW t \in late, M!Late(t) PROVE MovesInv' BY <2>6 DEF M!Late, MovesInv, Excused
  <2> QED BY <2>1, <2>2, <2>3, <2>4, <2>5, <2>6 DEF M!Next
<1> QED BY <1>1, <1>2 DEF MovesInv

-----------------------------------------------------------------------------
\* An element of the second of two sequences that are joined.
LEMMA Second ==
    ASSUME NEW Ground, NEW a \in Seq(Ground), NEW b \in Seq(Ground),
           NEW j \in Len(a) + 1 .. Len(a) + Len(b)
    PROVE  (a \o b)[j] = b[j - Len(a)]
OBVIOUS

Past(i, j) == IF j < i THEN j ELSE j + 1
LEMMA Removed ==
    ASSUME NEW Ground, NEW s \in Seq(Ground), NEW i \in DOMAIN s
    PROVE  /\ S!RemoveAt(s, i) \in Seq(Ground)
           /\ Len(S!RemoveAt(s, i)) = Len(s) - 1
           /\ \A j \in DOMAIN S!RemoveAt(s, i) : /\ Past(i, j) \in DOMAIN s
                                                 /\ Past(i, j) # i
                                                 /\ S!RemoveAt(s, i)[j] = s[Past(i, j)]
           /\ \A k \in DOMAIN s \ {i} : \E j \in DOMAIN S!RemoveAt(s, i) : Past(i, j) = k
<1>1. i \in 1 .. Len(s) /\ Len(s) \in Nat OBVIOUS
<1> DEFINE a == SubSeq(s, 1, i - 1)
           b == SubSeq(s, i + 1, Len(s))
<1>2. a \in Seq(Ground) /\ Len(a) = i - 1 /\ \A j \in 1 .. i - 1 : a[j] = s[j] BY <1>1
<1>3. b \in Seq(Ground) /\ Len(b) = Len(s) - i /\ \A j \in 1 .. Len(s) - i : b[j] = s[i + j] BY <1>1
<1>4. S!RemoveAt(s, i) = a \o b BY DEF S!RemoveAt
<1> HIDE DEF a, b
<1>5. Len(a \o b) = Len(s) - 1 /\ a \o b \in Seq(Ground) BY <1>1, <1>2, <1>3
<1>6. ASSUME NEW j \in 1 .. Len(s) - 1 PROVE (a \o b)[j] = s[Past(i, j)]
  <2>1. CASE j < i BY <1>1, <1>2, <1>3, <2>1 DEF Past
  <2>2. CASE ~(j < i)
    <3>1. j \in Len(a) + 1 .. Len(a) + Len(b) BY <1>1, <1>2, <1>3, <2>2
    <3>2. (a \o b)[j] = b[j - Len(a)] BY <1>2, <1>3, <3>1, Second
    <3> QED BY <1>1, <1>2, <1>3, <2>2, <3>2 DEF Past
  <2> QED BY <2>1, <2>2
<1>7. DOMAIN (a \o b) = 1 .. Len(s) - 1 BY <1>1, <1>5
<1>8. \A j \in 1 .. Len(s) - 1 : Past(i, j) \in DOMAIN s /\ Past(i, j) # i BY <1>1 DEF Past
<1>9. ASSUME NEW k \in DOMAIN s \ {i} PROVE \E j \in 1 .. Len(s) - 1 : Past(i, j) = k
  <2>1. CASE k < i BY <1>1, <2>1 DEF Past
  <2>2. CASE ~(k < i)
    <3>1. k - 1 \in 1 .. Len(s) - 1 /\ Past(i, k - 1) = k BY <1>1, <2>2 DEF Past
    <3> QED BY <3>1
  <2> QED BY <2>1, <2>2
<1> QED BY <1>4, <1>5, <1>6, <1>7, <1>8, <1>9
-----------------------------------------------------------------------------
(* Snapshots: the invariant.                                               *)

SnapKinds == {"create", "restore", "delete", "delete_all"}
Deletions == {"delete", "delete_all"}
Lists == Seq(S!Snaps) \ {<<>>}
SnapTask == [kind : SnapKinds, about : Lists, st : {"pending", "done", "failed"}]
SnapRequest == [pc : {"idle", "count", "insert", "read", "active", "enqueue", "mark"},
                kind : SnapKinds \cup {"none"}, about : Seq(S!Snaps)]

\* Where a request can be, and from where on it is about a row.
WellFormed(q) ==
    /\ q.pc \in {"count", "insert"} => q.kind = "create"
    /\ q.kind = "create" => q.pc \in {"count", "insert", "enqueue"}
    /\ q.kind = "none" => q.pc = "idle"
    /\ q.kind = "delete" => q.pc # "active"
    /\ q.pc \in {"enqueue", "mark"} \/ (q.pc = "active" /\ q.kind = "restore") => q.about # <<>>

SnapsTyped ==
    /\ status \in [S!Snaps -> {"absent", "creating", "ready", "error", "restoring", "deleting", "gone"}]
    /\ snapping \in Seq(SnapTask)
    /\ snapper \in [Callers -> SnapRequest] /\ \A r \in Callers : WellFormed(snapper[r])

\* The queue works on the first task alone.
OthersWait == \A i \in DOMAIN snapping : i > 1 => snapping[i].st = "pending"
Created == snapping # <<>> /\ snapping[1].kind = "create" /\ snapping[1].st = "done" => snapping[1].about[1] \in held

Asked(r, s) == \E k \in DOMAIN snapper[r].about : snapper[r].about[k] = s
Tasks(kinds, s) == \E i \in DOMAIN snapping : snapping[i].kind \in kinds /\ \E k \in DOMAIN snapping[i].about : snapping[i].about[k] = s

\* Nothing is about a row that is not there yet, and only its request about one
\* that has no task yet.
NobodysYet == \A s \in S!Snaps : status[s] = "absent" => ~Tasks(SnapKinds, s) /\ \A r \in Callers : ~Asked(r, s)
OwnOnly ==
    \A r \in Callers : snapper[r].kind = "create" /\ snapper[r].pc = "enqueue" =>
        \E s \in S!Snaps : /\ snapper[r].about = <<s>> /\ status[s] = "creating" /\ ~Tasks(SnapKinds, s)
                           /\ \A q \in Callers : q # r => ~Asked(q, s)

\* What has been offered for restoring is there, or its end is on record, or comes
\* with the task that is under way.
Leaving(s) == snapping # <<>> /\ snapping[1].kind \in Deletions /\ snapping[1].st # "pending" /\ snapping[1].about[1] = s
Accounted(s) == status[s] = "gone" \/ s \in held \cup doubtful \/ Leaving(s)
Offered(s) ==
    \/ status[s] = "ready" \/ Tasks({"restore"}, s)
    \/ \E r \in Callers : snapper[r].kind = "restore" /\ Asked(r, s)
OfferedAccounted == \A s \in S!Snaps : Offered(s) => Accounted(s)

SnapsInv == SnapsTyped /\ OthersWait /\ Created /\ NobodysYet /\ OwnOnly /\ OfferedAccounted

LEMMA Places ==
    /\ \A s : s = S!CreateSteps => /\ DOMAIN s = 1 .. 3 /\ Len(s) = 3
                                   /\ s[1] = "count" /\ s[2] = "insert" /\ s[3] = "enqueue"
    /\ \A s : s = S!RestoreSteps => /\ DOMAIN s = 1 .. 4 /\ Len(s) = 4
                                    /\ s[1] = "read" /\ s[2] = "active" /\ s[3] = "enqueue" /\ s[4] = "mark"
    /\ \A s : s = S!DeleteSteps => /\ DOMAIN s = 1 .. 3 /\ Len(s) = 3
                                   /\ s[1] = "read" /\ s[2] = "enqueue" /\ s[3] = "mark"
    /\ \A s : s = S!DeleteAllSteps => /\ DOMAIN s = 1 .. 4 /\ Len(s) = 4
                                      /\ s[1] = "active" /\ s[2] = "read" /\ s[3] = "enqueue" /\ s[4] = "mark"
BY DEF S!CreateSteps, S!RestoreSteps, S!DeleteSteps, S!DeleteAllSteps

\* Where a request goes on.
LEMMA AfterIs ==
    ASSUME NEW r
    PROVE  /\ snapper[r].kind = "create" =>
                  /\ snapper[r].pc = "count" => S!After(r) = "insert"
                  /\ snapper[r].pc = "insert" => S!After(r) = "enqueue"
                  /\ snapper[r].pc = "enqueue" => S!After(r) = "idle"
           /\ snapper[r].kind = "restore" =>
                  /\ snapper[r].pc = "read" => S!After(r) = "active"
                  /\ snapper[r].pc = "active" => S!After(r) = "enqueue"
                  /\ snapper[r].pc = "enqueue" => S!After(r) = "mark"
           /\ snapper[r].kind = "delete" =>
                  /\ snapper[r].pc = "read" => S!After(r) = "enqueue"
                  /\ snapper[r].pc = "enqueue" => S!After(r) = "mark"
           /\ snapper[r].kind = "delete_all" =>
                  /\ snapper[r].pc = "active" => S!After(r) = "read"
                  /\ snapper[r].pc = "read" => S!After(r) = "enqueue"
                  /\ snapper[r].pc = "enqueue" => S!After(r) = "mark"
<1> DEFINE s == S!Steps(snapper[r].kind)
           i == CHOOSE i \in DOMAIN s : s[i] = snapper[r].pc
<1>1. S!After(r) = IF i = Len(s) THEN "idle" ELSE s[i + 1] BY DEF S!After
<1>2. (\E k \in DOMAIN s : s[k] = snapper[r].pc) => i \in DOMAIN s /\ s[i] = snapper[r].pc OBVIOUS
<1> HIDE DEF i
<1>3. snapper[r].kind = "create" => s = S!CreateSteps BY DEF S!Steps
<1>4. snapper[r].kind = "restore" => s = S!RestoreSteps BY DEF S!Steps
<1>5. snapper[r].kind = "delete" => s = S!DeleteSteps BY DEF S!Steps
<1>6. snapper[r].kind = "delete_all" => s = S!DeleteAllSteps BY DEF S!Steps
<1> HIDE DEF s
<1>7. CASE snapper[r].kind = "create"
  <2>1. DOMAIN s = 1 .. 3 /\ Len(s) = 3 /\ s[1] = "count" /\ s[2] = "insert" /\ s[3] = "enqueue" BY <1>3, <1>7, Places
  <2> QED BY <1>1, <1>2, <1>7, <2>1
<1>8. CASE snapper[r].kind = "restore"
  <2>1. DOMAIN s = 1 .. 4 /\ Len(s) = 4 /\ s[1] = "read" /\ s[2] = "active" /\ s[3] = "enqueue" /\ s[4] = "mark" BY <1>4, <1>8, Places
  <2> QED BY <1>1, <1>2, <1>8, <2>1
<1>9. CASE snapper[r].kind = "delete"
  <2>1. DOMAIN s = 1 .. 3 /\ Len(s) = 3 /\ s[1] = "read" /\ s[2] = "enqueue" /\ s[3] = "mark" BY <1>5, <1>9, Places
  <2> QED BY <1>1, <1>2, <1>9, <2>1
<1>10. CASE snapper[r].kind = "delete_all"
  <2>1. DOMAIN s = 1 .. 4 /\ Len(s) = 4 /\ s[1] = "active" /\ s[2] = "read" /\ s[3] = "enqueue" /\ s[4] = "mark" BY <1>6, <1>10, Places
  <2> QED BY <1>1, <1>2, <1>10, <2>1
<1> QED BY <1>7, <1>8, <1>9, <1>10

LEMMA FirstStep ==
    /\ S!Steps("create")[1] = "count" /\ S!Steps("restore")[1] = "read"
    /\ S!Steps("delete")[1] = "read" /\ S!Steps("delete_all")[1] = "active"
BY Places DEF S!Steps

LEMMA SnapsInitInv == ASSUME S!Init PROVE SnapsInv
<1>1. SnapsTyped /\ \A r \in Callers : snapper[r] = S!Idle
  <2>1. snapping \in Seq(SnapTask) BY DEF S!Init
  <2>2. <<>> \in Seq(S!Snaps) OBVIOUS
  <2>3. \A r \in Callers : snapper[r] = S!Idle /\ S!Idle \in SnapRequest /\ WellFormed(S!Idle) BY <2>2 DEF S!Init, S!Idle, SnapRequest, WellFormed
  <2> QED BY <2>1, <2>3 DEF S!Init, SnapsTyped
<1>2. \A s : ~Tasks(SnapKinds, s) /\ ~Tasks({"restore"}, s) BY DEF S!Init, Tasks
<1>3. \A r \in Callers : \A s : ~Asked(r, s) BY <1>1 DEF Asked, S!Idle
<1>4. OthersWait /\ Created BY DEF S!Init, OthersWait, Created
<1>5. NobodysYet BY <1>2, <1>3 DEF NobodysYet
<1>6. OwnOnly BY <1>1 DEF OwnOnly, S!Idle
<1>7. OfferedAccounted BY <1>2, <1>3 DEF S!Init, OfferedAccounted, Offered
<1> QED BY <1>1, <1>4, <1>5, <1>6, <1>7 DEF SnapsInv

LEMMA SnapsInvMeans == ASSUME SnapsInv PROVE S!ReadyMeansHeld
<1> SUFFICES ASSUME NEW s \in S!Rows, status[s] = "ready", ~(s \in held \cup doubtful) PROVE s \in S!BeingDeleted BY DEF S!ReadyMeansHeld
<1>1. s \in S!Snaps /\ Leaving(s) BY DEF SnapsInv, OfferedAccounted, Offered, Accounted, S!Rows
<1>2. snapping \in Seq(SnapTask) /\ snapping # <<>> BY <1>1 DEF SnapsInv, SnapsTyped, Leaving
<1>3. 1 \in DOMAIN snapping /\ snapping[1] \in SnapTask BY <1>2
<1>4. snapping[1].about \in Seq(S!Snaps) /\ snapping[1].about # <<>> BY <1>3 DEF SnapTask, Lists
<1>5. 1 \in DOMAIN snapping[1].about BY <1>4
<1>6. s \in S!ToSet(snapping[1].about) BY <1>1, <1>5 DEF Leaving, S!ToSet
<1>7. snapping[1].kind \in {"delete", "delete_all"} BY <1>1 DEF Leaving, Deletions
<1> QED BY <1>3, <1>6, <1>7 DEF S!BeingDeleted

-----------------------------------------------------------------------------
(* Snapshots: the queue.                                                   *)

SnapStatuses == {"absent", "creating", "ready", "error", "restoring", "deleting", "gone"}
\* The tasks that are there mention no row that was not mentioned.
NothingNew ==
    \A i \in DOMAIN snapping' : \E j \in DOMAIN snapping :
        /\ snapping'[i].kind = snapping[j].kind
        /\ \A k \in DOMAIN snapping'[i].about : \E m \in DOMAIN snapping[j].about : snapping'[i].about[k] = snapping[j].about[m]

LEMMA TaskStep ==
    ASSUME SnapsInv, snapper' = snapper, snapping' \in Seq(SnapTask), OthersWait', Created', NothingNew,
           status' \in [S!Snaps -> SnapStatuses],
           \A s \in S!Snaps : status'[s] = status[s] \/ (Tasks(SnapKinds, s) /\ status'[s] \notin {"absent", "creating"}),
           \A s \in S!Snaps : Accounted(s) => Accounted(s)',
           \A s \in S!Snaps : status'[s] = "ready" => status[s] = "ready" \/ Accounted(s)'
    PROVE  SnapsInv'
<1>1. SnapsTyped' BY DEF SnapsInv, SnapsTyped, SnapStatuses
<1>2. ASSUME NEW kinds, NEW s, Tasks(kinds, s)' PROVE Tasks(kinds, s)
  <2>1. PICK i \in DOMAIN snapping' : snapping'[i].kind \in kinds /\ \E k \in DOMAIN snapping'[i].about : snapping'[i].about[k] = s
    BY <1>2 DEF Tasks
  <2> QED BY <2>1 DEF Tasks, NothingNew
<1>3. \A r \in Callers : \A s : Asked(r, s)' <=> Asked(r, s) BY DEF Asked
<1>4. NobodysYet'
  <2> SUFFICES ASSUME NEW s \in S!Snaps, status'[s] = "absent"
               PROVE  ~Tasks(SnapKinds, s)' /\ \A r \in Callers : ~Asked(r, s)' BY DEF NobodysYet
  <2>1. status[s] = "absent" OBVIOUS
  <2>2. ~Tasks(SnapKinds, s) /\ \A r \in Callers : ~Asked(r, s) BY <2>1 DEF SnapsInv, NobodysYet
  <2> QED BY <1>2, <1>3, <2>2
<1>5. OwnOnly'
  <2> SUFFICES ASSUME NEW r \in Callers, snapper[r].kind = "create", snapper[r].pc = "enqueue"
               PROVE  \E s \in S!Snaps : /\ snapper[r].about = <<s>> /\ status'[s] = "creating" /\ ~Tasks(SnapKinds, s)'
                                         /\ \A q \in Callers : q # r => ~Asked(q, s)'
    BY DEF OwnOnly
  <2>1. PICK s \in S!Snaps : /\ snapper[r].about = <<s>> /\ status[s] = "creating" /\ ~Tasks(SnapKinds, s)
                             /\ \A q \in Callers : q # r => ~Asked(q, s)
    BY DEF SnapsInv, OwnOnly
  <2> QED BY <1>2, <1>3, <2>1
<1>6. OfferedAccounted'
  <2> SUFFICES ASSUME NEW s \in S!Snaps, Offered(s)' PROVE Accounted(s)' BY DEF OfferedAccounted
  <2>1. CASE status'[s] = "ready" /\ status[s] # "ready" BY <2>1
  <2>2. CASE ~(status'[s] = "ready" /\ status[s] # "ready")
    <3>1. Offered(s) BY <1>2, <1>3, <2>2 DEF Offered
    <3> QED BY <3>1 DEF SnapsInv, OfferedAccounted
  <2> QED BY <2>1, <2>2
<1> QED BY <1>1, <1>4, <1>5, <1>6 DEF SnapsInv

\* The first task.
LEMMA HeadTask ==
    ASSUME SnapsInv, snapping # <<>>
    PROVE  /\ snapping \in Seq(SnapTask) /\ 1 \in DOMAIN snapping /\ snapping[1] \in SnapTask
           /\ S!About \in S!Snaps /\ 1 \in DOMAIN snapping[1].about /\ Tasks(SnapKinds, S!About)
<1>1. snapping \in Seq(SnapTask) BY DEF SnapsInv, SnapsTyped
<1>2. 1 \in DOMAIN snapping /\ snapping[1] \in SnapTask BY <1>1
<1>3. snapping[1].about \in Seq(S!Snaps) /\ snapping[1].about # <<>> BY <1>2 DEF SnapTask, Lists
<1>4. 1 \in DOMAIN snapping[1].about /\ snapping[1].about[1] \in S!Snaps BY <1>3
<1>5. snapping[1].kind \in SnapKinds BY <1>2 DEF SnapTask
<1>6. Tasks(SnapKinds, S!About) BY <1>2, <1>4, <1>5 DEF Tasks, S!About
<1> QED BY <1>1, <1>2, <1>4, <1>6 DEF S!About

LEMMA VerdictSteps ==
    ASSUME SnapsInv, snapping # <<>>, NEW v \in {"done", "failed"}, S!Verdict(v)
    PROVE  /\ snapping' \in Seq(SnapTask) /\ snapping' # <<>> /\ OthersWait' /\ NothingNew
           /\ snapping'[1].kind = snapping[1].kind /\ snapping'[1].about = snapping[1].about /\ snapping'[1].st = v
<1>1. snapping \in Seq(SnapTask) /\ 1 \in DOMAIN snapping /\ snapping[1] \in SnapTask BY HeadTask
<1> DEFINE t == [snapping[1] EXCEPT !.st = v]
<1>2. t \in SnapTask /\ t.kind = snapping[1].kind /\ t.about = snapping[1].about /\ t.st = v BY <1>1 DEF SnapTask
<1>3. snapping' = [snapping EXCEPT ![1] = t] BY DEF S!Verdict
<1> HIDE DEF t
<1>4. snapping' \in Seq(SnapTask) /\ Len(snapping') = Len(snapping) /\ DOMAIN snapping' = DOMAIN snapping BY <1>1, <1>2, <1>3
<1>5. snapping'[1] = t /\ \A i \in DOMAIN snapping : i # 1 => snapping'[i] = snapping[i] BY <1>1, <1>3
<1>6. OthersWait' BY <1>4, <1>5 DEF SnapsInv, OthersWait
<1>7. NothingNew BY <1>2, <1>4, <1>5 DEF NothingNew
<1> QED BY <1>1, <1>2, <1>4, <1>5, <1>6, <1>7

LEMMA TailSteps ==
    ASSUME SnapsInv, snapping # <<>>, snapping' = Tail(snapping)
    PROVE  /\ snapping' \in Seq(SnapTask) /\ OthersWait' /\ NothingNew /\ Created'
           /\ \A s : ~Leaving(s)'
<1>1. snapping \in Seq(SnapTask) BY DEF SnapsInv, SnapsTyped
<1>2. snapping' \in Seq(SnapTask) /\ \A i \in DOMAIN snapping' : i + 1 \in DOMAIN snapping /\ i + 1 > 1 /\ snapping'[i] = snapping[i + 1]
  BY <1>1
<1>3. \A i \in DOMAIN snapping' : snapping'[i].st = "pending" BY <1>2 DEF SnapsInv, OthersWait
<1>4. OthersWait' BY <1>3 DEF OthersWait
<1>5. NothingNew BY <1>2 DEF NothingNew
<1>6. snapping' # <<>> => 1 \in DOMAIN snapping' BY <1>2
<1>7. snapping' # <<>> => snapping'[1].st = "pending" BY <1>3, <1>6
<1> QED BY <1>2, <1>4, <1>5, <1>7 DEF Created, Leaving

-----------------------------------------------------------------------------
(* Snapshots: the node.                                                    *)

\* What the node does for the first task, the answer of which may be lost.
LEMMA NodeInv == ASSUME SnapsInv, S!Node PROVE SnapsInv'
<1>1. /\ snapping # <<>> /\ snapping[1].st = "pending"
      /\ UNCHANGED <<status, current, snapper, doubtful>>
  BY DEF S!Node, S!CreateOnNode, S!RestoreOnNode, S!DeleteOnNode, S!Tasked, S!Dispatch
<1>2. \E v \in {"done", "failed"} :
          /\ S!Verdict(v)
          /\ v = "done" /\ snapping[1].kind = "create" => S!About \in held'
          /\ \A s \in held : s \in held' \/ (snapping[1].kind \in Deletions /\ s = S!About)
  <2>1. CASE S!CreateOnNode BY <2>1 DEF S!CreateOnNode, S!Dispatch, S!Tasked
  <2>2. CASE S!RestoreOnNode BY <2>2 DEF S!RestoreOnNode, S!Dispatch, S!Tasked
  <2>3. CASE S!DeleteOnNode BY <2>3 DEF S!DeleteOnNode, S!Dispatch, S!Tasked, Deletions
  <2> QED BY <2>1, <2>2, <2>3 DEF S!Node
<1>3. PICK v \in {"done", "failed"} :
          /\ S!Verdict(v)
          /\ v = "done" /\ snapping[1].kind = "create" => S!About \in held'
          /\ \A s \in held : s \in held' \/ (snapping[1].kind \in Deletions /\ s = S!About)
  BY <1>2
<1>4. /\ snapping' \in Seq(SnapTask) /\ snapping' # <<>> /\ OthersWait' /\ NothingNew
      /\ snapping'[1].kind = snapping[1].kind /\ snapping'[1].about = snapping[1].about /\ snapping'[1].st = v
  BY <1>1, <1>3, VerdictSteps
<1>5. Created' BY <1>3, <1>4 DEF Created, S!About
<1>6. ASSUME NEW s \in S!Snaps, Accounted(s) PROVE Accounted(s)'
  <2>1. ~Leaving(s) BY <1>1 DEF Leaving
  <2>2. snapping[1].kind \in Deletions /\ s = S!About => Leaving(s)' BY <1>4 DEF Leaving, S!About
  <2> QED BY <1>1, <1>3, <1>6, <2>1, <2>2 DEF Accounted
<1>7. status' \in [S!Snaps -> SnapStatuses] BY <1>1 DEF SnapsInv, SnapsTyped, SnapStatuses
<1> QED BY <1>1, <1>4, <1>5, <1>6, <1>7, TaskStep

-----------------------------------------------------------------------------
(* Snapshots: the end of a task.                                           *)

\* What a finished task writes to its row.
LEMMA UpdateIs ==
    ASSUME SnapsInv, snapping # <<>>, NEW st \in {"ready", "error", "gone"}, status' = S!Update({S!About}, st)
    PROVE  /\ status' \in [S!Snaps -> SnapStatuses]
           /\ \A s \in S!Snaps : status'[s] = IF s = S!About /\ status[s] # "gone" THEN st ELSE status[s]
<1>1. status \in [S!Snaps -> SnapStatuses] BY DEF SnapsInv, SnapsTyped, SnapStatuses
<1>2. S!About \in S!Snaps /\ Tasks(SnapKinds, S!About) BY HeadTask
<1>3. status[S!About] # "absent" BY <1>2 DEF SnapsInv, NobodysYet
<1> QED BY <1>1, <1>2, <1>3 DEF S!Update, S!Rows, SnapStatuses

\* The first task ends.
LEMMA FinishStep ==
    ASSUME SnapsInv, snapping # <<>>, snapping' = Tail(snapping), UNCHANGED <<snapper, held>>, doubtful \subseteq doubtful',
           NEW st \in {"ready", "error", "gone"},
           \/ status' = S!Update({S!About}, st) \/ UNCHANGED status,
           Leaving(S!About) => S!About \in doubtful' \/ (status' = S!Update({S!About}, st) /\ st = "gone"),
           status' = S!Update({S!About}, st) /\ st = "ready" => S!About \in held \cup doubtful' \/ status[S!About] = "gone"
    PROVE  SnapsInv'
<1>1. /\ snapping' \in Seq(SnapTask) /\ OthersWait' /\ NothingNew /\ Created'
      /\ \A s : ~Leaving(s)'
  BY TailSteps
<1>2. S!About \in S!Snaps /\ Tasks(SnapKinds, S!About) BY HeadTask
<1>3. status \in [S!Snaps -> SnapStatuses] BY DEF SnapsInv, SnapsTyped, SnapStatuses
<1>4. /\ status' \in [S!Snaps -> SnapStatuses]
      /\ \/ status' = status
         \/ \A s \in S!Snaps : status'[s] = IF s = S!About /\ status[s] # "gone" THEN st ELSE status[s]
  BY <1>3, UpdateIs
<1>5. \A s \in S!Snaps : status[s] = "gone" => status'[s] = "gone" BY <1>4
<1>6. ASSUME NEW s \in S!Snaps, Accounted(s) PROVE Accounted(s)'
  <2>1. CASE status[s] = "gone" \/ s \in held \cup doubtful BY <1>5, <2>1 DEF Accounted
  <2>2. CASE Leaving(s)
    <3>1. s = S!About BY <2>2 DEF Leaving, S!About
    <3>2. CASE s \in doubtful' BY <3>2 DEF Accounted
    <3>3. CASE status' = S!Update({S!About}, st) /\ st = "gone"
      <4>1. status'[s] = "gone" BY <3>1, <3>3, UpdateIs
      <4> QED BY <4>1 DEF Accounted
    <3> QED BY <2>2, <3>1, <3>2, <3>3
  <2> QED BY <1>6, <2>1, <2>2 DEF Accounted
<1>7. ASSUME NEW s \in S!Snaps, status'[s] = "ready", status[s] # "ready" PROVE Accounted(s)'
  <2>1. status' # status BY <1>7
  <2>2. status' = S!Update({S!About}, st) /\ s = S!About /\ st = "ready" /\ status[s] # "gone" BY <1>4, <1>7, <2>1
  <2> QED BY <2>2 DEF Accounted
<1>8. \A s \in S!Snaps : status'[s] = status[s] \/ (Tasks(SnapKinds, s) /\ status'[s] \notin {"absent", "creating"})
  BY <1>2, <1>4
<1> QED BY <1>1, <1>4, <1>6, <1>7, <1>8, TaskStep

LEMMA FinishOneInv == ASSUME SnapsInv, S!FinishCreate \/ S!FinishRestore \/ S!FinishDelete PROVE SnapsInv'
<1>1. /\ snapping # <<>> /\ snapping[1].st # "pending" /\ snapping' = Tail(snapping) /\ UNCHANGED <<snapper, held>>
  BY DEF S!FinishCreate, S!FinishRestore, S!FinishDelete, S!Tasked
<1>2. CASE S!FinishCreate
  <2> DEFINE st == S!CreateVerdict(snapping[1].st)
  <2>1. st \in {"ready", "error"} /\ (st = "ready" => snapping[1].st = "done") BY DEF S!CreateVerdict
  <2>2. status' = S!Update({S!About}, st) /\ UNCHANGED doubtful /\ snapping[1].kind = "create" BY <1>2 DEF S!FinishCreate, S!Tasked
  <2>3. st = "ready" => S!About \in held BY <1>1, <2>1, <2>2 DEF SnapsInv, Created, S!About
  <2>4. ~Leaving(S!About) BY <2>2 DEF Leaving, Deletions
  <2> HIDE DEF st
  <2> QED BY <1>1, <2>1, <2>2, <2>3, <2>4, FinishStep
<1>3. CASE S!FinishRestore
  <2>1. status' = S!Update({S!About}, "ready") /\ UNCHANGED doubtful /\ snapping[1].kind = "restore" BY <1>3 DEF S!FinishRestore, S!Tasked
  <2>2. ~Leaving(S!About) BY <2>1 DEF Leaving, Deletions
  <2>3. 1 \in DOMAIN snapping /\ 1 \in DOMAIN snapping[1].about /\ S!About \in S!Snaps BY <1>1, HeadTask
  <2>4. Tasks({"restore"}, S!About) BY <2>1, <2>3 DEF Tasks, S!About
  <2>5. Accounted(S!About) BY <2>3, <2>4 DEF SnapsInv, OfferedAccounted, Offered
  <2> QED BY <1>1, <2>1, <2>2, <2>5, FinishStep DEF Accounted
<1>4. CASE S!FinishDelete
  <2>1. CASE snapping[1].st = "done"
    <3>1. status' = S!Update({S!About}, "gone") /\ UNCHANGED doubtful BY <1>4, <2>1 DEF S!FinishDelete
    <3> QED BY <1>1, <3>1, FinishStep
  <2>2. CASE snapping[1].st # "done"
    <3>1. status' = S!Update({S!About}, "ready") /\ doubtful' = doubtful \cup {S!About} BY <1>4, <2>2 DEF S!FinishDelete
    <3> QED BY <1>1, <3>1, FinishStep
  <2> QED BY <2>1, <2>2
<1> QED BY <1>2, <1>3, <1>4

LEMMA FinishDeleteAllInv == ASSUME SnapsInv, S!FinishDeleteAll PROVE SnapsInv'
<1>1. /\ snapping # <<>> /\ snapping[1].kind = "delete_all" /\ snapping[1].st # "pending" /\ UNCHANGED <<snapper, held>>
  BY DEF S!FinishDeleteAll, S!Tasked
<1>2. CASE snapping[1].st # "done"
  <2>1. snapping' = Tail(snapping) /\ doubtful' = doubtful \cup {S!About} /\ UNCHANGED status BY <1>2 DEF S!FinishDeleteAll
  <2> QED BY <1>1, <2>1, FinishStep
<1>3. CASE snapping[1].st = "done" /\ Len(snapping[1].about) = 1
  <2>1. snapping' = Tail(snapping) /\ status' = S!Update({S!About}, "gone") /\ UNCHANGED doubtful BY <1>3 DEF S!FinishDeleteAll
  <2> QED BY <1>1, <2>1, FinishStep
<1>4. CASE snapping[1].st = "done" /\ Len(snapping[1].about) # 1
  <2>1. /\ snapping' = [snapping EXCEPT ![1].st = "pending", ![1].about = Tail(@)]
        /\ status' = S!Update({S!About}, "gone") /\ UNCHANGED doubtful
    BY <1>4 DEF S!FinishDeleteAll
  <2>2. /\ snapping \in Seq(SnapTask) /\ 1 \in DOMAIN snapping /\ snapping[1] \in SnapTask
        /\ S!About \in S!Snaps /\ Tasks(SnapKinds, S!About)
    BY <1>1, HeadTask
  <2> DEFINE l == snapping[1].about
             t == [snapping[1] EXCEPT !.st = "pending", !.about = Tail(l)]
  <2>3. l \in Seq(S!Snaps) /\ l # <<>> /\ Len(l) # 1 BY <1>4, <2>2 DEF SnapTask, Lists
  <2>4. Tail(l) \in Seq(S!Snaps) /\ Tail(l) # <<>> /\ \A k \in DOMAIN Tail(l) : \E m \in DOMAIN l : Tail(l)[k] = l[m]
    <3> HIDE DEF l
    <3>0. Len(l) \in Nat /\ Len(l) # 0 BY <2>3
    <3>2. Tail(l) \in Seq(S!Snaps) /\ Len(Tail(l)) = Len(l) - 1 BY <2>3
    <3>3. \A k \in DOMAIN Tail(l) : k + 1 \in DOMAIN l /\ Tail(l)[k] = l[k + 1] BY <2>3
    <3>4. Tail(l) # <<>>
      <4>1. ASSUME NEW n \in Nat, n # 0, n # 1 PROVE n - 1 # 0 BY <4>1
      <4>2. Len(l) # 1 BY <2>3
      <4>3. Len(Tail(l)) # 0 BY <3>0, <3>2, <4>1, <4>2
      <4>4. \A z : z = <<>> => Len(z) = 0 OBVIOUS
      <4> QED BY ONLY <4>3, <4>4, Zenon
    <3> QED BY <3>2, <3>3, <3>4
  <2>5. Tail(l) \in Lists BY <2>4 DEF Lists
  <2>6. snapping' = [snapping EXCEPT ![1] = t] BY <2>1
  <2>7. /\ t \in SnapTask /\ t.kind = snapping[1].kind /\ t.about = Tail(l) /\ t.st = "pending"
    <3> HIDE DEF l
    <3> QED BY <1>1, <2>2, <2>5 DEF SnapTask
  <2> HIDE DEF t
  <2>8. snapping' \in Seq(SnapTask) /\ DOMAIN snapping' = DOMAIN snapping /\ snapping'[1] = t /\ \A i \in DOMAIN snapping : i # 1 => snapping'[i] = snapping[i]
    BY <2>2, <2>6, <2>7
  <2>9. OthersWait' BY <2>8 DEF SnapsInv, OthersWait
  <2>10. NothingNew
    <3> SUFFICES ASSUME NEW i \in DOMAIN snapping'
                 PROVE  \E j \in DOMAIN snapping :
                            /\ snapping'[i].kind = snapping[j].kind
                            /\ \A k \in DOMAIN snapping'[i].about : \E m \in DOMAIN snapping[j].about : snapping'[i].about[k] = snapping[j].about[m]
      BY DEF NothingNew
    <3>1. CASE i = 1
      <4>1. snapping'[i].kind = snapping[1].kind /\ snapping'[i].about = Tail(l) /\ l = snapping[1].about BY <2>7, <2>8, <3>1
      <4> HIDE DEF l
      <4>2. \A k \in DOMAIN snapping'[i].about : \E m \in DOMAIN snapping[1].about : snapping'[i].about[k] = snapping[1].about[m] BY <2>4, <4>1
      <4> QED BY <2>2, <4>1, <4>2
    <3>2. CASE i # 1 BY <2>8, <3>2
    <3> QED BY <3>1, <3>2
  <2>11. Created' BY <2>7, <2>8 DEF Created
  <2>12. /\ status' \in [S!Snaps -> SnapStatuses]
         /\ \A s \in S!Snaps : status'[s] = IF s = S!About /\ status[s] # "gone" THEN "gone" ELSE status[s]
    BY <1>1, <2>1, UpdateIs
  <2>13. ASSUME NEW s \in S!Snaps, Accounted(s) PROVE Accounted(s)'
    <3>1. Leaving(s) => s = S!About BY DEF Leaving, S!About
    <3> QED BY <1>1, <2>1, <2>12, <2>13, <3>1 DEF Accounted
  <2>14. \A s \in S!Snaps : status'[s] = status[s] \/ (Tasks(SnapKinds, s) /\ status'[s] \notin {"absent", "creating"})
    BY <2>2, <2>12
  <2> QED BY <1>1, <2>8, <2>9, <2>10, <2>11, <2>12, <2>13, <2>14, TaskStep
<1> QED BY <1>2, <1>3, <1>4

LEMMA CancelInv == ASSUME SnapsInv, NEW i \in DOMAIN snapping, S!Cancel(i) PROVE SnapsInv'
<1>1. snapping \in Seq(SnapTask) BY DEF SnapsInv, SnapsTyped
<1>2. snapping' = S!RemoveAt(snapping, i) /\ snapping[i].st = "pending" /\ UNCHANGED <<status, held, snapper, doubtful>> BY DEF S!Cancel
<1>3. /\ snapping' \in Seq(SnapTask)
      /\ \A j \in DOMAIN snapping' : Past(i, j) \in DOMAIN snapping /\ Past(i, j) # i /\ snapping'[j] = snapping[Past(i, j)]
  BY <1>1, <1>2, Removed
<1>4. i \in Nat /\ i >= 1 /\ \A j \in DOMAIN snapping' : j \in Nat /\ j >= 1 BY <1>1, <1>3
<1>5. NothingNew BY <1>3 DEF NothingNew
<1>6. \A j \in DOMAIN snapping' : j > 1 => Past(i, j) > 1 BY <1>4 DEF Past
<1>7. OthersWait' BY <1>3, <1>6 DEF SnapsInv, OthersWait
<1>8. Created'
  <2> SUFFICES ASSUME snapping' # <<>>, snapping'[1].kind = "create", snapping'[1].st = "done" PROVE snapping'[1].about[1] \in held
    BY <1>2 DEF Created
  <2>1. 1 \in DOMAIN snapping' BY <1>3
  <2>2. Past(i, 1) = 1 BY <1>3, <2>1, <1>4 DEF Past, SnapsInv, OthersWait
  <2> QED BY <1>3, <2>1, <2>2 DEF SnapsInv, Created
<1>9. ASSUME NEW s \in S!Snaps, Accounted(s) PROVE Accounted(s)'
  <2>1. ASSUME Leaving(s) PROVE Leaving(s)'
    <3>1. i > 1 BY <1>2, <1>4, <2>1 DEF Leaving
    <3>2. snapping' # <<>> /\ 1 \in DOMAIN snapping'
      <4>1. Len(snapping') = Len(snapping) - 1 BY <1>1, <1>2, Removed
      <4> QED BY <1>1, <1>3, <3>1, <4>1
    <3>3. snapping'[1] = snapping[1] BY <1>3, <3>1, <3>2 DEF Past
    <3> QED BY <2>1, <3>2, <3>3 DEF Leaving
  <2> QED BY <1>2, <1>9, <2>1 DEF Accounted
<1>10. status' \in [S!Snaps -> SnapStatuses] BY <1>2 DEF SnapsInv, SnapsTyped, SnapStatuses
<1> QED BY <1>2, <1>3, <1>5, <1>7, <1>8, <1>9, <1>10, TaskStep

-----------------------------------------------------------------------------
(* Snapshots: requests.                                                    *)

\* A request that has nothing to insert goes on: it is about what it was about, or
\* about rows that it reads. What it writes is no state that could be offered.
LEMMA RequestStep ==
    ASSUME SnapsInv, NEW r \in Callers, NEW q \in SnapRequest, WellFormed(q), q.kind # "create" \/ q.pc # "enqueue",
           snapper' = [snapper EXCEPT ![r] = q], UNCHANGED <<held, doubtful, snapping>>, status' \in [S!Snaps -> SnapStatuses],
           \A k \in DOMAIN q.about :
               \/ Asked(r, q.about[k]) /\ q.kind = snapper[r].kind
               \/ status[q.about[k]] \notin {"absent", "creating"} /\ (q.kind = "restore" => status[q.about[k]] = "ready"),
           \A s \in S!Snaps : status'[s] = status[s]
                            \/ (Asked(r, s) /\ status[s] # "gone" /\ status'[s] \in {"error", "restoring", "deleting"})
    PROVE  SnapsInv'
<1>1. \A p \in Callers : snapper'[p] = IF p = r THEN q ELSE snapper[p] BY DEF SnapsInv, SnapsTyped
<1>2. SnapsTyped' BY <1>1 DEF SnapsInv, SnapsTyped, SnapStatuses
<1>3. \A kinds, s : Tasks(kinds, s)' <=> Tasks(kinds, s) BY DEF Tasks
<1>4. \A s : Leaving(s)' <=> Leaving(s) BY DEF Leaving
<1>5. ASSUME NEW p \in Callers, NEW s \in S!Snaps, Asked(p, s)'
      PROVE  \/ Asked(p, s) /\ snapper'[p].kind = snapper[p].kind
             \/ p = r /\ status[s] \notin {"absent", "creating"} /\ (q.kind = "restore" => status[s] = "ready")
  BY <1>1, <1>5 DEF Asked
<1>6. ASSUME NEW s \in S!Snaps, status'[s] # status[s]
      PROVE  Asked(r, s) /\ status[s] # "gone" /\ status'[s] \in {"error", "restoring", "deleting"}
  BY <1>6
<1>7. NobodysYet'
  <2> SUFFICES ASSUME NEW s \in S!Snaps, status'[s] = "absent"
               PROVE  ~Tasks(SnapKinds, s) /\ \A p \in Callers : ~Asked(p, s)' BY <1>3 DEF NobodysYet
  <2>1. status[s] = "absent" BY <1>6
  <2>2. ~Tasks(SnapKinds, s) /\ \A p \in Callers : ~Asked(p, s) BY <2>1 DEF SnapsInv, NobodysYet
  <2> QED BY <1>5, <2>1, <2>2
<1>8. OwnOnly'
  <2> SUFFICES ASSUME NEW p \in Callers, snapper'[p].kind = "create", snapper'[p].pc = "enqueue"
               PROVE  \E s \in S!Snaps : /\ snapper'[p].about = <<s>> /\ status'[s] = "creating" /\ ~Tasks(SnapKinds, s)'
                                         /\ \A o \in Callers : o # p => ~Asked(o, s)'
    BY DEF OwnOnly
  <2>1. p # r /\ snapper'[p] = snapper[p] BY <1>1
  <2>2. PICK s \in S!Snaps : /\ snapper[p].about = <<s>> /\ status[s] = "creating" /\ ~Tasks(SnapKinds, s)
                             /\ \A o \in Callers : o # p => ~Asked(o, s)
    BY <2>1 DEF SnapsInv, OwnOnly
  <2>3. status'[s] = "creating" BY <1>6, <2>1, <2>2
  <2>4. \A o \in Callers : o # p => ~Asked(o, s)' BY <1>5, <2>2
  <2> QED BY <1>3, <2>1, <2>2, <2>3, <2>4
<1>9. OfferedAccounted'
  <2> SUFFICES ASSUME NEW s \in S!Snaps, Offered(s)' PROVE Accounted(s)' BY DEF OfferedAccounted
  <2>1. Offered(s)
    <3>1. CASE status'[s] = "ready" BY <1>6, <3>1 DEF Offered
    <3>2. CASE Tasks({"restore"}, s)' BY <1>3, <3>2 DEF Offered
    <3>3. CASE \E p \in Callers : snapper'[p].kind = "restore" /\ Asked(p, s)'
      <4>1. PICK p \in Callers : snapper'[p].kind = "restore" /\ Asked(p, s)' BY <3>3
      <4>2. CASE Asked(p, s) /\ snapper'[p].kind = snapper[p].kind BY <4>1, <4>2 DEF Offered
      <4>3. CASE p = r /\ (q.kind = "restore" => status[s] = "ready") BY <1>1, <4>1, <4>3 DEF Offered
      <4> QED BY <1>5, <4>1, <4>2, <4>3
    <3> QED BY <3>1, <3>2, <3>3 DEF Offered
  <2>2. Accounted(s) BY <2>1 DEF SnapsInv, OfferedAccounted
  <2>3. status[s] = "gone" => status'[s] = "gone" BY <1>6
  <2> QED BY <1>4, <2>2, <2>3 DEF Accounted
<1>10. OthersWait' /\ Created' BY DEF SnapsInv, OthersWait, Created
<1> QED BY <1>2, <1>7, <1>8, <1>9, <1>10 DEF SnapsInv

LEMMA IdleFits == S!Idle \in SnapRequest /\ WellFormed(S!Idle) /\ S!Idle.about = <<>> /\ S!Idle.kind = "none"
<1>1. <<>> \in Seq(S!Snaps) OBVIOUS
<1> QED BY <1>1 DEF S!Idle, SnapRequest, WellFormed

\* A request leaves, after what it may have written.
LEMMA LeaveStep ==
    ASSUME SnapsInv, NEW r \in Callers, S!Leave(r), UNCHANGED <<held, doubtful, snapping>>,
           status' \in [S!Snaps -> SnapStatuses],
           \A s \in S!Snaps : status'[s] = status[s]
                            \/ (Asked(r, s) /\ status[s] # "gone" /\ status'[s] \in {"error", "restoring", "deleting"})
    PROVE  SnapsInv'
<1>1. snapper' = [snapper EXCEPT ![r] = S!Idle] BY DEF S!Leave
<1>2. \A k \in DOMAIN S!Idle.about : FALSE BY IdleFits
<1> QED BY <1>1, <1>2, IdleFits, RequestStep

\* Where a request goes.
LEMMA GotoIs ==
    ASSUME SnapsInv, NEW r \in Callers, NEW pc \in {"idle", "insert", "read", "active", "enqueue", "mark"},
           NEW about \in Seq(S!Snaps), S!Goto(r, pc, about),
           pc = "insert" => snapper[r].kind = "create", snapper[r].kind = "create" => pc \in {"insert", "enqueue"},
           snapper[r].kind # "none", snapper[r].kind = "delete" => pc # "active",
           pc \in {"enqueue", "mark"} \/ (pc = "active" /\ snapper[r].kind = "restore") => about # <<>>
    PROVE  \E q \in SnapRequest : /\ snapper' = [snapper EXCEPT ![r] = q] /\ WellFormed(q)
                                  /\ q.kind = snapper[r].kind /\ q.pc = pc /\ q.about = about
<1> DEFINE q == [snapper[r] EXCEPT !.pc = pc, !.about = about]
<1>1. snapper[r] \in SnapRequest BY DEF SnapsInv, SnapsTyped
<1>2. q \in SnapRequest /\ q.kind = snapper[r].kind /\ q.pc = pc /\ q.about = about BY <1>1 DEF SnapRequest
<1>3. snapper' = [snapper EXCEPT ![r] = q] BY DEF S!Goto
<1> HIDE DEF q
<1>4. WellFormed(q) BY <1>2 DEF WellFormed
<1> QED BY <1>2, <1>3, <1>4

LEMMA RequestTyped ==
    ASSUME SnapsInv, NEW r \in Callers
    PROVE  snapper[r] \in SnapRequest /\ WellFormed(snapper[r]) /\ snapper[r].about \in Seq(S!Snaps)
BY DEF SnapsInv, SnapsTyped, SnapRequest

LEMMA SnapArriveInv == ASSUME SnapsInv, NEW r \in Callers, S!Arrive(r) PROVE SnapsInv'
<1>1. PICK k \in SnapKinds : snapper' = [snapper EXCEPT ![r] = [pc |-> S!Steps(k)[1], kind |-> k, about |-> <<>>]]
  BY DEF S!Arrive, SnapKinds
<1> DEFINE q == [pc |-> S!Steps(k)[1], kind |-> k, about |-> <<>>]
<1>2. UNCHANGED <<held, doubtful, snapping, status>> BY DEF S!Arrive
<1>3. S!Steps(k)[1] \in {"count", "read", "active"} /\ (S!Steps(k)[1] = "count" => k = "create")
      /\ (k = "create" => S!Steps(k)[1] = "count") /\ (k \in {"restore", "delete"} => S!Steps(k)[1] = "read")
  BY FirstStep DEF SnapKinds
<1>4. <<>> \in Seq(S!Snaps) OBVIOUS
<1>5. q \in SnapRequest /\ q.kind = k /\ q.pc = S!Steps(k)[1] /\ q.about = <<>> BY <1>3, <1>4 DEF SnapRequest
<1> HIDE DEF q
<1>6. WellFormed(q) BY <1>3, <1>5 DEF WellFormed, SnapKinds
<1>7. \A i \in DOMAIN q.about : FALSE BY <1>5
<1>8. snapper' = [snapper EXCEPT ![r] = q] BY <1>1 DEF q
<1>9. status' \in [S!Snaps -> SnapStatuses] BY <1>2 DEF SnapsInv, SnapsTyped, SnapStatuses
<1> QED BY <1>2, <1>3, <1>5, <1>6, <1>7, <1>8, <1>9, RequestStep

LEMMA LookInv == ASSUME SnapsInv, NEW r \in Callers, S!Count(r) \/ S!Active(r) PROVE SnapsInv'
<1>1. UNCHANGED <<held, doubtful, snapping, status>> BY DEF S!Count, S!Active
<1>2. status' \in [S!Snaps -> SnapStatuses] BY <1>1 DEF SnapsInv, SnapsTyped, SnapStatuses
<1>3. CASE S!Leave(r) BY <1>1, <1>2, <1>3, LeaveStep
<1>4. CASE S!Count(r) /\ ~S!Leave(r)
  <2>1. S!Goto(r, S!After(r), <<>>) /\ snapper[r].pc = "count" BY <1>4 DEF S!Count, S!At
  <2>2. snapper[r].kind = "create" BY <2>1, RequestTyped DEF WellFormed
  <2>3. S!After(r) = "insert" BY <2>1, <2>2, AfterIs
  <2>4. S!Goto(r, "insert", <<>>) /\ <<>> \in Seq(S!Snaps) BY <2>1, <2>3
  <2>5. PICK q \in SnapRequest : /\ snapper' = [snapper EXCEPT ![r] = q] /\ WellFormed(q)
                                 /\ q.kind = snapper[r].kind /\ q.pc = "insert" /\ q.about = <<>>
    <3>1. PICK pc \in {"idle", "insert", "read", "active", "enqueue", "mark"} : pc = "insert" OBVIOUS
    <3>2. PICK about \in Seq(S!Snaps) : about = <<>> BY <2>4
    <3>3. S!Goto(r, pc, about) BY <2>4, <3>1, <3>2
    <3>4. ~(pc \in {"enqueue", "mark"} \/ (pc = "active" /\ snapper[r].kind = "restore")) BY <3>1
    <3>5. \E q \in SnapRequest : /\ snapper' = [snapper EXCEPT ![r] = q] /\ WellFormed(q)
                                 /\ q.kind = snapper[r].kind /\ q.pc = pc /\ q.about = about
      BY <2>2, <3>1, <3>3, <3>4, GotoIs
    <3> QED BY <3>1, <3>2, <3>5
  <2>6. \A k \in DOMAIN q.about : FALSE BY <2>5
  <2> QED BY <1>1, <1>2, <2>5, <2>6, RequestStep
<1>5. CASE S!Active(r) /\ ~S!Leave(r)
  <2>1. S!Goto(r, S!After(r), snapper[r].about) /\ snapper[r].pc = "active" BY <1>5 DEF S!Active, S!At
  <2>2. snapper[r].kind \in {"restore", "delete_all"} /\ (snapper[r].kind = "restore" => snapper[r].about # <<>>)
    BY <2>1, RequestTyped DEF WellFormed, SnapRequest, SnapKinds
  <2>3. PICK about \in Seq(S!Snaps) : about = snapper[r].about BY RequestTyped
  <2>4. PICK pc \in {"read", "enqueue"} : pc = S!After(r) /\ (pc = "enqueue" => snapper[r].kind = "restore")
    BY <2>1, <2>2, AfterIs
  <2>5. S!Goto(r, pc, about) BY <2>1, <2>3, <2>4
  <2>6. PICK q \in SnapRequest : /\ snapper' = [snapper EXCEPT ![r] = q] /\ WellFormed(q)
                                 /\ q.kind = snapper[r].kind /\ q.pc = pc /\ q.about = about
    BY <2>2, <2>3, <2>4, <2>5, GotoIs
  <2>7. \A k \in DOMAIN q.about : Asked(r, q.about[k]) BY <2>3, <2>6 DEF Asked
  <2> QED BY <1>1, <1>2, <2>2, <2>6, <2>7, RequestStep
<1> QED BY <1>3, <1>4, <1>5

\* Rows that are there are no more than the bound, and neither are their lists.
LEMMA ListsOfRows ==
    ASSUME NEW Ground \in SUBSET S!Snaps, Ground # {}, NEW q \in S!NewestFirst(Ground)
    PROVE  q \in Seq(S!Snaps) /\ q # <<>> /\ \A k \in DOMAIN q : q[k] \in Ground
<1>1. MaxSnaps \in Int /\ 1 \in Int BY PartAssumptions DEF S!SnapshotAssumption
<1>2. IsFiniteSet(S!Snaps) BY <1>1, FS_Interval DEF S!Snaps
<1>3. IsFiniteSet(Ground) BY <1>2, FS_Subset
<1>4. Cardinality(Ground) \in Nat /\ Cardinality(Ground) # 0 BY <1>3, FS_CardinalityType, FS_EmptySet
<1> DEFINE n == Cardinality(Ground)
<1>5. q \in [1 .. n -> Ground] BY SameCardinality DEF S!NewestFirst
<1> HIDE DEF n
<1>6. n \in Nat /\ n # 0 BY <1>4 DEF n
<1>7. DOMAIN q = 1 .. n /\ \A k \in DOMAIN q : q[k] \in Ground BY <1>5
<1>8. q \in Seq(Ground) BY <1>5, <1>6
<1>9. 1 \in DOMAIN q BY <1>6, <1>7
<1>10. q \in Seq(S!Snaps) BY <1>5, <1>6
<1>11. q # <<>> BY <1>9
<1> QED BY <1>7, <1>10, <1>11

LEMMA ReadInv == ASSUME SnapsInv, NEW r \in Callers, S!Read(r) PROVE SnapsInv'
<1>1. UNCHANGED <<held, doubtful, snapping, status>> /\ snapper[r].pc = "read" BY DEF S!Read, S!At
<1>2. status' \in [S!Snaps -> SnapStatuses] BY <1>1 DEF SnapsInv, SnapsTyped, SnapStatuses
<1>3. CASE S!Leave(r) BY <1>1, <1>2, <1>3, LeaveStep
<1>4. CASE ~S!Leave(r)
  <2>1. \E about \in Seq(S!Snaps) :
            /\ about # <<>> /\ S!Goto(r, S!After(r), about) /\ snapper[r].kind \in {"restore", "delete", "delete_all"}
            /\ \A k \in DOMAIN about :
                   status[about[k]] \notin {"absent", "creating"} /\ (snapper[r].kind = "restore" => status[about[k]] = "ready")
    <3> DEFINE May(s) == (snapper[r].kind = "restore" /\ S!MayRestore(s)) \/ (snapper[r].kind = "delete" /\ S!MayDelete(s))
    <3>1. CASE \E s \in S!Rows : May(s) /\ S!Goto(r, S!After(r), <<s>>)
      <4>1. PICK s \in S!Rows : May(s) /\ S!Goto(r, S!After(r), <<s>>) BY <3>1
      <4>2. s \in S!Snaps /\ status[s] \notin {"absent", "creating"} /\ (snapper[r].kind = "restore" => status[s] = "ready")
        BY <4>1 DEF S!Rows, S!MayRestore, S!MayDelete
      <4>3. <<s>> \in Seq(S!Snaps) /\ <<s>> # <<>> /\ \A k \in DOMAIN <<s>> : <<s>>[k] = s BY <4>2
      <4>4. snapper[r].kind \in {"restore", "delete", "delete_all"} BY <4>1
      <4> QED BY <4>1, <4>2, <4>3, <4>4
    <3>2. CASE /\ snapper[r].kind = "delete_all"
               /\ \E skip \in {{}, current} :
                      LET Ground == {s \in S!Rows : S!MayDeleteAll(s)} \ skip
                      IN Ground # {} /\ \E q \in S!NewestFirst(Ground) : S!Goto(r, S!After(r), q)
      <4>1. PICK skip \in {{}, current} :
                LET Ground == {s \in S!Rows : S!MayDeleteAll(s)} \ skip
                IN Ground # {} /\ \E q \in S!NewestFirst(Ground) : S!Goto(r, S!After(r), q)
        BY <3>2
      <4> DEFINE Ground == {s \in S!Rows : S!MayDeleteAll(s)} \ skip
      <4>2. Ground # {} /\ \E q \in S!NewestFirst(Ground) : S!Goto(r, S!After(r), q) BY <4>1
      <4>3. Ground \subseteq S!Snaps /\ \A s \in Ground : status[s] \notin {"absent", "creating"} BY DEF S!Rows, S!MayDeleteAll
      <4> HIDE DEF Ground
      <4>4. PICK q \in S!NewestFirst(Ground) : S!Goto(r, S!After(r), q) BY <4>2
      <4>5. q \in Seq(S!Snaps) /\ q # <<>> /\ \A k \in DOMAIN q : q[k] \in Ground BY <4>2, <4>3, ListsOfRows
      <4> QED BY <3>2, <4>3, <4>4, <4>5
    <3> QED BY <1>4, <3>1, <3>2 DEF S!Read
  <2>2. PICK about \in Seq(S!Snaps) :
            /\ about # <<>> /\ S!Goto(r, S!After(r), about) /\ snapper[r].kind \in {"restore", "delete", "delete_all"}
            /\ \A k \in DOMAIN about :
                   status[about[k]] \notin {"absent", "creating"} /\ (snapper[r].kind = "restore" => status[about[k]] = "ready")
    BY <2>1
  <2>3. PICK pc \in {"active", "enqueue"} : pc = S!After(r) /\ (pc = "active" => snapper[r].kind = "restore")
    BY <1>1, <2>2, AfterIs
  <2>4. S!Goto(r, pc, about) BY <2>2, <2>3
  <2>5. PICK q \in SnapRequest : /\ snapper' = [snapper EXCEPT ![r] = q] /\ WellFormed(q)
                                 /\ q.kind = snapper[r].kind /\ q.pc = pc /\ q.about = about
    BY <2>2, <2>3, <2>4, GotoIs
  <2>6. q.kind # "create" BY <2>2, <2>5
  <2>7. \A k \in DOMAIN q.about :
            status[q.about[k]] \notin {"absent", "creating"} /\ (q.kind = "restore" => status[q.about[k]] = "ready")
    BY <2>2, <2>5
  <2> QED BY <1>1, <1>2, <2>5, <2>6, <2>7, RequestStep
<1> QED BY <1>3, <1>4

\* Marks are written where rows are still there.
LEMMA MarkInv == ASSUME SnapsInv, NEW r \in Callers, S!Mark(r) PROVE SnapsInv'
<1>1. /\ UNCHANGED <<held, doubtful, snapping>> /\ S!Leave(r)
      /\ status' = S!Update(S!ToSet(snapper[r].about), IF snapper[r].kind = "restore" THEN "restoring" ELSE "deleting")
  BY DEF S!Mark
<1>2. PICK st \in {"restoring", "deleting"} : status' = S!Update(S!ToSet(snapper[r].about), st) BY <1>1
<1>3. status \in [S!Snaps -> SnapStatuses] BY DEF SnapsInv, SnapsTyped, SnapStatuses
<1>4. status' \in [S!Snaps -> SnapStatuses] BY <1>2, <1>3 DEF S!Update, SnapStatuses
<1>5. \A s \in S!ToSet(snapper[r].about) : Asked(r, s) BY DEF S!ToSet, Asked
<1>6. \A s \in S!Snaps : status'[s] = status[s]
                         \/ (Asked(r, s) /\ status[s] # "gone" /\ status'[s] \in {"error", "restoring", "deleting"})
  BY <1>2, <1>5 DEF S!Update, S!Rows
<1> QED BY <1>1, <1>4, <1>6, LeaveStep

LEMMA EnqueueFailsInv == ASSUME SnapsInv, NEW r \in Callers, S!EnqueueFails(r) PROVE SnapsInv'
<1>1. UNCHANGED <<held, doubtful, snapping>> /\ S!Leave(r) /\ snapper[r].pc = "enqueue" BY DEF S!EnqueueFails, S!At
<1>2. status \in [S!Snaps -> SnapStatuses] BY DEF SnapsInv, SnapsTyped, SnapStatuses
<1>3. CASE snapper[r].kind # "create"
  <2>1. status' = status BY <1>3 DEF S!EnqueueFails
  <2> QED BY <1>1, <1>2, <2>1, LeaveStep
<1>4. CASE snapper[r].kind = "create"
  <2>1. PICK s \in S!Snaps : snapper[r].about = <<s>> /\ status[s] = "creating" BY <1>1, <1>4 DEF SnapsInv, OwnOnly
  <2>2. status' = [status EXCEPT ![s] = "error"] BY <1>4, <2>1 DEF S!EnqueueFails
  <2>3. Asked(r, s) BY <2>1 DEF Asked
  <2>4. status' \in [S!Snaps -> SnapStatuses] BY <1>2, <2>2 DEF SnapStatuses
  <2>5. \A t \in S!Snaps : status'[t] = IF t = s THEN "error" ELSE status[t] BY <1>2, <2>2
  <2> QED BY <1>1, <2>1, <2>3, <2>4, <2>5, LeaveStep
<1> QED BY <1>3, <1>4

LEMMA SnapInsertInv == ASSUME SnapsInv, NEW r \in Callers, S!Insert(r) PROVE SnapsInv'
<1>1. PICK s \in S!Snaps : /\ status[s] = "absent" /\ status' = [status EXCEPT ![s] = "creating"]
                           /\ S!Goto(r, S!After(r), <<s>>)
  BY DEF S!Insert
<1>2. snapper[r].pc = "insert" /\ UNCHANGED <<held, snapping, doubtful>> BY DEF S!Insert, S!At
<1>3. snapper[r].kind = "create" BY <1>2, RequestTyped DEF WellFormed
<1>4. S!Goto(r, "enqueue", <<s>>) BY <1>1, <1>2, <1>3, AfterIs
<1>5. PICK about \in Seq(S!Snaps) : about = <<s>> /\ about # <<>>
  <2>1. <<s>> \in Seq(S!Snaps) /\ <<s>> # <<>> BY <1>1
  <2> QED BY <2>1
<1>a. S!Goto(r, "enqueue", about) BY <1>4, <1>5
<1>6. PICK q \in SnapRequest : /\ snapper' = [snapper EXCEPT ![r] = q] /\ WellFormed(q)
                               /\ q.kind = snapper[r].kind /\ q.pc = "enqueue" /\ q.about = about
  <2>1. PICK pc \in {"idle", "insert", "read", "active", "enqueue", "mark"} : pc = "enqueue" OBVIOUS
  <2>2. S!Goto(r, pc, about) BY <1>a, <2>1
  <2>3. \E q \in SnapRequest : /\ snapper' = [snapper EXCEPT ![r] = q] /\ WellFormed(q)
                               /\ q.kind = snapper[r].kind /\ q.pc = pc /\ q.about = about
    <3>1. about # <<>> BY <1>5
    <3> QED BY <1>3, <2>1, <2>2, <3>1, GotoIs
  <2> QED BY <2>1, <2>3
<1>7. \A p \in Callers : snapper'[p] = IF p = r THEN q ELSE snapper[p] BY <1>6 DEF SnapsInv, SnapsTyped
<1>8. status \in [S!Snaps -> SnapStatuses] BY DEF SnapsInv, SnapsTyped, SnapStatuses
<1>9. /\ status' \in [S!Snaps -> SnapStatuses] /\ status'[s] = "creating"
      /\ \A t \in S!Snaps : t # s => status'[t] = status[t]
  BY <1>1, <1>8 DEF SnapStatuses
<1>10. SnapsTyped' BY <1>2, <1>6, <1>7, <1>9 DEF SnapsInv, SnapsTyped, SnapStatuses
<1>11. \A kinds, t : Tasks(kinds, t)' <=> Tasks(kinds, t) BY <1>2 DEF Tasks
<1>12. \A p \in Callers : \A t : Asked(p, t)' => Asked(p, t) \/ (p = r /\ t = s)
  BY <1>5, <1>6, <1>7 DEF Asked
<1>13. ~Tasks(SnapKinds, s) /\ \A p \in Callers : ~Asked(p, s) BY <1>1 DEF SnapsInv, NobodysYet
<1>14. NobodysYet' BY <1>9, <1>11, <1>12 DEF SnapsInv, NobodysYet
<1>15. OwnOnly'
  <2> SUFFICES ASSUME NEW p \in Callers, snapper'[p].kind = "create", snapper'[p].pc = "enqueue"
               PROVE  \E t \in S!Snaps : /\ snapper'[p].about = <<t>> /\ status'[t] = "creating" /\ ~Tasks(SnapKinds, t)'
                                         /\ \A o \in Callers : o # p => ~Asked(o, t)'
    BY DEF OwnOnly
  <2>1. CASE p = r
    <3>1. snapper'[p].about = <<s>> BY <1>5, <1>6, <1>7, <2>1
    <3> QED BY <1>9, <1>11, <1>12, <1>13, <2>1, <3>1
  <2>2. CASE p # r
    <3>1. snapper'[p] = snapper[p] BY <1>7, <2>2
    <3>2. PICK t \in S!Snaps : /\ snapper[p].about = <<t>> /\ status[t] = "creating" /\ ~Tasks(SnapKinds, t)
                               /\ \A o \in Callers : o # p => ~Asked(o, t)
      BY <3>1 DEF SnapsInv, OwnOnly
    <3>3. t # s BY <1>1, <3>2
    <3>4. status'[t] = "creating" BY <1>9, <3>2, <3>3
    <3>5. \A o \in Callers : o # p => ~Asked(o, t)' BY <1>12, <3>2, <3>3
    <3> QED BY <1>11, <3>1, <3>2, <3>4, <3>5
  <2> QED BY <2>1, <2>2
<1>16. OfferedAccounted'
  <2> SUFFICES ASSUME NEW t \in S!Snaps, Offered(t)' PROVE Accounted(t)' BY DEF OfferedAccounted
  <2>1. Offered(t) /\ status'[t] = status[t]
    <3>1. t # s
      <4>1. ASSUME NEW p \in Callers, snapper'[p].kind = "restore" PROVE ~Asked(p, s)'
        <5>1. p # r BY <1>3, <1>6, <1>7, <4>1
        <5> QED BY <1>12, <1>13, <5>1
      <4>2. ~Tasks({"restore"}, s) BY <1>13 DEF Tasks, SnapKinds
      <4>3. ~Tasks({"restore"}, s)' BY <1>11, <4>2
      <4> QED BY <1>9, <4>1, <4>3 DEF Offered
    <3>2. status'[t] = status[t] BY <1>9, <3>1
    <3>3. ASSUME NEW p \in Callers, snapper'[p].kind = "restore", Asked(p, t)' PROVE snapper[p].kind = "restore" /\ Asked(p, t)
      <4>1. p # r BY <1>3, <1>6, <1>7, <3>3
      <4> QED BY <1>7, <1>12, <3>3, <4>1
    <3> QED BY <1>11, <3>2, <3>3 DEF Offered
  <2>2. Accounted(t) BY <2>1 DEF SnapsInv, OfferedAccounted
  <2> QED BY <1>2, <2>1, <2>2 DEF Accounted, Leaving
<1>17. OthersWait' /\ Created' BY <1>2 DEF SnapsInv, OthersWait, Created
<1> QED BY <1>10, <1>14, <1>15, <1>16, <1>17 DEF SnapsInv

LEMMA SnapEnqueueInv == ASSUME SnapsInv, NEW r \in Callers, S!Enqueue(r) PROVE SnapsInv'
<1> DEFINE t == [kind |-> snapper[r].kind, about |-> snapper[r].about, st |-> "pending"]
<1>1. snapper[r].pc = "enqueue" /\ UNCHANGED <<status, held, doubtful>> /\ snapping' = Append(snapping, t) BY DEF S!Enqueue, S!At
<1>2. /\ snapper[r].kind \in SnapKinds /\ snapper[r].about \in Seq(S!Snaps) /\ snapper[r].about # <<>>
      /\ snapper[r] \in SnapRequest
  BY <1>1, RequestTyped DEF WellFormed, SnapRequest
<1>3. t \in SnapTask BY <1>2 DEF SnapTask, Lists
<1>4. t.kind = snapper[r].kind /\ t.about = snapper[r].about /\ t.st = "pending" OBVIOUS
<1> HIDE DEF t
<1>5. \E q \in SnapRequest :
          /\ snapper' = [snapper EXCEPT ![r] = q] /\ WellFormed(q) /\ q.kind # "create"
          /\ q.about = <<>> \/ (q.about = snapper[r].about /\ q.kind = snapper[r].kind)
  <2>1. CASE S!Leave(r) BY <2>1, IdleFits DEF S!Leave
  <2>2. CASE ~S!Leave(r)
    <3>1. S!Goto(r, S!After(r), snapper[r].about) /\ S!After(r) # "idle" BY <2>2 DEF S!Enqueue
    <3>2. snapper[r].kind # "create" /\ S!After(r) = "mark" BY <1>1, <1>2, <3>1, AfterIs DEF SnapKinds
    <3>3. PICK about \in Seq(S!Snaps) : about = snapper[r].about BY <1>2
    <3>4. S!Goto(r, "mark", about) BY <3>1, <3>2, <3>3
    <3>5. PICK q \in SnapRequest : /\ snapper' = [snapper EXCEPT ![r] = q] /\ WellFormed(q)
                                   /\ q.kind = snapper[r].kind /\ q.pc = "mark" /\ q.about = about
      BY <1>2, <3>2, <3>3, <3>4, GotoIs DEF SnapKinds
    <3> QED BY <3>2, <3>3, <3>5
  <2> QED BY <2>1, <2>2
<1>6. PICK q \in SnapRequest :
          /\ snapper' = [snapper EXCEPT ![r] = q] /\ WellFormed(q) /\ q.kind # "create"
          /\ q.about = <<>> \/ (q.about = snapper[r].about /\ q.kind = snapper[r].kind)
  BY <1>5
<1>7. \A p \in Callers : snapper'[p] = IF p = r THEN q ELSE snapper[p] BY <1>6 DEF SnapsInv, SnapsTyped
<1>8. snapping \in Seq(SnapTask) BY DEF SnapsInv, SnapsTyped
<1>9. /\ snapping' \in Seq(SnapTask) /\ snapping' # <<>>
      /\ \A i \in DOMAIN snapping' : (i \in DOMAIN snapping /\ snapping'[i] = snapping[i]) \/ snapping'[i] = t
      /\ snapping # <<>> => snapping'[1] = snapping[1]
      /\ snapping = <<>> => snapping'[1] = t
  BY <1>1, <1>3, <1>8
<1>10. SnapsTyped' BY <1>1, <1>6, <1>7, <1>9 DEF SnapsInv, SnapsTyped
<1>11. OthersWait' BY <1>4, <1>9 DEF SnapsInv, OthersWait
<1>12. Created' BY <1>1, <1>4, <1>9 DEF SnapsInv, Created
<1>13. ASSUME NEW kinds, NEW s, Tasks(kinds, s)' PROVE Tasks(kinds, s) \/ (snapper[r].kind \in kinds /\ Asked(r, s))
  <2>1. PICK i \in DOMAIN snapping' : snapping'[i].kind \in kinds /\ \E k \in DOMAIN snapping'[i].about : snapping'[i].about[k] = s
    BY <1>13 DEF Tasks
  <2>2. CASE i \in DOMAIN snapping /\ snapping'[i] = snapping[i] BY <2>1, <2>2 DEF Tasks
  <2>3. CASE snapping'[i] = t BY <1>4, <2>1, <2>3 DEF Asked
  <2> QED BY <1>9, <2>2, <2>3
<1>14. ASSUME NEW p \in Callers, NEW s, Asked(p, s)' PROVE Asked(p, s) /\ snapper'[p].kind = snapper[p].kind
  BY <1>6, <1>7, <1>14 DEF Asked
<1>15. NobodysYet' BY <1>1, <1>13, <1>14 DEF SnapsInv, NobodysYet
<1>16. OwnOnly'
  <2> SUFFICES ASSUME NEW p \in Callers, snapper'[p].kind = "create", snapper'[p].pc = "enqueue"
               PROVE  \E s \in S!Snaps : /\ snapper'[p].about = <<s>> /\ status'[s] = "creating" /\ ~Tasks(SnapKinds, s)'
                                         /\ \A o \in Callers : o # p => ~Asked(o, s)'
    BY DEF OwnOnly
  <2>1. p # r /\ snapper'[p] = snapper[p] BY <1>6, <1>7
  <2>2. PICK s \in S!Snaps : /\ snapper[p].about = <<s>> /\ status[s] = "creating" /\ ~Tasks(SnapKinds, s)
                             /\ \A o \in Callers : o # p => ~Asked(o, s)
    BY <2>1 DEF SnapsInv, OwnOnly
  <2>3. ~Tasks(SnapKinds, s)' BY <1>13, <2>1, <2>2
  <2>4. \A o \in Callers : o # p => ~Asked(o, s)' BY <1>14, <2>2
  <2> QED BY <1>1, <2>1, <2>2, <2>3, <2>4
<1>17. OfferedAccounted'
  <2> SUFFICES ASSUME NEW s \in S!Snaps, Offered(s)' PROVE Accounted(s)' BY DEF OfferedAccounted
  <2>1. Offered(s)
    <3>1. CASE status'[s] = "ready" BY <1>1, <3>1 DEF Offered
    <3>2. CASE Tasks({"restore"}, s)' BY <1>13, <3>2 DEF Offered
    <3>3. CASE \E p \in Callers : snapper'[p].kind = "restore" /\ Asked(p, s)' BY <1>14, <3>3 DEF Offered
    <3> QED BY <3>1, <3>2, <3>3 DEF Offered
  <2>2. Accounted(s) BY <2>1 DEF SnapsInv, OfferedAccounted
  <2>3. Leaving(s) => Leaving(s)' BY <1>9 DEF Leaving
  <2> QED BY <1>1, <2>2, <2>3 DEF Accounted
<1> QED BY <1>10, <1>11, <1>12, <1>15, <1>16, <1>17 DEF SnapsInv

LEMMA SnapsNextInv == ASSUME SnapsInv, [S!Next]_S!vars PROVE SnapsInv'
<1>1. CASE UNCHANGED S!vars
  <2>1. UNCHANGED <<status, held, snapping, snapper, doubtful>> BY <1>1 DEF S!vars
  <2>2. (\A kinds, s : Tasks(kinds, s)' <=> Tasks(kinds, s)) /\ (\A r, s : Asked(r, s)' <=> Asked(r, s))
    BY <2>1 DEF Tasks, Asked
  <2>3. SnapsTyped' /\ OthersWait' /\ Created' BY <2>1 DEF SnapsInv, SnapsTyped, OthersWait, Created
  <2>4. NobodysYet' /\ OwnOnly' BY <2>1, <2>2 DEF SnapsInv, NobodysYet, OwnOnly
  <2>5. OfferedAccounted' BY <2>1, <2>2 DEF SnapsInv, OfferedAccounted, Offered, Accounted, Leaving
  <2> QED BY <2>3, <2>4, <2>5 DEF SnapsInv
<1>2. ASSUME NEW r \in Callers, S!Arrive(r) \/ S!Request(r) PROVE SnapsInv'
  BY <1>2, SnapArriveInv, LookInv, SnapInsertInv, ReadInv, SnapEnqueueInv, EnqueueFailsInv, MarkInv DEF S!Request
<1>3. CASE S!Node \/ S!Finish BY <1>3, NodeInv, FinishOneInv, FinishDeleteAllInv DEF S!Finish
<1>4. ASSUME NEW i \in DOMAIN snapping, S!Cancel(i) PROVE SnapsInv' BY <1>4, CancelInv
<1> QED BY <1>1, <1>2, <1>3, <1>4 DEF S!Next

-----------------------------------------------------------------------------
(* Templates: the invariant.                                               *)

DiskOps == {"overlay", "copy", "merge", "backup", "rebuild", "redefine", "purge"}
Steps == [op : DiskOps, file : Machines, to : Int]
    \cup [op : {"begin", "verify"}, file : T!Templates, to : Machines]
    \cup [op : {"remove", "reparent"}, file : T!Templates, to : Int]

MachineKinds == {"linked", "full", "independent", "reinstall", "purge", "prepare"}
TemplateKinds == {"delete", "rebase", "flatten", "promote_child", "promote_delete"}
TemplateTask == [kind : MachineKinds \cup TemplateKinds, on : T!Templates \cup Machines, template : Int,
                 ids : SUBSET T!Templates, to : Int, todo : Seq(Steps)]
Does(kind) ==
    CASE kind = "linked" -> {"overlay"}
      [] kind = "full" -> {"copy"}
      [] kind = "independent" -> {"merge"}
      [] kind = "purge" -> {"purge"}
      [] kind = "reinstall" -> {"backup", "rebuild", "redefine"}
      [] kind = "prepare" -> {"begin", "verify"}
      [] OTHER -> {"remove", "reparent"}

\* What a task is about.
Subject(k) ==
    /\ k.kind \in MachineKinds => k.on \in Machines
    /\ k.kind \in TemplateKinds => k.on \in T!Templates
    /\ k.kind = "prepare" => k.template \in T!Templates

\* The steps of reinstalling and of preparing come one after the other.
InTurn(q) ==
    \A i \in DOMAIN q : i > 1 =>
        /\ q[i].op = "rebuild" => q[i - 1].op = "backup" /\ q[i - 1].file = q[i].file
        /\ q[i].op = "redefine" => q[i - 1].op = "rebuild" /\ q[i - 1].file = q[i].file
        /\ q[i].op = "verify" => q[i - 1].op = "begin" /\ q[i - 1].file = q[i].file

StepFits(k, s) ==
    /\ s.op \in Does(k.kind)
    /\ s.op \in DiskOps => s.file = k.on
    /\ s.op \in {"begin", "verify"} => s.file = k.template
    /\ s.op = "remove" => s.file \in T!Removals(k)

EndsWith(k, op) == k.todo # <<>> => k.todo[Len(k.todo)].op = op

Fit(x) ==
    {k \in TemplateTask :
        /\ T!Lock(k) = x /\ Subject(k) /\ InTurn(k.todo) /\ \A i \in DOMAIN k.todo : StepFits(k, k.todo[i])
        /\ k.kind = "reinstall" => EndsWith(k, "redefine")
        /\ k.kind = "prepare" => EndsWith(k, "verify")}

\* How far a task is.
Rebuilds(k) == k.todo # <<>> /\ Head(k.todo).op = "rebuild"
Renewed(k) ==
    \/ k.kind \in {"full", "independent"} /\ k.todo = <<>>
    \/ k.kind = "reinstall" /\ (k.todo = <<>> \/ Head(k.todo).op = "redefine")
Copied(k) == k.kind = "prepare" /\ (k.todo = <<>> \/ Head(k.todo).op = "verify")
Untouched(k) == ~Rebuilds(k) /\ ~Renewed(k) /\ ~Copied(k)

Remainder == {q \in Seq(Steps) : q # <<>> /\ InTurn(q)}

Draft == {k \in TemplateTask : k.todo = <<>> /\ Subject(k)}
Ended == [pc : {"enqueue"}, task : Draft]
Deleting == [pc : {"clones", "children", "promote"}, template : T!Templates, strategy : {"none", "cascade", "promote"}]
Actions == {"rebase", "flatten", "promote_child", "promote_delete"}
Reading == [pc : {"parent"}, template : T!Templates, action : Actions, child : Int]
Choosing == [pc : {"choose"}, template : T!Templates, action : Actions, child : Int, to : Int]
TemplateRequest == {T!Idle} \cup Ended \cup Deleting \cup Reading \cup Choosing

RowType == [state : {"none", "ready", "deleted"}, parent : Int]
MachineType == [mode : {"none", "linked", "full"}, from : Int, backup : BOOLEAN]

TablesTyped ==
    /\ table \in [T!Templates -> RowType]
    /\ machine \in [Machines -> MachineType]
FilesTyped ==
    /\ image \in [T!Templates -> Int]
    /\ files \in [Machines -> Int] /\ saved \in [Machines -> Int]
QueuesTyped == DOMAIN queue = T!Locks /\ \A x \in T!Locks : queue[x] \in Seq(Fit(x))
LateTyped == running \subseteq Remainder
RequestsTyped == handler \in [Cloners -> TemplateRequest]

\* What a removal is about is in the table.
Known == {t \in T!Templates : table[t].state # "none"}
QueuesKnown == \A x \in T!Locks : \A i \in DOMAIN queue[x] : T!Removals(queue[x][i]) \subseteq Known
RequestKnown(s) ==
    /\ s.pc = "enqueue" => T!Removals(s.task) \subseteq Known
    /\ s.pc \in {"clones", "children", "promote", "parent", "choose"} => s.template \in Known
RequestsKnown == \A r \in Cloners : RequestKnown(handler[r])
LateKnown == \A q \in running : \A i \in DOMAIN q : q[i].op = "remove" => q[i].file \in lapsed
RemovesKnown == QueuesKnown /\ RequestsKnown /\ LateKnown

Waits == \A x \in T!Locks : \A i \in DOMAIN queue[x] : i > 1 => Untouched(queue[x][i])

Rebuilding(q, m) == q # <<>> /\ Head(q).op = "rebuild" /\ Head(q).file = m
Ahead(m) == T!Running(m) /\ Rebuilds(T!Current(m))
Behind(m) == \E q \in running : Rebuilding(q, m)
Firm(m) ==
    \/ machine[m].mode = "full"
    \/ \E x \in {m, T!Node} : T!Running(x) /\ T!Current(x).on = m /\ Renewed(T!Current(x))
Pending(m) == Ahead(m) \/ Behind(m)
OneRebuild(m) == ~(Ahead(m) /\ Behind(m)) /\ \A p, q \in running : Rebuilding(p, m) /\ Rebuilding(q, m) => p = q
SetAside(m) == Pending(m) => files[m] = T!NoFile /\ m \in defined
StaysAlone(m) ==
    Firm(m) => m \in defined /\ files[m] \in {T!Alone, T!NoFile} /\ (Pending(m) => saved[m] \in {T!Alone, T!NoFile})
MachineSafe(m) == OneRebuild(m) /\ SetAside(m) /\ StaysAlone(m)
MachinesSafe == \A m \in Machines \ torn : MachineSafe(m)

Removing(x, t) == T!Running(x) /\ t \in T!Removals(T!Current(x))
Pardoned(t) == table[t].state = "deleted" \/ t \in lapsed \/ \E x \in T!Locks : Removing(x, t)
Copying(x, t) == T!Running(x) /\ T!Current(x).template = t /\ Copied(T!Current(x))
Checking(q, t) == q # <<>> /\ Head(q).op = "verify" /\ Head(q).file = t
NoCopy(t) == (\A x \in T!Locks : ~Copying(x, t)) /\ \A q \in running : ~Checking(q, t)
AtMostOne(t) ==
    /\ \A x, y \in T!Locks : Copying(x, t) /\ Copying(y, t) => x = y
    /\ \A x \in T!Locks : \A q \in running : ~(Copying(x, t) /\ Checking(q, t))
    /\ \A p, q \in running : Checking(p, t) /\ Checking(q, t) => p = q
CopyIsNew(t) == NoCopy(t) \/ (table[t].state = "none" /\ image[t] # T!NoFile /\ AtMostOne(t))
HasDisk(t) == T!Alive(t) => image[t] # T!NoFile
TemplateSafe(t) == Pardoned(t) \/ (CopyIsNew(t) /\ HasDisk(t))
TemplatesSafe == \A t \in T!Templates : TemplateSafe(t)

TemplatesTyped == TablesTyped /\ FilesTyped /\ QueuesTyped /\ LateTyped /\ RequestsTyped
TemplatesInv == TemplatesTyped /\ RemovesKnown /\ Waits /\ MachinesSafe /\ TemplatesSafe

-----------------------------------------------------------------------------
(* Templates: steps and tasks.                                             *)

LEMMA StepIs ==
    ASSUME NEW s \in Steps
    PROVE  /\ s.op \in DiskOps => s.file \in Machines /\ s.to \in Int
           /\ s.op \in {"begin", "verify"} => s.file \in T!Templates /\ s.to \in Machines
           /\ s.op \in {"remove", "reparent"} => s.file \in T!Templates /\ s.to \in Int
           /\ s.op \in DiskOps \cup {"begin", "verify", "remove", "reparent"}
BY DEF Steps, DiskOps

LEMMA HeadOf ==
    ASSUME NEW E, NEW q \in Seq(E), q # <<>>
    PROVE  /\ Head(q) = q[1] /\ Head(q) \in E /\ Tail(q) \in Seq(E) /\ Len(q) \in Nat /\ 1 \in DOMAIN q
           /\ DOMAIN q = 1 .. Len(q) /\ DOMAIN Tail(q) = 1 .. Len(q) - 1 /\ Len(Tail(q)) = Len(q) - 1
           /\ \A i \in DOMAIN Tail(q) : i + 1 \in DOMAIN q /\ Tail(q)[i] = q[i + 1]
<1>1. Len(q) \in Nat /\ Len(q) # 0 /\ DOMAIN q = 1 .. Len(q) BY EmptySeq
<1>2. Head(q) = q[1] /\ q[1] \in E BY <1>1
<1>3. Tail(q) \in Seq(E) /\ Len(Tail(q)) = Len(q) - 1 /\ \A i \in 1 .. Len(q) - 1 : Tail(q)[i] = q[i + 1]
  BY <1>1, HeadTailProperties
<1>4. DOMAIN Tail(q) = 1 .. Len(q) - 1 BY <1>3
<1> QED BY <1>1, <1>2, <1>3, <1>4

LEMMA TailEmpty ==
    ASSUME NEW E, NEW q \in Seq(E), q # <<>>, Tail(q) = <<>>
    PROVE  Head(q) = q[Len(q)]
<1>1. Len(Tail(q)) = Len(q) - 1 /\ Len(q) \in Nat /\ Head(q) = q[1] BY HeadOf
<1>2. \A z : z = <<>> => Len(z) = 0 OBVIOUS
<1>3. Len(Tail(q)) = 0 BY <1>2, Zenon
<1>4. \A n \in Nat : n - 1 = 0 => n = 1 OBVIOUS
<1>5. Len(q) - 1 = 0 BY <1>1, <1>3, Zenon
<1> QED BY <1>1, <1>4, <1>5, Zenon

LEMMA TailHead ==
    ASSUME NEW E, NEW q \in Seq(E), q # <<>>, Tail(q) # <<>>
    PROVE  2 \in DOMAIN q /\ Head(Tail(q)) = q[2] /\ Head(q) = q[1]
<1>1. /\ Head(q) = q[1] /\ Tail(q) \in Seq(E) /\ Len(q) \in Nat
      /\ \A i \in DOMAIN Tail(q) : i + 1 \in DOMAIN q /\ Tail(q)[i] = q[i + 1]
  BY HeadOf
<1>2. Head(Tail(q)) = Tail(q)[1] /\ 1 \in DOMAIN Tail(q) BY <1>1, HeadOf
<1> QED BY <1>1, <1>2

LEMMA InTurnTail ==
    ASSUME NEW q \in Seq(Steps), q # <<>>, InTurn(q)
    PROVE  /\ InTurn(Tail(q))
           /\ Tail(q) # <<>> =>
                /\ Head(Tail(q)).op = "rebuild" => Head(q).op = "backup" /\ Head(q).file = Head(Tail(q)).file
                /\ Head(Tail(q)).op = "redefine" => Head(q).op = "rebuild" /\ Head(q).file = Head(Tail(q)).file
                /\ Head(Tail(q)).op = "verify" => Head(q).op = "begin" /\ Head(q).file = Head(Tail(q)).file
<1>1. /\ \A i \in DOMAIN Tail(q) : i + 1 \in DOMAIN q /\ Tail(q)[i] = q[i + 1]
      /\ DOMAIN Tail(q) = 1 .. Len(q) - 1 /\ Len(q) \in Nat
  BY HeadOf
<1>2. ASSUME NEW i \in DOMAIN Tail(q), i > 1
      PROVE  i - 1 \in DOMAIN Tail(q) /\ Tail(q)[i] = q[i + 1] /\ Tail(q)[i - 1] = q[(i + 1) - 1]
             /\ i + 1 \in DOMAIN q /\ i + 1 > 1
  <2>1. i - 1 \in DOMAIN Tail(q) /\ (i - 1) + 1 = (i + 1) - 1 /\ i + 1 > 1 BY <1>1, <1>2
  <2> QED BY <1>1, <2>1
<1>3. InTurn(Tail(q)) BY <1>2 DEF InTurn
<1>4. CASE Tail(q) # <<>>
  <2>1. 2 \in DOMAIN q /\ Head(Tail(q)) = q[2] /\ Head(q) = q[2 - 1] /\ 2 > 1 BY <1>4, TailHead
  <2> QED BY <1>3, <2>1 DEF InTurn
<1> QED BY <1>3, <1>4

LEMMA TailFits ==
    ASSUME NEW x, NEW k \in Fit(x), k.todo # <<>>, NEW n, n = [k EXCEPT !.todo = Tail(@)]
    PROVE  /\ n \in Fit(x) /\ n.todo = Tail(k.todo) /\ n.kind = k.kind /\ n.on = k.on /\ n.template = k.template
           /\ T!Removals(n) = T!Removals(k) /\ T!Lock(k) = x /\ Subject(k)
           /\ Head(k.todo) \in Steps /\ StepFits(k, Head(k.todo))
           /\ Rebuilds(n) => Head(k.todo).op = "backup"
           /\ Renewed(n) => Renewed(k) \/ Head(k.todo).op \in {"copy", "merge", "rebuild"}
           /\ Copied(n) => Copied(k) \/ Head(k.todo).op = "begin"
<1> DEFINE q == k.todo
<1>1. k \in TemplateTask /\ T!Lock(k) = x /\ Subject(k) /\ InTurn(q) /\ \A i \in DOMAIN q : StepFits(k, q[i]) BY DEF Fit
<1>2. q \in Seq(Steps) BY <1>1 DEF TemplateTask
<1>3. /\ Head(q) = q[1] /\ Head(q) \in Steps /\ Tail(q) \in Seq(Steps) /\ 1 \in DOMAIN q
      /\ \A i \in DOMAIN Tail(q) : i + 1 \in DOMAIN q /\ Tail(q)[i] = q[i + 1]
  BY <1>2, HeadOf
<1>4. n \in TemplateTask /\ n.todo = Tail(q) /\ n.kind = k.kind /\ n.on = k.on /\ n.template = k.template /\ n.ids = k.ids
  BY <1>1, <1>3 DEF TemplateTask
<1>5. T!Removals(n) = T!Removals(k) /\ T!Lock(n) = T!Lock(k) /\ Subject(n) BY <1>1, <1>4 DEF T!Removals, T!Lock, Subject
<1>6. \A s : StepFits(n, s) <=> StepFits(k, s) BY <1>4, <1>5 DEF StepFits
<1>7. \A i \in DOMAIN n.todo : StepFits(n, n.todo[i]) BY <1>1, <1>3, <1>4, <1>6
<1>8. InTurn(n.todo) BY <1>1, <1>2, <1>4, InTurnTail
<1>9. ASSUME NEW op, EndsWith(k, op) PROVE EndsWith(n, op)
  <2>1. CASE Tail(q) # <<>>
    <3>1. Len(Tail(q)) = Len(q) - 1 /\ Len(q) \in Nat /\ DOMAIN Tail(q) = 1 .. Len(q) - 1 BY <1>2, HeadOf
    <3>2. Len(Tail(q)) # 0 BY <1>3, <2>1, EmptySeq
    <3>5. \A c \in Nat : c # 0 /\ c - 1 # 0 => c - 1 \in 1 .. c - 1 /\ (c - 1) + 1 = c OBVIOUS
    <3>6. Len(q) # 0 /\ Len(q) - 1 # 0 BY <1>2, <3>1, <3>2, EmptySeq, Zenon
    <3>3. Len(q) - 1 \in DOMAIN Tail(q) /\ (Len(q) - 1) + 1 = Len(q) BY <3>1, <3>5, <3>6, Zenon
    <3>4. Tail(q)[Len(Tail(q))] = q[Len(q)] BY <1>3, <3>1, <3>3
    <3> QED BY <1>4, <1>9, <3>4 DEF EndsWith
  <2> QED BY <1>4, <2>1 DEF EndsWith
<1>10. n \in Fit(x) BY <1>1, <1>4, <1>5, <1>7, <1>8, <1>9 DEF Fit
<1>11. StepFits(k, Head(q)) BY <1>1, <1>3
<1>12. Tail(q) # <<>> =>
         /\ Head(Tail(q)).op = "rebuild" => Head(q).op = "backup"
         /\ Head(Tail(q)).op = "redefine" => Head(q).op = "rebuild"
         /\ Head(Tail(q)).op = "verify" => Head(q).op = "begin"
  BY <1>1, <1>2, InTurnTail
<1>13. Rebuilds(n) => Head(q).op = "backup" BY <1>4, <1>12 DEF Rebuilds
<1>14. Tail(q) = <<>> => Head(q) = q[Len(q)] BY <1>2, TailEmpty
<1>15. Head(q).op \in Does(k.kind) BY <1>11 DEF StepFits
<1>16. ASSUME Renewed(n) PROVE Renewed(k) \/ Head(q).op \in {"copy", "merge", "rebuild"}
  <2>1. CASE k.kind \in {"full", "independent"} BY <1>15, <2>1 DEF Does
  <2>2. CASE k.kind = "reinstall"
    <3>1. Tail(q) = <<>> \/ Head(Tail(q)).op = "redefine" BY <1>4, <1>16, <2>2 DEF Renewed
    <3>2. CASE Tail(q) = <<>>
      <4>1. EndsWith(k, "redefine") BY <2>2 DEF Fit
      <4>2. Head(q).op = "redefine" BY <1>14, <3>2, <4>1 DEF EndsWith
      <4> QED BY <2>2, <4>2 DEF Renewed
    <3>3. CASE Tail(q) # <<>> BY <1>12, <3>1, <3>3
    <3> QED BY <3>2, <3>3
  <2>3. k.kind \in {"full", "independent", "reinstall"} BY <1>4, <1>16 DEF Renewed
  <2> QED BY <2>1, <2>2, <2>3
<1>17. ASSUME Copied(n) PROVE Copied(k) \/ Head(q).op = "begin"
  <2>1. k.kind = "prepare" /\ (Tail(q) = <<>> \/ Head(Tail(q)).op = "verify") BY <1>4, <1>17 DEF Copied
  <2>2. CASE Tail(q) = <<>>
    <3>1. EndsWith(k, "verify") BY <2>1 DEF Fit
    <3>2. Head(q).op = "verify" BY <1>14, <2>2, <3>1 DEF EndsWith
    <3> QED BY <2>1, <3>2 DEF Copied
  <2>3. CASE Tail(q) # <<>> BY <1>12, <2>1, <2>3
  <2> QED BY <2>2, <2>3
<1> QED BY <1>1, <1>3, <1>4, <1>5, <1>10, <1>11, <1>13, <1>16, <1>17

-----------------------------------------------------------------------------
(* Templates: the queues.                                                  *)

LEMMA CurrentFits ==
    ASSUME QueuesTyped, NEW x \in T!Locks, T!Running(x)
    PROVE  T!Current(x) \in Fit(x) /\ T!Current(x) = queue[x][1] /\ 1 \in DOMAIN queue[x] /\ T!Current(x).todo \in Seq(Steps)
<1>1. queue[x] \in Seq(Fit(x)) /\ queue[x] # <<>> BY DEF QueuesTyped, T!Running
<1>2. T!Current(x) \in Fit(x) /\ T!Current(x) = queue[x][1] /\ 1 \in DOMAIN queue[x] BY <1>1, HeadOf DEF T!Current
<1> QED BY <1>2 DEF Fit, TemplateTask

Others(x) == \A y \in T!Locks : y # x => (T!Running(y)' <=> T!Running(y)) /\ T!Current(y)' = T!Current(y)

LEMMA AfterDrop ==
    ASSUME QueuesTyped, Waits, NEW x \in T!Locks, T!Running(x), T!Drop(x)
    PROVE  /\ QueuesTyped' /\ Waits' /\ Others(x)
           /\ T!Running(x)' => Untouched(T!Current(x)')
           /\ \A y \in T!Locks : \A i \in DOMAIN queue'[y] : \E j \in DOMAIN queue[y] : queue'[y][i] = queue[y][j]
<1>1. queue[x] \in Seq(Fit(x)) /\ queue[x] # <<>> BY DEF QueuesTyped, T!Running
<1>2. DOMAIN queue' = T!Locks /\ queue'[x] = Tail(queue[x]) /\ \A y \in T!Locks : y # x => queue'[y] = queue[y]
  BY DEF T!Drop, QueuesTyped
<1>3. /\ Tail(queue[x]) \in Seq(Fit(x)) /\ DOMAIN Tail(queue[x]) = 1 .. Len(queue[x]) - 1 /\ Len(queue[x]) \in Nat
      /\ \A i \in DOMAIN Tail(queue[x]) : i + 1 \in DOMAIN queue[x] /\ Tail(queue[x])[i] = queue[x][i + 1]
  BY <1>1, HeadOf
<1>4. QueuesTyped' BY <1>2, <1>3 DEF QueuesTyped
<1>5. ASSUME NEW i \in DOMAIN queue'[x] PROVE Untouched(queue'[x][i]) /\ i + 1 \in DOMAIN queue[x] /\ queue'[x][i] = queue[x][i + 1]
  <2>1. i + 1 \in DOMAIN queue[x] /\ queue'[x][i] = queue[x][i + 1] BY <1>2, <1>3
  <2>2. i + 1 > 1 BY <1>2, <1>3
  <2> QED BY <2>1, <2>2 DEF Waits
<1>6. Waits'
  <2> SUFFICES ASSUME NEW y \in T!Locks, NEW i \in DOMAIN queue'[y], i > 1 PROVE Untouched(queue'[y][i])
    BY DEF Waits, Untouched, Rebuilds, Renewed, Copied
  <2>1. CASE y = x BY <1>5, <2>1
  <2>2. CASE y # x BY <1>2, <2>2 DEF Waits
  <2> QED BY <2>1, <2>2
<1>7. Others(x) BY <1>2 DEF Others, T!Running, T!Current
<1>8. ASSUME T!Running(x)' PROVE Untouched(T!Current(x)')
  <2>1. queue'[x] # <<>> /\ queue'[x] \in Seq(Fit(x)) BY <1>2, <1>3, <1>8 DEF T!Running
  <2>2. Head(queue'[x]) = queue'[x][1] /\ 1 \in DOMAIN queue'[x] BY <2>1, HeadOf
  <2> QED BY <1>5, <2>2 DEF T!Current
<1>9. ASSUME NEW y \in T!Locks, NEW i \in DOMAIN queue'[y] PROVE \E j \in DOMAIN queue[y] : queue'[y][i] = queue[y][j]
  <2>1. CASE y = x BY <1>5, <2>1
  <2>2. CASE y # x BY <1>2, <2>2
  <2> QED BY <2>1, <2>2
<1> QED BY <1>4, <1>6, <1>7, <1>8, <1>9

\* What one step of the task that runs changes.
LEMMA AfterStep ==
    ASSUME QueuesTyped, Waits, NEW x \in T!Locks, T!Running(x), T!Current(x).todo # <<>>,
           queue' = [queue EXCEPT ![x] = <<[T!Current(x) EXCEPT !.todo = Tail(@)]>> \o Tail(queue[x])]
    PROVE  /\ QueuesTyped' /\ Waits' /\ Others(x)
           /\ T!Running(x)' /\ T!Current(x)' = [T!Current(x) EXCEPT !.todo = Tail(@)]
           /\ \A y \in T!Locks : \A i \in DOMAIN queue'[y] :
                 \E j \in DOMAIN queue[y] : T!Removals(queue'[y][i]) = T!Removals(queue[y][j])
<1> DEFINE q == queue[x]
<1>1. PICK n : n = [T!Current(x) EXCEPT !.todo = Tail(@)] OBVIOUS
<1>2. q \in Seq(Fit(x)) /\ q # <<>> BY DEF QueuesTyped, T!Running
<1>3. T!Current(x) \in Fit(x) /\ T!Current(x) = q[1] /\ 1 \in DOMAIN q BY CurrentFits
<1>4. n \in Fit(x) /\ T!Removals(n) = T!Removals(T!Current(x)) BY <1>1, <1>3, TailFits
<1>5. /\ Tail(q) \in Seq(Fit(x)) /\ DOMAIN Tail(q) = 1 .. Len(q) - 1 /\ Len(q) \in Nat /\ Len(Tail(q)) = Len(q) - 1
      /\ \A i \in DOMAIN Tail(q) : i + 1 \in DOMAIN q /\ Tail(q)[i] = q[i + 1]
  BY <1>2, HeadOf
<1>6. DOMAIN q = 1 .. Len(q) BY <1>2
<1>7. PICK p : p = <<n>> \o Tail(q) OBVIOUS
<1>8. /\ p \in Seq(Fit(x)) /\ Len(p) = Len(q) /\ p[1] = n
      /\ \A i \in DOMAIN p : i > 1 => i \in DOMAIN q /\ p[i] = q[i]
  <2>1. <<n>> \in Seq(Fit(x)) /\ Len(<<n>>) = 1 /\ <<n>>[1] = n BY <1>4
  <2>2. p \in Seq(Fit(x)) /\ Len(p) = 1 + Len(Tail(q)) BY <1>5, <1>7, <2>1, ConcatProperties
  <2>3. \A i \in 1 .. Len(p) : p[i] = IF i <= 1 THEN <<n>>[i] ELSE Tail(q)[i - 1]
    BY <1>5, <1>7, <2>1, ConcatProperties
  <2>4. Len(p) = Len(q) BY <1>5, <2>2
  <2>5. 1 \in 1 .. Len(p) BY <1>3, <1>6, <2>4
  <2>6. p[1] = n BY <2>1, <2>3, <2>5
  <2>7. ASSUME NEW i \in DOMAIN p, i > 1 PROVE i \in DOMAIN q /\ p[i] = q[i]
    <3>4. p \in Seq(Fit(x)) BY <2>2
    <3>1. DOMAIN p = 1 .. Len(p) BY <3>4
    <3>2. i \in 1 .. Len(q) /\ i - 1 \in 1 .. Len(q) - 1 /\ (i - 1) + 1 = i BY <1>5, <2>4, <2>7, <3>1
    <3>3. p[i] = Tail(q)[i - 1] BY <2>3, <2>4, <2>7, <3>2
    <3> QED BY <1>5, <1>6, <3>2, <3>3
  <2> QED BY <2>2, <2>4, <2>6, <2>7
<1>9. DOMAIN queue' = T!Locks /\ queue'[x] = p /\ \A y \in T!Locks : y # x => queue'[y] = queue[y]
  BY <1>1, <1>7 DEF QueuesTyped
<1>10. QueuesTyped' BY <1>8, <1>9 DEF QueuesTyped
<1>11. Waits'
  <2> SUFFICES ASSUME NEW y \in T!Locks, NEW i \in DOMAIN queue'[y], i > 1 PROVE Untouched(queue'[y][i])
    BY DEF Waits, Untouched, Rebuilds, Renewed, Copied
  <2>1. CASE y = x BY <1>8, <1>9, <2>1 DEF Waits
  <2>2. CASE y # x BY <1>9, <2>2 DEF Waits
  <2> QED BY <2>1, <2>2
<1>12. Others(x) BY <1>9 DEF Others, T!Running, T!Current
<1>13. Len(p) # 0 BY <1>3, <1>5, <1>6, <1>8
<1>14. p # <<>> BY <1>13
<1>15. Head(p) = n BY <1>8, <1>14, HeadOf
<1>16. T!Running(x)' /\ T!Current(x)' = n BY <1>9, <1>14, <1>15 DEF T!Running, T!Current
<1>17. ASSUME NEW y \in T!Locks, NEW i \in DOMAIN queue'[y]
       PROVE  \E j \in DOMAIN queue[y] : T!Removals(queue'[y][i]) = T!Removals(queue[y][j])
  <2>1. CASE y # x BY <1>9, <2>1
  <2>2. CASE y = x /\ i > 1 BY <1>8, <1>9, <2>2
  <2>3. CASE y = x /\ ~(i > 1)
    <3>1. DOMAIN p = 1 .. Len(p) BY <1>8
    <3>2. i = 1 BY <1>9, <2>3, <3>1
    <3> QED BY <1>3, <1>4, <1>8, <1>9, <2>3, <3>2
  <2> QED BY <2>1, <2>2, <2>3
<1> QED BY <1>1, <1>10, <1>11, <1>12, <1>16, <1>17

LEMMA AfterAppend ==
    ASSUME QueuesTyped, Waits, NEW x \in T!Locks, NEW n \in Fit(x), Untouched(n),
           queue' = [queue EXCEPT ![x] = Append(@, n)]
    PROVE  /\ QueuesTyped' /\ Waits' /\ Others(x)
           /\ T!Running(x)' /\ (T!Running(x) => T!Current(x)' = T!Current(x)) /\ (~T!Running(x) => T!Current(x)' = n)
           /\ \A y \in T!Locks : \A i \in DOMAIN queue'[y] :
                 queue'[y][i] = n \/ \E j \in DOMAIN queue[y] : queue'[y][i] = queue[y][j]
<1> DEFINE q == queue[x]
<1>1. q \in Seq(Fit(x)) BY DEF QueuesTyped
<1>2. PICK p : p = Append(q, n) OBVIOUS
<1>3. /\ p \in Seq(Fit(x)) /\ Len(p) = Len(q) + 1 /\ Len(q) \in Nat /\ p[Len(q) + 1] = n
      /\ \A i \in 1 .. Len(q) : p[i] = q[i]
  BY <1>1, <1>2, AppendProperties
<1>4. DOMAIN p = 1 .. Len(q) + 1 /\ DOMAIN q = 1 .. Len(q) BY <1>1, <1>3
<1>5. ASSUME NEW i \in DOMAIN p PROVE p[i] = n \/ (i \in DOMAIN q /\ p[i] = q[i])
  <2>1. i \in 1 .. Len(q) \/ i = Len(q) + 1 BY <1>3, <1>4
  <2> QED BY <1>3, <1>4, <2>1
<1>6. DOMAIN queue' = T!Locks /\ queue'[x] = p /\ \A y \in T!Locks : y # x => queue'[y] = queue[y]
  BY <1>2 DEF QueuesTyped
<1>7. QueuesTyped' BY <1>3, <1>6 DEF QueuesTyped
<1>8. Waits'
  <2> SUFFICES ASSUME NEW y \in T!Locks, NEW i \in DOMAIN queue'[y], i > 1 PROVE Untouched(queue'[y][i])
    BY DEF Waits, Untouched, Rebuilds, Renewed, Copied
  <2>1. CASE y = x BY <1>5, <1>6, <2>1 DEF Waits
  <2>2. CASE y # x BY <1>6, <2>2 DEF Waits
  <2> QED BY <2>1, <2>2
<1>9. Others(x) BY <1>6 DEF Others, T!Running, T!Current
<1>10. p # <<>> BY <1>3
<1>11. Head(p) = p[1] BY <1>3, <1>10, HeadOf
<1>12. CASE T!Running(x)
  <2>1. q # <<>> BY <1>12 DEF T!Running
  <2>2. Head(q) = q[1] /\ 1 \in DOMAIN q BY <1>1, <2>1, HeadOf
  <2> QED BY <1>3, <1>4, <1>5, <1>6, <1>7, <1>8, <1>9, <1>10, <1>11, <1>12, <2>2 DEF T!Running, T!Current
<1>13. CASE ~T!Running(x)
  <2>1. q = <<>> BY <1>13 DEF T!Running
  <2>2. Len(q) = 0 BY <2>1
  <2> QED BY <1>3, <1>5, <1>6, <1>7, <1>8, <1>9, <1>10, <1>11, <1>13, <2>2 DEF T!Running, T!Current
<1> QED BY <1>12, <1>13

-----------------------------------------------------------------------------
(* Templates: what a step on the node does to the files.                   *)

LEMMA ReadableIs == T!Readable \subseteq Int /\ T!NoFile \notin T!Readable /\ T!Alone \in Int /\ T!NoFile \in Int /\ T!NoFile # T!Alone
<1>1. Originals \in Int BY PartAssumptions DEF T!TemplatesAssumption
<1>2. T!Readable \subseteq {T!Alone} \cup T!Templates BY DEF T!Readable
<1> QED BY <1>1, <1>2 DEF T!Templates, T!Alone, T!NoFile

SameDisk(m) == files'[m] = files[m] /\ saved'[m] = saved[m]

LEMMA DoFiles ==
    ASSUME FilesTyped, NEW s \in Steps, T!Can(s), T!Do(s)
    PROVE  /\ FilesTyped' /\ torn' = torn /\ defined \subseteq defined'
           /\ \A m \in Machines : ~(s.op \in DiskOps /\ s.file = m) => SameDisk(m)
           /\ \A t \in T!Templates : ~(s.op \in {"begin", "remove", "reparent"} /\ s.file = t) => image'[t] = image[t]
<1>1. s.op \in DiskOps => s.file \in Machines /\ s.to \in Int BY StepIs
<1>2. s.op \in {"begin", "remove", "reparent"} => s.file \in T!Templates /\ (s.op # "begin" => s.to \in Int)
  BY StepIs
<1>3. CASE s.op \in {"overlay", "copy", "merge", "rebuild"}
  <2>1. UNCHANGED <<image, saved, torn>> /\ files' = [files EXCEPT ![s.file] = T!Backing(s)] /\ defined \subseteq defined'
    BY <1>3 DEF T!Do
  <2>2. T!Backing(s) \in Int /\ s.op \in DiskOps BY <1>1, <1>3, ReadableIs DEF T!Backing, DiskOps
  <2> QED BY <1>3, <2>1, <2>2 DEF FilesTyped, SameDisk
<1>4. CASE s.op \in {"begin", "remove", "reparent"}
  <2>1. PICK v : v = CASE s.op = "begin" -> T!Alone [] s.op = "remove" -> T!NoFile [] OTHER -> s.to OBVIOUS
  <2>2. v \in Int BY <1>2, <1>4, <2>1, ReadableIs
  <2>3. UNCHANGED <<files, saved, defined, torn>> /\ image' = [image EXCEPT ![s.file] = v] BY <1>4, <2>1 DEF T!Do
  <2> QED BY <1>4, <2>2, <2>3 DEF FilesTyped, SameDisk, DiskOps
<1>5. CASE s.op = "backup"
  <2>1. /\ UNCHANGED <<image, defined, torn>> /\ saved' = [saved EXCEPT ![s.file] = files[s.file]]
        /\ files' = [files EXCEPT ![s.file] = T!NoFile]
    BY <1>5 DEF T!Do
  <2> QED BY <1>1, <1>5, <2>1, ReadableIs DEF FilesTyped, SameDisk, DiskOps
<1>6. CASE s.op = "purge"
  <2>1. UNCHANGED <<image, files, defined, torn>> /\ saved' = [saved EXCEPT ![s.file] = T!NoFile] BY <1>6 DEF T!Do
  <2> QED BY <1>1, <1>6, <2>1, ReadableIs DEF FilesTyped, SameDisk, DiskOps
<1>7. CASE s.op = "redefine" BY <1>7 DEF T!Do, FilesTyped, SameDisk
<1>8. CASE s.op = "verify" BY <1>8 DEF T!Do, T!Files, FilesTyped, SameDisk
<1> QED BY <1>3, <1>4, <1>5, <1>6, <1>7, <1>8, StepIs DEF DiskOps

LEMMA UndoFiles ==
    ASSUME FilesTyped, NEW s \in Steps, T!Undo(s)
    PROVE  /\ FilesTyped' /\ torn \subseteq torn'
           /\ \A m \in Machines \ torn' : m \in defined => m \in defined'
           /\ \A m \in Machines \ torn' : ~(s.op = "rebuild" /\ s.file = m) => SameDisk(m)
           /\ \A t \in T!Templates : ~(s.op = "verify" /\ s.file = t) => image'[t] = image[t]
<1>1. s.op \in DiskOps => s.file \in Machines BY StepIs
<1>2. CASE s.op \in {"rebuild", "redefine"}
  <2>1. T!PutBack(s.file) /\ s.file \in Machines BY <1>1, <1>2 DEF T!Undo, DiskOps
  <2>2. FilesTyped' /\ image' = image /\ \A m \in Machines : m # s.file => SameDisk(m)
    BY <2>1, ReadableIs DEF FilesTyped, T!PutBack, SameDisk
  <2>3. torn \subseteq torn' /\ (s.op = "redefine" => s.file \in torn')
        /\ \A m \in Machines \ torn' : m \in defined => m \in defined'
    BY <1>2 DEF T!Undo
  <2> QED BY <1>2, <2>2, <2>3
<1>3. CASE s.op = "verify"
  <2>1. image' = [image EXCEPT ![s.file] = T!NoFile] /\ UNCHANGED <<files, saved, defined, torn>> BY <1>3 DEF T!Undo
  <2> QED BY <1>3, <2>1, ReadableIs DEF FilesTyped, SameDisk
<1>4. CASE s.op \notin {"rebuild", "redefine", "verify"}
  <2>1. T!Files BY <1>4 DEF T!Undo
  <2> QED BY <2>1 DEF T!Files, FilesTyped, SameDisk
<1> QED BY <1>2, <1>3, <1>4

-----------------------------------------------------------------------------
(* Templates: one machine.                                                 *)

LEMMA MachineStays ==
    ASSUME NEW m \in Machines, MachineSafe(m), OneRebuild(m)', Pending(m)' => Pending(m), Firm(m)' => Firm(m),
           SameDisk(m), m \in defined => m \in defined'
    PROVE  MachineSafe(m)'
BY DEF MachineSafe, SetAside, StaysAlone, SameDisk

LEMMA DiskStep ==
    ASSUME FilesTyped, NEW m \in Machines, MachineSafe(m), NEW s \in Steps, s.op \in DiskOps, s.file = m,
           T!Can(s), T!Do(s), OneRebuild(m)',
           s.op # "backup" => (Pending(m)' => Pending(m)),
           s.op = "rebuild" => Pending(m) /\ ~Pending(m)',
           Firm(m)' => Firm(m) \/ s.op \in {"copy", "merge", "rebuild"}
    PROVE  MachineSafe(m)'
<1>1. SetAside(m) /\ StaysAlone(m) BY DEF MachineSafe
<1>2. CASE s.op \in {"overlay", "copy"}
  <2>1. m \notin defined BY <1>2 DEF T!Can
  <2>2. ~Pending(m)' /\ ~Firm(m) BY <1>1, <1>2, <2>1 DEF SetAside, StaysAlone
  <2>3. CASE s.op = "overlay" BY <2>2, <2>3 DEF MachineSafe, SetAside, StaysAlone
  <2>4. CASE s.op = "copy"
    <3>1. m \in defined' /\ files'[m] = T!Alone BY <2>4 DEF T!Do, T!Backing, FilesTyped
    <3> QED BY <2>2, <3>1 DEF MachineSafe, SetAside, StaysAlone
  <2> QED BY <1>2, <2>3, <2>4
<1>3. CASE s.op = "merge"
  <2>1. m \in defined /\ files[m] \in T!Readable BY <1>3 DEF T!Can
  <2>2. ~Pending(m)' BY <1>1, <1>3, <2>1, ReadableIs DEF SetAside
  <2>3. m \in defined' /\ files'[m] = T!Alone BY <1>3, <2>1 DEF T!Do, T!Backing, FilesTyped
  <2> QED BY <2>2, <2>3 DEF MachineSafe, SetAside, StaysAlone
<1>4. CASE s.op = "backup"
  <2>1. m \in defined /\ files[m] # T!NoFile BY <1>4 DEF T!Can
  <2>2. m \in defined' /\ files'[m] = T!NoFile /\ saved'[m] = files[m] BY <1>4, <2>1 DEF T!Do, FilesTyped
  <2>3. Firm(m)' => files[m] = T!Alone BY <1>1, <1>4, <2>1 DEF StaysAlone
  <2> QED BY <2>2, <2>3 DEF MachineSafe, SetAside, StaysAlone
<1>5. CASE s.op = "rebuild"
  <2>1. m \in defined BY <1>1, <1>5 DEF SetAside
  <2>2. m \in defined' /\ files'[m] = T!Alone BY <1>5, <2>1 DEF T!Do, T!Backing, FilesTyped
  <2> QED BY <1>5, <2>2 DEF MachineSafe, SetAside, StaysAlone
<1>6. CASE s.op = "redefine"
  <2>1. SameDisk(m) /\ defined \subseteq defined' BY <1>6 DEF T!Do, SameDisk
  <2> QED BY <1>6, <2>1, MachineStays
<1>7. CASE s.op = "purge"
  <2>1. files' = files /\ saved'[m] = T!NoFile /\ defined' = defined BY <1>7 DEF T!Do, FilesTyped
  <2> QED BY <1>1, <1>7, <2>1 DEF MachineSafe, SetAside, StaysAlone
<1> QED BY <1>2, <1>3, <1>4, <1>5, <1>6, <1>7 DEF DiskOps

LEMMA DiskUndo ==
    ASSUME FilesTyped, NEW m \in Machines, MachineSafe(m), NEW s \in Steps, s.op = "rebuild", s.file = m,
           T!Undo(s), OneRebuild(m)', Pending(m) /\ ~Pending(m)', Firm(m)' => Firm(m)
    PROVE  MachineSafe(m)'
<1>1. T!PutBack(m) /\ defined' = defined BY DEF T!Undo
<1>2. m \in defined /\ files[m] = T!NoFile /\ (Firm(m) => saved[m] \in {T!Alone, T!NoFile})
  BY DEF MachineSafe, SetAside, StaysAlone
<1>3. files'[m] = IF saved[m] = T!NoFile THEN files[m] ELSE saved[m] BY <1>1 DEF T!PutBack, FilesTyped
<1> QED BY <1>1, <1>2, <1>3 DEF MachineSafe, SetAside, StaysAlone

-----------------------------------------------------------------------------
(* Templates: the heads of the queues.                                     *)

LEMMA LocksAre ==
    /\ T!Node \in T!Locks /\ Machines \subseteq T!Locks /\ T!Templates \subseteq T!Locks
    /\ T!Node \notin Machines /\ T!Node \notin T!Templates /\ T!Templates \cap Machines = {}
<1>1. Originals \in Nat /\ Machines \cap (0 .. Originals) = {} BY PartAssumptions DEF T!TemplatesAssumption
<1> QED BY <1>1 DEF T!Locks, T!Node, T!Templates

\* Where no task gets further, but another may take its turn.
NoNews == \A y \in T!Locks : T!Running(y)' => Untouched(T!Current(y)') \/ (T!Running(y) /\ T!Current(y)' = T!Current(y))

LEMMA NoNewsHeads ==
    ASSUME NoNews
    PROVE  /\ \A m \in Machines : Ahead(m)' => Ahead(m)
           /\ \A m \in Machines : Firm(m)' => Firm(m) \/ machine'[m].mode = "full"
           /\ \A x \in T!Locks : \A t \in T!Templates : Copying(x, t)' => Copying(x, t)
<1>1. \A m \in Machines : Ahead(m)' => Ahead(m)
  BY LocksAre DEF NoNews, Ahead, Untouched
<1>2. ASSUME NEW m \in Machines, Firm(m)' PROVE Firm(m) \/ machine'[m].mode = "full"
  <2>1. CASE machine'[m].mode = "full" BY <2>1
  <2>2. CASE machine'[m].mode # "full"
    <3>1. PICK x \in {m, T!Node} : T!Running(x)' /\ (T!Current(x).on)' = m /\ Renewed(T!Current(x))'
      BY <1>2, <2>2 DEF Firm
    <3>2. x \in T!Locks BY LocksAre
    <3>3. T!Running(x) /\ T!Current(x)' = T!Current(x) BY <3>1, <3>2 DEF NoNews, Untouched, Renewed
    <3>4. T!Current(x).on = m /\ Renewed(T!Current(x)) BY <3>1, <3>3 DEF Renewed
    <3> QED BY <3>3, <3>4 DEF Firm
  <2> QED BY <2>1, <2>2
<1>3. \A x \in T!Locks : \A t \in T!Templates : Copying(x, t)' => Copying(x, t)
  BY DEF NoNews, Copying, Untouched
<1> QED BY <1>1, <1>2, <1>3

LEMMA DropHeads ==
    ASSUME QueuesTyped, Waits, NEW x \in T!Locks, T!Running(x), T!Drop(x)
    PROVE  /\ NoNews /\ (x \in Machines => ~Ahead(x)') /\ \A t \in T!Templates : ~Copying(x, t)'
           /\ \A y \in T!Locks : \A t \in T!Templates : Removing(y, t) => y = x \/ Removing(y, t)'
<1>1. Others(x) /\ (T!Running(x)' => Untouched(T!Current(x)')) BY AfterDrop
<1>2. NoNews BY <1>1 DEF NoNews, Others
<1>3. (x \in Machines => ~Ahead(x)') /\ \A t \in T!Templates : ~Copying(x, t)'
  BY <1>1 DEF Ahead, Copying, Untouched, Rebuilds, Copied
<1>4. \A y \in T!Locks : \A t \in T!Templates : Removing(y, t) => y = x \/ Removing(y, t)'
  BY <1>1 DEF Others, Removing, T!Removals
<1> QED BY <1>2, <1>3, <1>4

LEMMA SameHeads ==
    ASSUME queue' = queue
    PROVE  NoNews /\ \A y \in T!Locks : \A t \in T!Templates : Removing(y, t) => Removing(y, t)'
BY DEF NoNews, T!Running, T!Current, Removing, T!Removals

\* The step of the task that runs.
LEMMA StepOf ==
    ASSUME QueuesTyped, NEW x \in T!Locks, T!Running(x), T!Current(x).todo # <<>>,
           NEW s, s = Head(T!Current(x).todo)
    PROVE  /\ s \in Steps /\ StepFits(T!Current(x), s) /\ s.op \in Does(T!Current(x).kind)
           /\ s.op \in DiskOps => s.file = T!Current(x).on
           /\ s.op \in {"begin", "verify"} => s.file = T!Current(x).template
           /\ s.op \in {"backup", "rebuild", "redefine"} => T!Current(x).kind = "reinstall" /\ s.file = x /\ x \in Machines
           /\ s.op = "rebuild" => Rebuilds(T!Current(x)) /\ Ahead(x)
           /\ s.op \in {"begin", "verify"} => T!Current(x).kind = "prepare"
           /\ s.op = "verify" => Copying(x, s.file)
           /\ s.op = "remove" => s.file \in T!Removals(T!Current(x)) /\ s.file \in T!Templates
<1> DEFINE k == T!Current(x)
<1>1. k \in Fit(x) /\ k.todo \in Seq(Steps) BY CurrentFits
<1>2. s \in Steps /\ StepFits(k, s) /\ T!Lock(k) = x /\ Subject(k)
  <2>1. PICK n : n = [k EXCEPT !.todo = Tail(@)] OBVIOUS
  <2> QED BY <1>1, <2>1, TailFits
<1>3. s.op \in Does(k.kind) BY <1>2 DEF StepFits
<1>4. s.op \in {"backup", "rebuild", "redefine"} => k.kind = "reinstall" BY <1>3 DEF Does
<1>5. s.op \in {"begin", "verify"} => k.kind = "prepare" BY <1>3 DEF Does
<1>6. s.op \in DiskOps => s.file = k.on BY <1>2 DEF StepFits
<1>7. s.op \in {"begin", "verify"} => s.file = k.template BY <1>2 DEF StepFits
<1>8. ASSUME s.op \in {"backup", "rebuild", "redefine"} PROVE s.file = x /\ x \in Machines
  <2>1. k.on = x /\ x \in Machines BY <1>2, <1>4, <1>8 DEF T!Lock, Subject, MachineKinds
  <2> QED BY <1>6, <1>8, <2>1 DEF DiskOps
<1>9. s.op = "rebuild" => Rebuilds(k) /\ Ahead(x) BY DEF Rebuilds, Ahead
<1>10. s.op = "verify" => Copying(x, s.file) BY <1>5, <1>7 DEF Copying, Copied
<1>11. s.op = "remove" => s.file \in T!Removals(k) /\ s.file \in T!Templates BY <1>2, StepIs DEF StepFits
<1> QED BY <1>2, <1>3, <1>4, <1>5, <1>6, <1>7, <1>8, <1>9, <1>10, <1>11

LEMMA StepHeads ==
    ASSUME QueuesTyped, Waits, NEW x \in T!Locks, T!Running(x), T!Current(x).todo # <<>>,
           NEW s, s = Head(T!Current(x).todo), machine' = machine,
           queue' = [queue EXCEPT ![x] = <<[T!Current(x) EXCEPT !.todo = Tail(@)]>> \o Tail(queue[x])]
    PROVE  /\ \A m \in Machines : Ahead(m)' => Ahead(m) \/ (s.op = "backup" /\ s.file = m)
           /\ \A m \in Machines : Firm(m)' => Firm(m) \/ (s.op \in {"copy", "merge", "rebuild"} /\ s.file = m)
           /\ \A m \in Machines : s.op = "rebuild" /\ s.file = m => Ahead(m) /\ ~Ahead(m)'
           /\ \A y \in T!Locks : \A t \in T!Templates :
                Copying(y, t)' => Copying(y, t) \/ (s.op = "begin" /\ s.file = t /\ y = x)
           /\ \A y \in T!Locks : \A t \in T!Templates : Removing(y, t) => Removing(y, t)'
<1> DEFINE k == T!Current(x)
<1>1. PICK n : n = [k EXCEPT !.todo = Tail(@)] OBVIOUS
<1>2. Others(x) /\ T!Running(x)' /\ T!Current(x)' = n BY <1>1, AfterStep
<1>3. k \in Fit(x) BY CurrentFits
<1>4. /\ n.kind = k.kind /\ n.on = k.on /\ n.template = k.template /\ T!Removals(n) = T!Removals(k)
      /\ Rebuilds(n) => s.op = "backup"
      /\ Renewed(n) => Renewed(k) \/ s.op \in {"copy", "merge", "rebuild"}
      /\ Copied(n) => Copied(k) \/ s.op = "begin"
  BY <1>1, <1>3, TailFits
<1>5. /\ s.op \in DiskOps => s.file = k.on
      /\ s.op = "begin" => s.file = k.template
      /\ s.op \in {"backup", "rebuild"} => s.file = x
      /\ s.op = "rebuild" => Ahead(x)
  BY StepOf
<1>6. \A y \in T!Locks : y # x => (T!Running(y)' <=> T!Running(y)) /\ T!Current(y)' = T!Current(y) BY <1>2 DEF Others
<1>7. ASSUME NEW m \in Machines, Ahead(m)' PROVE Ahead(m) \/ (s.op = "backup" /\ s.file = m)
  <2>1. CASE m = x
    <3>1. Rebuilds(n) BY <1>2, <1>7, <2>1 DEF Ahead, Rebuilds
    <3> QED BY <1>4, <1>5, <2>1, <3>1
  <2>2. CASE m # x BY <1>6, <1>7, <2>2, LocksAre DEF Ahead, Rebuilds
  <2> QED BY <2>1, <2>2
<1>8. ASSUME NEW m \in Machines, Firm(m)'
      PROVE  Firm(m) \/ (s.op \in {"copy", "merge", "rebuild"} /\ s.file = m)
  <2>1. CASE machine[m].mode = "full" BY <2>1 DEF Firm
  <2>2. CASE machine[m].mode # "full"
    <3>1. PICK y \in {m, T!Node} : T!Running(y)' /\ (T!Current(y).on)' = m /\ Renewed(T!Current(y))'
      BY <1>8, <2>2 DEF Firm
    <3>2. y \in T!Locks BY LocksAre
    <3>3. CASE y = x
      <4>1. n.on = m /\ Renewed(n) BY <1>2, <3>1, <3>3 DEF Renewed
      <4>2. CASE Renewed(k) BY <1>4, <3>3, <4>1, <4>2 DEF Firm
      <4>3. CASE s.op \in {"copy", "merge", "rebuild"} BY <1>4, <1>5, <4>1, <4>3 DEF DiskOps
      <4> QED BY <1>4, <4>1, <4>2, <4>3
    <3>4. CASE y # x
      <4>1. T!Running(y) /\ T!Current(y)' = T!Current(y) BY <1>6, <3>1, <3>2, <3>4
      <4>2. T!Current(y).on = m /\ Renewed(T!Current(y)) BY <3>1, <4>1 DEF Renewed
      <4> QED BY <4>1, <4>2 DEF Firm
    <3> QED BY <3>3, <3>4
  <2> QED BY <2>1, <2>2
<1>9. ASSUME NEW m \in Machines, s.op = "rebuild", s.file = m PROVE Ahead(m) /\ ~Ahead(m)'
  <2>1. m = x /\ ~Rebuilds(n) BY <1>4, <1>5, <1>9
  <2> QED BY <1>2, <1>5, <1>9, <2>1 DEF Ahead, Rebuilds
<1>10. ASSUME NEW y \in T!Locks, NEW t \in T!Templates, Copying(y, t)'
       PROVE  Copying(y, t) \/ (s.op = "begin" /\ s.file = t /\ y = x)
  <2>1. CASE y = x
    <3>1. n.template = t /\ Copied(n) BY <1>2, <1>10, <2>1 DEF Copying, Copied
    <3> QED BY <1>4, <1>5, <2>1, <3>1 DEF Copying
  <2>2. CASE y # x BY <1>6, <1>10, <2>2 DEF Copying, Copied
  <2> QED BY <2>1, <2>2
<1>11. ASSUME NEW y \in T!Locks, NEW t \in T!Templates, Removing(y, t) PROVE Removing(y, t)'
  <2>1. CASE y = x
    <3>1. t \in T!Removals(n) BY <1>4, <1>11, <2>1 DEF Removing
    <3> QED BY <1>2, <2>1, <3>1 DEF Removing, T!Removals
  <2>2. CASE y # x BY <1>6, <1>11, <2>2 DEF Removing, T!Removals
  <2> QED BY <2>1, <2>2
<1> QED BY <1>7, <1>8, <1>9, <1>10, <1>11

-----------------------------------------------------------------------------
(* Templates: every machine, at every step of a task.                      *)

\* Where no new disk is set aside.
LEMMA RebuildStays ==
    ASSUME NEW m, OneRebuild(m), running' = running, Ahead(m)' => Ahead(m) \/ ~Pending(m)
    PROVE  OneRebuild(m)' /\ (Pending(m)' => Pending(m) \/ Ahead(m)')
BY DEF OneRebuild, Pending, Behind, Rebuilding

LEMMA OneMoreLate ==
    ASSUME NEW m, NEW q, OneRebuild(m), running' \subseteq running \cup {q}, Ahead(m)' => Ahead(m),
           Rebuilding(q, m) => Ahead(m) /\ ~Ahead(m)'
    PROVE  OneRebuild(m)' /\ (Pending(m)' => Pending(m))
<1>1. Behind(m)' => Behind(m) \/ Rebuilding(q, m) BY DEF Behind, Rebuilding
<1>2. Ahead(m) => \A p \in running : ~Rebuilding(p, m) BY DEF OneRebuild, Behind
<1>3. \A p \in running' : p \in running \/ p = q OBVIOUS
<1>4. \A p, r \in running' : Rebuilding(p, m) /\ Rebuilding(r, m) => p = r BY <1>2, <1>3 DEF OneRebuild
<1>5. ~(Ahead(m)' /\ Behind(m)') BY <1>1 DEF OneRebuild
<1>6. Pending(m)' => Pending(m) BY <1>1 DEF Pending
<1>7. \A p, r \in running' : Rebuilding(p, m)' /\ Rebuilding(r, m)' => p = r BY <1>4 DEF Rebuilding
<1> QED BY <1>5, <1>6, <1>7 DEF OneRebuild

LEMMA LateGoesOn ==
    ASSUME NEW m, NEW q \in running, NEW p, OneRebuild(m), running' \subseteq (running \ {q}) \cup {p}, Ahead(m)' => Ahead(m),
           Rebuilding(p, m) => ~Pending(m)
    PROVE  /\ OneRebuild(m)'
           /\ ~Rebuilding(p, m) => (Pending(m)' => Pending(m))
           /\ Rebuilding(q, m) /\ ~Rebuilding(p, m) => Pending(m) /\ ~Pending(m)'
<1>1. \A r \in running' : r = p \/ (r \in running /\ r # q) OBVIOUS
<1>2. Behind(m)' => Rebuilding(p, m) \/ \E r \in running : r # q /\ Rebuilding(r, m) BY <1>1 DEF Behind, Rebuilding
<1>3. ~(Ahead(m)' /\ Behind(m)') BY <1>2 DEF OneRebuild, Pending, Behind
<1>4. \A r, z \in running' : Rebuilding(r, m)' /\ Rebuilding(z, m)' => r = z
  BY <1>1 DEF OneRebuild, Pending, Behind, Rebuilding
<1>5. ~Rebuilding(p, m) => (Pending(m)' => Pending(m)) BY <1>2 DEF Pending, Behind
<1>6. ASSUME Rebuilding(q, m), ~Rebuilding(p, m) PROVE Pending(m) /\ ~Pending(m)'
  <2>1. Behind(m) /\ ~Ahead(m) BY <1>6 DEF OneRebuild, Behind
  <2>2. ~Behind(m)' BY <1>2, <1>6 DEF OneRebuild
  <2> QED BY <2>1, <2>2 DEF Pending
<1> QED BY <1>3, <1>4, <1>5, <1>6 DEF OneRebuild

LEMMA MachinesDone ==
    ASSUME TemplatesTyped, Waits, MachinesSafe, NEW x \in T!Locks, T!Running(x), T!Current(x).todo # <<>>,
           NEW s, s = Head(T!Current(x).todo), T!Can(s), T!Do(s), machine' = machine, running' = running,
           queue' = [queue EXCEPT ![x] = <<[T!Current(x) EXCEPT !.todo = Tail(@)]>> \o Tail(queue[x])]
    PROVE  MachinesSafe'
<1> USE DEF TemplatesTyped
<1>1. s \in Steps BY StepOf
<1>2. /\ torn' = torn /\ defined \subseteq defined'
      /\ \A m \in Machines : ~(s.op \in DiskOps /\ s.file = m) => SameDisk(m)
  BY <1>1, DoFiles
<1>3. /\ \A m \in Machines : Ahead(m)' => Ahead(m) \/ (s.op = "backup" /\ s.file = m)
      /\ \A m \in Machines : Firm(m)' => Firm(m) \/ (s.op \in {"copy", "merge", "rebuild"} /\ s.file = m)
      /\ \A m \in Machines : s.op = "rebuild" /\ s.file = m => Ahead(m) /\ ~Ahead(m)'
  BY StepHeads
<1>4. SUFFICES ASSUME NEW m \in Machines \ torn PROVE MachineSafe(m)' BY <1>2 DEF MachinesSafe
<1>5. MachineSafe(m) BY DEF MachinesSafe
<1>6. s.op = "backup" /\ s.file = m => ~Pending(m) BY <1>5 DEF T!Can, MachineSafe, SetAside
<1>7. OneRebuild(m)' /\ (Pending(m)' => Pending(m) \/ Ahead(m)')
  <2>1. OneRebuild(m) /\ (Ahead(m)' => Ahead(m) \/ ~Pending(m)) BY <1>3, <1>5, <1>6 DEF MachineSafe
  <2> QED BY <2>1, RebuildStays
<1>8. ~(s.op = "backup" /\ s.file = m) => (Pending(m)' => Pending(m)) BY <1>3, <1>7 DEF Pending
<1>9. CASE s.op \in DiskOps /\ s.file = m
  <2>1. ASSUME s.op = "rebuild" PROVE Pending(m) /\ ~Pending(m)'
    <3>1. Ahead(m) /\ ~Ahead(m)' BY <1>3, <1>9, <2>1
    <3>2. ~Behind(m) BY <1>5, <3>1 DEF MachineSafe, OneRebuild
    <3>3. ~Behind(m)' BY <3>2 DEF Behind, Rebuilding
    <3> QED BY <3>1, <3>3 DEF Pending
  <2>2. Firm(m)' => Firm(m) \/ s.op \in {"copy", "merge", "rebuild"} BY <1>3
  <2> QED BY <1>1, <1>5, <1>7, <1>8, <1>9, <2>1, <2>2, DiskStep
<1>10. CASE ~(s.op \in DiskOps /\ s.file = m)
  <2>1. SameDisk(m) /\ (m \in defined => m \in defined') BY <1>2, <1>10
  <2>2. (Pending(m)' => Pending(m)) /\ (Firm(m)' => Firm(m)) BY <1>3, <1>8, <1>10 DEF DiskOps
  <2> QED BY <1>5, <1>7, <2>1, <2>2, MachineStays
<1> QED BY <1>9, <1>10

LEMMA MachinesRefused ==
    ASSUME TemplatesTyped, Waits, MachinesSafe, NEW x \in T!Locks, T!Running(x), T!Current(x).todo # <<>>,
           NEW s, s = Head(T!Current(x).todo), T!Undo(s), T!Drop(x), machine' = machine,
           NEW q, running' \subseteq running \cup {q}, \A m : ~Rebuilding(q, m)
    PROVE  MachinesSafe'
<1> USE DEF TemplatesTyped
<1>1. s \in Steps BY StepOf
<1>2. /\ torn \subseteq torn'
      /\ \A m \in Machines \ torn' : m \in defined => m \in defined'
      /\ \A m \in Machines \ torn' : ~(s.op = "rebuild" /\ s.file = m) => SameDisk(m)
  BY <1>1, UndoFiles
<1>3. NoNews /\ (x \in Machines => ~Ahead(x)') BY DropHeads
<1>4. SUFFICES ASSUME NEW m \in Machines \ torn' PROVE MachineSafe(m)' BY DEF MachinesSafe
<1>5. MachineSafe(m) BY <1>2 DEF MachinesSafe
<1>6. (Ahead(m)' => Ahead(m)) /\ (Firm(m)' => Firm(m)) BY <1>3, NoNewsHeads DEF Firm
<1>7. OneRebuild(m)' /\ (Pending(m)' => Pending(m)) BY <1>5, <1>6, OneMoreLate DEF MachineSafe
<1>8. CASE s.op = "rebuild" /\ s.file = m
  <2>1. Ahead(m) /\ ~Ahead(m)' BY <1>3, <1>8, StepOf
  <2>2. ~Behind(m)' BY <1>5, <2>1 DEF MachineSafe, OneRebuild, Behind, Rebuilding
  <2>3. Pending(m) /\ ~Pending(m)' BY <2>1, <2>2 DEF Pending
  <2> QED BY <1>1, <1>5, <1>6, <1>7, <1>8, <2>3, DiskUndo
<1>9. CASE ~(s.op = "rebuild" /\ s.file = m) BY <1>2, <1>5, <1>6, <1>7, <1>9, MachineStays
<1> QED BY <1>8, <1>9

LEMMA MachinesLost ==
    ASSUME TemplatesTyped, Waits, MachinesSafe, NEW x \in T!Locks, T!Running(x), T!Drop(x), machine' = machine, T!Files,
           running' = T!Since(T!Current(x).todo)
    PROVE  MachinesSafe'
<1> USE DEF TemplatesTyped
<1>1. NoNews /\ (x \in Machines => ~Ahead(x)') BY DropHeads
<1>2. SUFFICES ASSUME NEW m \in Machines \ torn PROVE MachineSafe(m)' BY DEF MachinesSafe, T!Files
<1>3. MachineSafe(m) BY DEF MachinesSafe
<1>4. (Ahead(m)' => Ahead(m)) /\ (Firm(m)' => Firm(m)) BY <1>1, NoNewsHeads DEF Firm
<1>5. running' \subseteq running \cup {T!Current(x).todo} BY DEF T!Since
<1>6. Rebuilding(T!Current(x).todo, m) => Ahead(m) /\ ~Ahead(m)' BY <1>1, StepOf DEF Rebuilding
<1>7. OneRebuild(m)' /\ (Pending(m)' => Pending(m)) BY <1>3, <1>4, <1>5, <1>6, OneMoreLate DEF MachineSafe
<1> QED BY <1>3, <1>4, <1>7, MachineStays DEF T!Files, SameDisk

LEMMA MachinesLate ==
    ASSUME TemplatesTyped, MachinesSafe, NEW todo \in running, T!Late(todo)
    PROVE  MachinesSafe'
<1> USE DEF TemplatesTyped
<1> DEFINE s == Head(todo)
<1>1. todo \in Seq(Steps) /\ todo # <<>> /\ InTurn(todo) BY DEF LateTyped, Remainder
<1>2. s \in Steps BY <1>1, HeadOf
<1>3. ASSUME NEW m, Rebuilding(Tail(todo), m) PROVE s.op = "backup" /\ s.file = m
  BY <1>1, <1>3, InTurnTail DEF Rebuilding
<1>4. machine' = machine /\ queue' = queue BY DEF T!Late, T!Tables
<1>5. NoNews BY <1>4, SameHeads
<1>6. \A m \in Machines : (Ahead(m)' => Ahead(m)) /\ (Firm(m)' => Firm(m)) BY <1>4, <1>5, NoNewsHeads DEF Firm
<1>7. \A m : s.op = "rebuild" /\ s.file = m => Rebuilding(todo, m) BY <1>1 DEF Rebuilding
<1>8. CASE T!Can(s) /\ T!Do(s) /\ running' \subseteq (running \ {todo}) \cup {Tail(todo)}
  <2>1. /\ torn' = torn /\ defined \subseteq defined'
        /\ \A m \in Machines : ~(s.op \in DiskOps /\ s.file = m) => SameDisk(m)
    BY <1>2, <1>8, DoFiles
  <2>2. SUFFICES ASSUME NEW m \in Machines \ torn PROVE MachineSafe(m)' BY <2>1 DEF MachinesSafe
  <2>3. MachineSafe(m) BY DEF MachinesSafe
  <2>4. s.op = "backup" /\ s.file = m => ~Pending(m) BY <1>8, <2>3 DEF T!Can, MachineSafe, SetAside
  <2>5. /\ OneRebuild(m)'
        /\ ~Rebuilding(Tail(todo), m) => (Pending(m)' => Pending(m))
        /\ Rebuilding(todo, m) /\ ~Rebuilding(Tail(todo), m) => Pending(m) /\ ~Pending(m)'
    <3>1. OneRebuild(m) /\ (Rebuilding(Tail(todo), m) => ~Pending(m)) BY <1>3, <2>3, <2>4 DEF MachineSafe
    <3> QED BY <1>6, <1>8, <3>1, LateGoesOn
  <2>6. ~(s.op = "backup" /\ s.file = m) => (Pending(m)' => Pending(m)) BY <1>3, <2>5
  <2>7. s.op = "rebuild" /\ s.file = m => Pending(m) /\ ~Pending(m)' BY <1>3, <1>7, <2>5
  <2>8. CASE s.op \in DiskOps /\ s.file = m
    BY <1>2, <1>6, <1>8, <2>3, <2>5, <2>6, <2>7, <2>8, DiskStep
  <2>9. CASE ~(s.op \in DiskOps /\ s.file = m)
    <3>1. SameDisk(m) /\ (m \in defined => m \in defined') BY <2>1, <2>9
    <3>2. Pending(m)' => Pending(m) BY <2>6, <2>9 DEF DiskOps
    <3> QED BY <1>6, <2>3, <2>5, <3>1, <3>2, MachineStays
  <2> QED BY <2>8, <2>9
<1>9. CASE T!Undo(s) /\ running' \subseteq (running \ {todo}) \cup (IF s.op = "remove" THEN {Tail(todo)} ELSE {})
  <2>1. /\ torn \subseteq torn'
        /\ \A m \in Machines \ torn' : m \in defined => m \in defined'
        /\ \A m \in Machines \ torn' : ~(s.op = "rebuild" /\ s.file = m) => SameDisk(m)
    BY <1>2, <1>9, UndoFiles
  <2>2. SUFFICES ASSUME NEW m \in Machines \ torn' PROVE MachineSafe(m)' BY DEF MachinesSafe
  <2>3. MachineSafe(m) BY <2>1 DEF MachinesSafe
  <2>4. PICK p : p = IF s.op = "remove" THEN Tail(todo) ELSE <<>> OBVIOUS
  <2>5. running' \subseteq (running \ {todo}) \cup {p} BY <1>9, <2>4
  <2>6. ~Rebuilding(p, m)
    <3>1. p = <<>> => ~Rebuilding(p, m) BY DEF Rebuilding
    <3> QED BY <1>3, <2>4, <3>1
  <2>7. /\ OneRebuild(m)' /\ (Pending(m)' => Pending(m))
        /\ Rebuilding(todo, m) => Pending(m) /\ ~Pending(m)'
    BY <1>6, <2>3, <2>5, <2>6, LateGoesOn DEF MachineSafe
  <2>8. CASE s.op = "rebuild" /\ s.file = m
    BY <1>2, <1>6, <1>7, <1>9, <2>3, <2>7, <2>8, DiskUndo
  <2>9. CASE ~(s.op = "rebuild" /\ s.file = m) BY <1>6, <2>1, <2>3, <2>7, <2>9, MachineStays
  <2> QED BY <2>8, <2>9
<1>10. \/ T!Can(s) /\ T!Do(s) /\ running' \subseteq (running \ {todo}) \cup {Tail(todo)}
       \/ T!Undo(s) /\ running' \subseteq (running \ {todo}) \cup (IF s.op = "remove" THEN {Tail(todo)} ELSE {})
  BY DEF T!Late
<1> QED BY <1>8, <1>9, <1>10

\* Where the files and the late steps stay.
LEMMA MachinesUntouched ==
    ASSUME MachinesSafe, NoNews, T!Files, running' = running,
           \A m \in Machines : machine'[m].mode = "full" => Firm(m)
    PROVE  MachinesSafe'
<1>1. SUFFICES ASSUME NEW m \in Machines \ torn PROVE MachineSafe(m)' BY DEF MachinesSafe, T!Files
<1>2. MachineSafe(m) BY DEF MachinesSafe
<1>3. (Ahead(m)' => Ahead(m)) /\ (Firm(m)' => Firm(m)) BY NoNewsHeads
<1>4. OneRebuild(m)' /\ (Pending(m)' => Pending(m)) BY <1>2, <1>3, RebuildStays DEF MachineSafe, Pending
<1> QED BY <1>2, <1>3, <1>4, MachineStays DEF T!Files, SameDisk

\* What the table calls full was made so by the task that ends, if not before.
LEMMA FullIsFirm ==
    ASSUME TemplatesTyped, NEW x \in T!Locks, T!Running(x), T!Current(x).todo = <<>>,
           T!NewClone(T!Current(x)) \/ T!NewTemplate(T!Current(x)) \/ T!ChangedMachine(T!Current(x)) \/ T!ChangedTemplates(T!Current(x))
    PROVE  /\ \A m \in Machines : machine'[m].mode = "full" => Firm(m)
           /\ machine' \in [Machines -> MachineType]
<1> DEFINE k == T!Current(x)
<1>1. k \in Fit(x) BY CurrentFits DEF TemplatesTyped
<1>2. k \in TemplateTask /\ T!Lock(k) = x /\ Subject(k) BY <1>1 DEF Fit
<1>3. k.template \in Int BY <1>2 DEF TemplateTask
<1>4. machine \in [Machines -> MachineType] BY DEF TemplatesTyped, TablesTyped
<1>5. CASE T!NewClone(k) /\ machine[k.on].mode = "none"
  <2>1. k.kind \in {"linked", "full"} /\ k.on \in Machines /\ x = T!Node
    BY <1>2, <1>5 DEF T!NewClone, Subject, MachineKinds, T!Lock
  <2>2. PICK v : v = [mode |-> k.kind, from |-> k.template, backup |-> FALSE] OBVIOUS
  <2>3. v \in MachineType /\ v.mode = k.kind BY <1>3, <2>1, <2>2 DEF MachineType
  <2>4. machine' = [machine EXCEPT ![k.on] = v] BY <1>5, <2>2 DEF T!NewClone
  <2>5. k.kind = "full" => Firm(k.on) BY <2>1 DEF Firm, Renewed
  <2> QED BY <1>4, <2>1, <2>3, <2>4, <2>5 DEF Firm
<1>6. CASE T!ChangedMachine(k)
  <2>1. k.kind \in {"independent", "reinstall", "purge"} /\ k.on \in Machines /\ x = k.on
    BY <1>2, <1>6 DEF T!ChangedMachine, Subject, MachineKinds, T!Lock
  <2>2. machine[k.on] \in MachineType BY <1>4, <2>1
  <2>3. PICK v : v = CASE k.kind = "independent" -> [machine[k.on] EXCEPT !.mode = "full"]
                       [] k.kind = "reinstall" -> [mode |-> "full", from |-> k.template, backup |-> TRUE]
                       [] OTHER -> [machine[k.on] EXCEPT !.backup = FALSE]
    OBVIOUS
  <2>4. v \in MachineType /\ (k.kind = "purge" => v.mode = machine[k.on].mode)
    BY <1>3, <2>1, <2>2, <2>3 DEF MachineType
  <2>5. machine' = [machine EXCEPT ![k.on] = v] BY <1>6, <2>3 DEF T!ChangedMachine
  <2>6. k.kind # "purge" => Firm(k.on) BY <2>1 DEF Firm, Renewed
  <2> QED BY <1>4, <2>1, <2>4, <2>5, <2>6 DEF Firm
<1>7. CASE machine' = machine BY <1>4, <1>7 DEF Firm
<1> QED BY <1>5, <1>6, <1>7 DEF T!NewClone, T!NewTemplate, T!ChangedTemplates

-----------------------------------------------------------------------------
(* Templates: every template, at every step of a task.                     *)

\* A row keeps its state, or the template is excused from having its file.
RowStays(t) == table'[t].state = table[t].state \/ table'[t].state = "deleted"

LEMMA PardonedStays ==
    ASSUME NEW t, Pardoned(t), table[t].state = "deleted" => table'[t].state = "deleted", lapsed \subseteq lapsed',
           \A x \in T!Locks : Removing(x, t) => Removing(x, t)' \/ Pardoned(t)'
    PROVE  Pardoned(t)'
<1>1. CASE table[t].state = "deleted" BY <1>1 DEF Pardoned
<1>2. CASE t \in lapsed BY <1>2 DEF Pardoned
<1>3. CASE \E x \in T!Locks : Removing(x, t)
  <2>1. PICK x \in T!Locks : Removing(x, t) BY <1>3
  <2> QED BY <2>1 DEF Pardoned
<1> QED BY <1>1, <1>2, <1>3 DEF Pardoned

LEMMA CopiesStay ==
    ASSUME NEW t, NEW q, \A y \in T!Locks : Copying(y, t)' => Copying(y, t), running' \subseteq running \cup {q},
           Checking(q, t) => \E y \in T!Locks : Copying(y, t) /\ ~Copying(y, t)'
    PROVE  (NoCopy(t) => NoCopy(t)') /\ (AtMostOne(t) => AtMostOne(t)')
<1>1. \A p : Checking(p, t)' <=> Checking(p, t) BY DEF Checking
<1>2. \A p \in running' : p \in running \/ p = q OBVIOUS
<1>3. NoCopy(t) => NoCopy(t)' BY <1>1, <1>2 DEF NoCopy
<1>4. ASSUME AtMostOne(t) PROVE AtMostOne(t)'
  <2>1. \A x, y \in T!Locks : Copying(x, t)' /\ Copying(y, t)' => x = y BY <1>4 DEF AtMostOne
  <2>2. \A x \in T!Locks : \A p \in running' : ~(Copying(x, t)' /\ Checking(p, t)) BY <1>2, <1>4 DEF AtMostOne
  <2>3. \A p, r \in running' : Checking(p, t) /\ Checking(r, t) => p = r BY <1>2, <1>4 DEF AtMostOne
  <2> QED BY <1>1, <2>1, <2>2, <2>3 DEF AtMostOne
<1> QED BY <1>3, <1>4

\* The only copy under way ends, in a task or late.
LEMMA CopyEnds ==
    ASSUME NEW t, AtMostOne(t), NEW q, ~Checking(q, t), \A y \in T!Locks : Copying(y, t)' => Copying(y, t),
           \/ running' \subseteq running \cup {q} /\ \E y \in T!Locks : Copying(y, t) /\ ~Copying(y, t)'
           \/ \E p \in running : Checking(p, t) /\ running' \subseteq (running \ {p}) \cup {q}
    PROVE  NoCopy(t)'
<1>1. \A p : Checking(p, t)' <=> Checking(p, t) BY DEF Checking
<1>2. CASE running' \subseteq running \cup {q} /\ \E y \in T!Locks : Copying(y, t) /\ ~Copying(y, t)'
  <2>1. PICK y \in T!Locks : Copying(y, t) /\ ~Copying(y, t)' BY <1>2
  <2>2. \A x \in T!Locks : ~Copying(x, t)' BY <2>1 DEF AtMostOne
  <2>3. \A p \in running' : ~Checking(p, t) BY <1>2, <2>1 DEF AtMostOne
  <2> QED BY <1>1, <2>2, <2>3 DEF NoCopy
<1>3. CASE \E p \in running : Checking(p, t) /\ running' \subseteq (running \ {p}) \cup {q}
  <2>1. PICK p \in running : Checking(p, t) /\ running' \subseteq (running \ {p}) \cup {q} BY <1>3
  <2>2. \A x \in T!Locks : ~Copying(x, t)' BY <2>1 DEF AtMostOne
  <2>3. \A r \in running' : ~Checking(r, t) BY <2>1 DEF AtMostOne
  <2> QED BY <1>1, <2>2, <2>3 DEF NoCopy
<1> QED BY <1>2, <1>3

LEMMA CopyBegins ==
    ASSUME NEW t, NoCopy(t),
           \/ running' \subseteq running /\ \E x \in T!Locks : \A y \in T!Locks : Copying(y, t)' => y = x
           \/ (\A y \in T!Locks : Copying(y, t)' => Copying(y, t)) /\ \E q : running' \subseteq running \cup {q}
    PROVE  AtMostOne(t)'
<1>1. \A p : Checking(p, t)' <=> Checking(p, t) BY DEF Checking
<1>2. CASE running' \subseteq running /\ \E x \in T!Locks : \A y \in T!Locks : Copying(y, t)' => y = x
  <2>1. PICK x \in T!Locks : \A y \in T!Locks : Copying(y, t)' => y = x BY <1>2
  <2>2. \A p \in running' : ~Checking(p, t) BY <1>2 DEF NoCopy
  <2> QED BY <1>1, <2>1, <2>2 DEF AtMostOne
<1>3. CASE (\A y \in T!Locks : Copying(y, t)' => Copying(y, t)) /\ \E q : running' \subseteq running \cup {q}
  <2>1. PICK q : running' \subseteq running \cup {q} BY <1>3
  <2>2. \A x \in T!Locks : ~Copying(x, t)' BY <1>3 DEF NoCopy
  <2>3. \A p \in running' : Checking(p, t) => p = q BY <2>1 DEF NoCopy
  <2> QED BY <1>1, <2>2, <2>3 DEF AtMostOne
<1> QED BY <1>2, <1>3

LEMMA TemplateStays ==
    ASSUME NEW t, TemplateSafe(t), Pardoned(t) => Pardoned(t)', table'[t].state = table[t].state \/ Pardoned(t)',
           image'[t] # T!NoFile \/ image'[t] = image[t],
           NoCopy(t) => NoCopy(t)', AtMostOne(t) => AtMostOne(t)'
    PROVE  TemplateSafe(t)'
<1>1. CASE Pardoned(t)' BY <1>1 DEF TemplateSafe
<1>2. CASE ~Pardoned(t)'
  <2>1. CopyIsNew(t) /\ HasDisk(t) /\ table'[t].state = table[t].state BY <1>2 DEF TemplateSafe
  <2>2. CopyIsNew(t)' BY <2>1 DEF CopyIsNew
  <2>3. HasDisk(t)' BY <2>1 DEF HasDisk, T!Alive
  <2> QED BY <2>2, <2>3 DEF TemplateSafe
<1> QED BY <1>1, <1>2

\* A template that is not offered gets a file, or loses it again.
LEMMA TemplateBegins ==
    ASSUME NEW t, TemplateSafe(t), Pardoned(t) => Pardoned(t)', table'[t].state = table[t].state,
           table[t].state \in {"none", "ready", "deleted"},
           image[t] = T!NoFile, image'[t] # T!NoFile, NoCopy(t) => AtMostOne(t)'
    PROVE  TemplateSafe(t)'
<1>1. CASE Pardoned(t) BY <1>1 DEF TemplateSafe
<1>2. CASE ~Pardoned(t)
  <2>1. NoCopy(t) /\ ~T!Alive(t) /\ table[t].state # "deleted"
    BY <1>2 DEF TemplateSafe, CopyIsNew, HasDisk, Pardoned
  <2>2. table'[t].state = "none" BY <2>1 DEF T!Alive
  <2>3. CopyIsNew(t)' BY <2>1, <2>2 DEF CopyIsNew
  <2>4. HasDisk(t)' BY <2>2 DEF HasDisk, T!Alive
  <2> QED BY <2>3, <2>4 DEF TemplateSafe
<1> QED BY <1>1, <1>2

LEMMA TemplateEnds ==
    ASSUME NEW t, TemplateSafe(t), Pardoned(t) => Pardoned(t)', ~NoCopy(t), AtMostOne(t) => NoCopy(t)',
           table'[t].state = table[t].state \/ image'[t] = image[t]
    PROVE  TemplateSafe(t)'
<1>1. CASE Pardoned(t) BY <1>1 DEF TemplateSafe
<1>2. CASE ~Pardoned(t)
  <2>1. table[t].state = "none" /\ image[t] # T!NoFile /\ AtMostOne(t) BY <1>2 DEF TemplateSafe, CopyIsNew
  <2>2. CopyIsNew(t)' BY <2>1 DEF CopyIsNew
  <2>3. HasDisk(t)' BY <2>1 DEF HasDisk, T!Alive
  <2> QED BY <2>2, <2>3 DEF TemplateSafe
<1> QED BY <1>1, <1>2

LEMMA TemplatesDone ==
    ASSUME TemplatesTyped, Waits, TemplatesSafe, NEW x \in T!Locks, T!Running(x), T!Current(x).todo # <<>>,
           NEW s, s = Head(T!Current(x).todo), T!Can(s), T!Do(s), T!Tables, running' = running, lapsed' = lapsed,
           queue' = [queue EXCEPT ![x] = <<[T!Current(x) EXCEPT !.todo = Tail(@)]>> \o Tail(queue[x])]
    PROVE  TemplatesSafe'
<1> USE DEF TemplatesTyped
<1>1. s \in Steps BY StepOf
<1>2. FilesTyped' /\ \A t \in T!Templates : ~(s.op \in {"begin", "remove", "reparent"} /\ s.file = t) => image'[t] = image[t]
  BY <1>1, DoFiles
<1>3. /\ \A y \in T!Locks : \A t \in T!Templates : Copying(y, t)' => Copying(y, t) \/ (s.op = "begin" /\ s.file = t /\ y = x)
      /\ \A y \in T!Locks : \A t \in T!Templates : Removing(y, t) => Removing(y, t)'
  BY StepHeads DEF T!Tables
<1>4. table' = table BY DEF T!Tables
<1>5. SUFFICES ASSUME NEW t \in T!Templates PROVE TemplateSafe(t)' BY DEF TemplatesSafe
<1>6. TemplateSafe(t) BY DEF TemplatesSafe
<1>7. Pardoned(t) => Pardoned(t)' BY <1>3, <1>4, PardonedStays
<1>8. CASE s.op = "begin" /\ s.file = t
  <2>1. image[t] = T!NoFile BY <1>8 DEF T!Can
  <2>2. image' = [image EXCEPT ![t] = T!Alone] BY <1>8 DEF T!Do
  <2>3. image'[t] # T!NoFile BY <2>2, ReadableIs DEF FilesTyped
  <2>4. NoCopy(t) => AtMostOne(t)'
    <3>1. ASSUME NoCopy(t) PROVE \A y \in T!Locks : Copying(y, t)' => y = x BY <1>3, <3>1 DEF NoCopy
    <3> QED BY <3>1, CopyBegins
  <2>5. table[t].state \in {"none", "ready", "deleted"} BY DEF TablesTyped, RowType
  <2> QED BY <1>4, <1>6, <1>7, <2>1, <2>3, <2>4, <2>5, TemplateBegins
<1>9. CASE ~(s.op = "begin" /\ s.file = t)
  <2>1. (NoCopy(t) => NoCopy(t)') /\ (AtMostOne(t) => AtMostOne(t)')
    <3>1. \A y \in T!Locks : Copying(y, t)' => Copying(y, t) BY <1>3, <1>9
    <3>2. running' \subseteq running \cup {<<>>} /\ ~Checking(<<>>, t) BY DEF Checking
    <3> QED BY <3>1, <3>2, CopiesStay
  <2>2. CASE s.op = "remove" /\ s.file = t
    <3>1. Removing(x, t) BY <2>2, StepOf DEF Removing
    <3>2. Pardoned(t)' BY <1>7, <3>1 DEF Pardoned
    <3> QED BY <3>2 DEF TemplateSafe
  <2>3. CASE s.op = "reparent" /\ s.file = t
    <3>1. s.to \in T!Readable /\ image' = [image EXCEPT ![t] = s.to] BY <2>3 DEF T!Can, T!Do
    <3>2. image'[t] # T!NoFile BY <3>1, ReadableIs DEF FilesTyped
    <3> QED BY <1>4, <1>6, <1>7, <2>1, <3>2, TemplateStays
  <2>4. CASE ~(s.op \in {"remove", "reparent"} /\ s.file = t)
    BY <1>2, <1>4, <1>6, <1>7, <1>9, <2>1, <2>4, TemplateStays
  <2> QED BY <2>2, <2>3, <2>4
<1> QED BY <1>8, <1>9

\* A task that fails is a doubtful removal of what it was to remove.
LEMMA FailExcuses ==
    ASSUME TemplatesTyped, Waits, NEW x \in T!Locks, T!Running(x), T!Fail(x), table' = table
    PROVE  /\ NoNews /\ (\A t \in T!Templates : ~Copying(x, t)')
           /\ \A t \in T!Templates : Pardoned(t) => Pardoned(t)'
<1>1. /\ NoNews /\ (\A t \in T!Templates : ~Copying(x, t)')
      /\ \A y \in T!Locks : \A t \in T!Templates : Removing(y, t) => y = x \/ Removing(y, t)'
  BY DropHeads DEF T!Fail, TemplatesTyped
<1>2. lapsed' = lapsed \cup T!Removals(T!Current(x)) BY DEF T!Fail
<1>3. ASSUME NEW t \in T!Templates, Pardoned(t) PROVE Pardoned(t)'
  <2>1. \A y \in T!Locks : Removing(y, t) => Removing(y, t)' \/ Pardoned(t)' BY <1>1, <1>2 DEF Removing, Pardoned
  <2> QED BY <1>2, <1>3, <2>1, PardonedStays
<1> QED BY <1>1, <1>3

LEMMA TemplatesRefused ==
    ASSUME TemplatesTyped, Waits, TemplatesSafe, NEW x \in T!Locks, T!Running(x), T!Current(x).todo # <<>>,
           NEW s, s = Head(T!Current(x).todo), T!Undo(s), T!Fail(x), T!Tables,
           NEW q, running' \subseteq running \cup {q}, \A t : ~Checking(q, t)
    PROVE  TemplatesSafe'
<1> USE DEF TemplatesTyped
<1>1. s \in Steps BY StepOf
<1>2. \A t \in T!Templates : ~(s.op = "verify" /\ s.file = t) => image'[t] = image[t] BY <1>1, UndoFiles
<1>3. table' = table BY DEF T!Tables
<1>4. /\ NoNews /\ (\A t \in T!Templates : ~Copying(x, t)')
      /\ \A t \in T!Templates : Pardoned(t) => Pardoned(t)'
  BY <1>3, FailExcuses
<1>5. \A y \in T!Locks : \A t \in T!Templates : Copying(y, t)' => Copying(y, t) BY <1>4, NoNewsHeads
<1>6. SUFFICES ASSUME NEW t \in T!Templates PROVE TemplateSafe(t)' BY DEF TemplatesSafe
<1>7. TemplateSafe(t) BY DEF TemplatesSafe
<1>8. CASE s.op = "verify" /\ s.file = t
  <2>1. Copying(x, t) BY <1>8, StepOf
  <2>2. ~NoCopy(t) BY <2>1 DEF NoCopy
  <2>3. AtMostOne(t) => NoCopy(t)' BY <1>4, <1>5, <2>1, CopyEnds
  <2> QED BY <1>3, <1>4, <1>7, <2>2, <2>3, TemplateEnds
<1>9. CASE ~(s.op = "verify" /\ s.file = t)
  <2>1. (NoCopy(t) => NoCopy(t)') /\ (AtMostOne(t) => AtMostOne(t)') BY <1>5, CopiesStay
  <2> QED BY <1>2, <1>3, <1>4, <1>7, <1>9, <2>1, TemplateStays
<1> QED BY <1>8, <1>9

LEMMA TemplatesLost ==
    ASSUME TemplatesTyped, Waits, TemplatesSafe, NEW x \in T!Locks, T!Running(x), T!Fail(x), T!Tables, T!Files,
           running' = T!Since(T!Current(x).todo)
    PROVE  TemplatesSafe'
<1> USE DEF TemplatesTyped
<1>1. table' = table /\ image' = image BY DEF T!Tables, T!Files
<1>2. /\ NoNews /\ (\A t \in T!Templates : ~Copying(x, t)')
      /\ \A t \in T!Templates : Pardoned(t) => Pardoned(t)'
  BY <1>1, FailExcuses
<1>3. \A y \in T!Locks : \A t \in T!Templates : Copying(y, t)' => Copying(y, t) BY <1>2, NoNewsHeads
<1>4. SUFFICES ASSUME NEW t \in T!Templates PROVE TemplateSafe(t)' BY DEF TemplatesSafe
<1>5. TemplateSafe(t) BY DEF TemplatesSafe
<1>6. running' \subseteq running \cup {T!Current(x).todo} BY DEF T!Since
<1>7. Checking(T!Current(x).todo, t) => Copying(x, t) /\ ~Copying(x, t)' BY <1>2, StepOf DEF Checking
<1>8. (NoCopy(t) => NoCopy(t)') /\ (AtMostOne(t) => AtMostOne(t)') BY <1>3, <1>6, <1>7, CopiesStay
<1> QED BY <1>1, <1>2, <1>5, <1>8, TemplateStays

LEMMA TemplatesLate ==
    ASSUME TemplatesTyped, RemovesKnown, TemplatesSafe, NEW todo \in running, T!Late(todo)
    PROVE  TemplatesSafe'
<1> USE DEF TemplatesTyped
<1> DEFINE s == Head(todo)
<1>1. todo \in Seq(Steps) /\ todo # <<>> /\ InTurn(todo) BY DEF LateTyped, Remainder
<1>2. s \in Steps /\ s = todo[1] /\ 1 \in DOMAIN todo BY <1>1, HeadOf
<1>3. \A t : Checking(Tail(todo), t) => s.op = "begin" /\ s.file = t BY <1>1, InTurnTail DEF Checking
<1>4. table' = table /\ queue' = queue /\ lapsed' = lapsed BY DEF T!Late, T!Tables
<1>5. NoNews /\ \A y \in T!Locks : \A t \in T!Templates : Removing(y, t) => Removing(y, t)' BY <1>4, SameHeads
<1>6. \A y \in T!Locks : \A t \in T!Templates : Copying(y, t)' => Copying(y, t) BY <1>5, NoNewsHeads
<1>7. SUFFICES ASSUME NEW t \in T!Templates PROVE TemplateSafe(t)' BY DEF TemplatesSafe
<1>8. TemplateSafe(t) BY DEF TemplatesSafe
<1>9. Pardoned(t) => Pardoned(t)' BY <1>4, <1>5, PardonedStays
<1>10. running' \subseteq (running \ {todo}) \cup {Tail(todo)} BY DEF T!Late
<1>11. ~(s.op = "begin" /\ s.file = t) => (NoCopy(t) => NoCopy(t)') /\ (AtMostOne(t) => AtMostOne(t)')
  <2>1. running' \subseteq running \cup {Tail(todo)} BY <1>10
  <2> QED BY <1>3, <1>6, <2>1, CopiesStay
<1>12. CASE T!Can(s) /\ T!Do(s)
  <2>1. \A i \in T!Templates : ~(s.op \in {"begin", "remove", "reparent"} /\ s.file = i) => image'[i] = image[i]
    BY <1>2, <1>12, DoFiles
  <2>2. CASE s.op = "begin" /\ s.file = t
    <3>1. image[t] = T!NoFile BY <1>12, <2>2 DEF T!Can
    <3>2. image' = [image EXCEPT ![t] = T!Alone] BY <1>12, <2>2 DEF T!Do
    <3>3. image'[t] # T!NoFile BY <3>2, ReadableIs DEF FilesTyped
    <3>4. running' \subseteq running \cup {Tail(todo)} BY <1>10
    <3>5. NoCopy(t) => AtMostOne(t)' BY <1>6, <3>4, CopyBegins
    <3>6. table[t].state \in {"none", "ready", "deleted"} BY DEF TablesTyped, RowType
    <3> QED BY <1>4, <1>8, <1>9, <3>1, <3>3, <3>5, <3>6, TemplateBegins
  <2>3. CASE s.op = "remove" /\ s.file = t
    <3>1. t \in lapsed BY <1>2, <2>3 DEF RemovesKnown, LateKnown
    <3>2. Pardoned(t)' BY <1>4, <3>1 DEF Pardoned
    <3> QED BY <3>2 DEF TemplateSafe
  <2>4. CASE s.op = "reparent" /\ s.file = t
    <3>1. s.to \in T!Readable /\ image' = [image EXCEPT ![t] = s.to] BY <1>12, <2>4 DEF T!Can, T!Do
    <3>2. image'[t] # T!NoFile BY <3>1, ReadableIs DEF FilesTyped
    <3> QED BY <1>4, <1>8, <1>9, <1>11, <2>4, <3>2, TemplateStays
  <2>5. CASE ~(s.op \in {"begin", "remove", "reparent"} /\ s.file = t)
    BY <1>4, <1>8, <1>9, <1>11, <2>1, <2>5, TemplateStays
  <2> QED BY <2>2, <2>3, <2>4, <2>5
<1>13. CASE T!Undo(s) /\ running' \subseteq (running \ {todo}) \cup (IF s.op = "remove" THEN {Tail(todo)} ELSE {})
  <2>1. \A i \in T!Templates : ~(s.op = "verify" /\ s.file = i) => image'[i] = image[i] BY <1>2, <1>13, UndoFiles
  <2>2. CASE s.op = "verify" /\ s.file = t
    <3>1. Checking(todo, t) BY <1>1, <2>2 DEF Checking
    <3>2. ~NoCopy(t) BY <3>1 DEF NoCopy
    <3>3. AtMostOne(t) => NoCopy(t)'
      <4>1. ~Checking(Tail(todo), t) BY <1>3, <2>2
      <4> QED BY <1>6, <1>10, <3>1, <4>1, CopyEnds
    <3> QED BY <1>4, <1>8, <1>9, <3>2, <3>3, TemplateEnds
  <2>3. CASE ~(s.op = "verify" /\ s.file = t)
    <3>1. (NoCopy(t) => NoCopy(t)') /\ (AtMostOne(t) => AtMostOne(t)')
      <4>1. PICK p : p = IF s.op = "remove" THEN Tail(todo) ELSE <<>> OBVIOUS
      <4>2. running' \subseteq running \cup {p} BY <1>13, <4>1
      <4>3. p = <<>> => ~Checking(p, t) BY DEF Checking
      <4>4. ~Checking(p, t) BY <1>3, <4>1, <4>3
      <4> QED BY <1>6, <4>2, <4>4, CopiesStay
    <3> QED BY <1>4, <1>8, <1>9, <2>1, <2>3, <3>1, TemplateStays
  <2> QED BY <2>2, <2>3
<1>14. \/ T!Can(s) /\ T!Do(s)
       \/ T!Undo(s) /\ running' \subseteq (running \ {todo}) \cup (IF s.op = "remove" THEN {Tail(todo)} ELSE {})
  BY DEF T!Late
<1> QED BY <1>12, <1>13, <1>14

-----------------------------------------------------------------------------
(* Templates: what a task is given to do.                                  *)

LEMMA OrderIs ==
    ASSUME NEW Chosen \in SUBSET T!Templates, NEW ids \in T!InOrder(Chosen)
    PROVE  Cardinality(Chosen) \in Nat /\ DOMAIN ids = 1 .. Cardinality(Chosen) /\ \A i \in DOMAIN ids : ids[i] \in Chosen
<1>1. Originals \in Int BY PartAssumptions DEF T!TemplatesAssumption
<1>2. IsFiniteSet(T!Templates) BY <1>1, FS_Interval DEF T!Templates
<1>3. Cardinality(Chosen) \in Nat BY <1>2, FS_Subset, FS_CardinalityType
<1>4. ids \in [1 .. Cardinality(Chosen) -> Chosen] BY SameCardinality DEF T!InOrder
<1> QED BY <1>3, <1>4

LEMMA NoTurns ==
    ASSUME NEW q \in Seq(Steps), \A i \in DOMAIN q : q[i].op \notin {"rebuild", "redefine", "verify"}
    PROVE  InTurn(q)
BY DEF InTurn

\* A task fits what it does, one file or several.
LEMMA OneStep ==
    ASSUME NEW k \in Draft, NEW s \in Steps, NEW n, n = [k EXCEPT !.todo = <<s>>], StepFits(k, s),
           k.kind \notin {"reinstall", "prepare"}, k.kind \in {"full", "independent"} => s.op # "redefine"
    PROVE  n \in Fit(T!Lock(k)) /\ Untouched(n)
<1>1. k \in TemplateTask /\ Subject(k) BY DEF Draft
<1>2. PICK q : q = <<s>> OBVIOUS
<1>3. q \in Seq(Steps) /\ DOMAIN q = {1} /\ q[1] = s /\ q # <<>> /\ Head(q) = s BY <1>2
<1>4. n \in TemplateTask /\ n.todo = q /\ n.kind = k.kind /\ n.on = k.on /\ n.template = k.template /\ n.ids = k.ids
  BY <1>1, <1>2, <1>3 DEF TemplateTask
<1>5. s.op \in Does(k.kind) BY DEF StepFits
<1>6. s.op \notin {"rebuild", "redefine", "verify"} BY <1>1, <1>5 DEF Does
<1>7. InTurn(q) BY <1>3, <1>6, NoTurns
<1>8. T!Lock(n) = T!Lock(k) /\ Subject(n) /\ StepFits(n, s) BY <1>1, <1>4 DEF T!Lock, Subject, StepFits, T!Removals
<1>9. n \in Fit(T!Lock(k)) BY <1>3, <1>4, <1>7, <1>8 DEF Fit
<1>10. Untouched(n) BY <1>3, <1>4, <1>6 DEF Untouched, Rebuilds, Renewed, Copied
<1> QED BY <1>9, <1>10

LEMMA ManySteps ==
    ASSUME NEW k \in Draft, NEW q \in Seq(Steps), NEW n, n = [k EXCEPT !.todo = q], k.kind \in TemplateKinds,
           \A i \in DOMAIN q : StepFits(k, q[i])
    PROVE  n \in Fit(T!Lock(k)) /\ Untouched(n)
<1>1. k \in TemplateTask /\ Subject(k) BY DEF Draft
<1>2. n \in TemplateTask /\ n.todo = q /\ n.kind = k.kind /\ n.on = k.on /\ n.template = k.template /\ n.ids = k.ids
  BY <1>1 DEF TemplateTask
<1>3. \A i \in DOMAIN q : q[i].op \in {"remove", "reparent"} BY DEF StepFits, Does, TemplateKinds
<1>4. InTurn(q) BY <1>3, NoTurns
<1>5. T!Lock(n) = T!Lock(k) /\ Subject(n) /\ \A s : StepFits(k, s) => StepFits(n, s)
  BY <1>1, <1>2 DEF T!Lock, Subject, StepFits, T!Removals
<1>6. n.kind \notin {"reinstall", "prepare", "full", "independent"} BY <1>2 DEF TemplateKinds
<1>7. n \in Fit(T!Lock(k)) BY <1>2, <1>4, <1>5, <1>6 DEF Fit
<1>8. q # <<>> => Head(q).op \in {"remove", "reparent"} BY <1>3, HeadOf
<1>9. Untouched(n) BY <1>2, <1>6, <1>8 DEF Untouched, Rebuilds, Renewed, Copied
<1> QED BY <1>7, <1>9

LEMMA TemplateSteps ==
    ASSUME NEW k \in Draft, k.kind \in TemplateKinds, NEW t \in T!Templates
    PROVE  /\ k.kind = "delete" /\ t \in k.ids => T!Unlink(t) \in Steps /\ StepFits(k, T!Unlink(t))
           /\ k.kind = "promote_delete" /\ t = k.on => T!Unlink(t) \in Steps /\ StepFits(k, T!Unlink(t))
           /\ \A to \in Int : T!Reparent(t, to) \in Steps /\ StepFits(k, T!Reparent(t, to))
<1>1. T!Alone \in Int BY ReadableIs
<1>2. T!Unlink(t) \in Steps /\ T!Unlink(t).op = "remove" /\ T!Unlink(t).file = t BY <1>1 DEF T!Unlink, Steps
<1>3. ASSUME NEW to \in Int PROVE T!Reparent(t, to) \in Steps /\ StepFits(k, T!Reparent(t, to))
  BY DEF T!Reparent, Steps, StepFits, Does, TemplateKinds, DiskOps
<1>4. k.kind = "delete" /\ t \in k.ids => StepFits(k, T!Unlink(t)) BY <1>2 DEF StepFits, Does, DiskOps, T!Removals
<1>5. k.kind = "promote_delete" /\ t = k.on => StepFits(k, T!Unlink(t)) BY <1>2 DEF StepFits, Does, DiskOps, T!Removals
<1> QED BY <1>2, <1>3, <1>4, <1>5

LEMMA NodeSteps ==
    ASSUME NEW k \in Draft, NEW ids \in T!InOrder(k.ids), NEW n, n = [k EXCEPT !.todo = T!OnNode(k, ids)]
    PROVE  n \in Fit(T!Lock(k)) /\ Untouched(n) /\ T!Lock(k) \in T!Locks /\ T!Removals(n) = T!Removals(k)
<1>1. k \in TemplateTask /\ Subject(k) BY DEF Draft
<1>2. /\ k.kind \in MachineKinds \cup TemplateKinds /\ k.on \in T!Templates \cup Machines /\ k.template \in Int
      /\ k.ids \in SUBSET T!Templates /\ k.to \in Int
      /\ k.kind \in MachineKinds => k.on \in Machines
      /\ k.kind \in TemplateKinds => k.on \in T!Templates
      /\ k.kind = "prepare" => k.template \in T!Templates
  BY <1>1 DEF TemplateTask, Subject
<1>3. Cardinality(k.ids) \in Nat /\ DOMAIN ids = 1 .. Cardinality(k.ids) /\ \A i \in DOMAIN ids : ids[i] \in k.ids
  BY <1>2, OrderIs
<1>4. T!Alone \in Int BY ReadableIs
<1>5. T!Lock(k) \in T!Locks BY <1>2, LocksAre DEF T!Lock, T!Locks
<1>6. T!Removals(n) = T!Removals(k) BY <1>1 DEF TemplateTask, T!Removals
<1> DEFINE on(op, to) == [op |-> op, file |-> k.on, to |-> to]
           prepare(op) == [op |-> op, file |-> k.template, to |-> k.on]
           removed == [i \in DOMAIN ids |-> T!Unlink(ids[i])]
           reparented == [i \in DOMAIN ids |-> T!Reparent(ids[i], k.to)]
<1>7. \A op \in DiskOps : \A to \in Int : k.on \in Machines => on(op, to) \in Steps BY DEF Steps
<1>8. \A op \in DiskOps : \A to \in Int : op \in Does(k.kind) => StepFits(k, on(op, to)) BY DEF StepFits, DiskOps
<1>9. CASE k.kind = "linked"
  <2>1. on("overlay", k.template) \in Steps /\ StepFits(k, on("overlay", k.template))
    BY <1>2, <1>7, <1>8, <1>9 DEF DiskOps, MachineKinds, Does
  <2>2. n = [k EXCEPT !.todo = <<on("overlay", k.template)>>] BY <1>9 DEF T!OnNode
  <2> QED BY <1>5, <1>6, <1>9, <2>1, <2>2, OneStep
<1>10. CASE k.kind = "full"
  <2>1. on("copy", k.template) \in Steps /\ StepFits(k, on("copy", k.template))
    BY <1>2, <1>7, <1>8, <1>10 DEF DiskOps, MachineKinds, Does
  <2>2. n = [k EXCEPT !.todo = <<on("copy", k.template)>>] BY <1>10 DEF T!OnNode
  <2> QED BY <1>5, <1>6, <1>10, <2>1, <2>2, OneStep
<1>11. CASE k.kind = "independent"
  <2>1. on("merge", T!Alone) \in Steps /\ StepFits(k, on("merge", T!Alone))
    BY <1>2, <1>4, <1>7, <1>8, <1>11 DEF DiskOps, MachineKinds, Does
  <2>2. n = [k EXCEPT !.todo = <<on("merge", T!Alone)>>] BY <1>11 DEF T!OnNode
  <2> QED BY <1>5, <1>6, <1>11, <2>1, <2>2, OneStep
<1>12. CASE k.kind = "purge"
  <2>1. on("purge", T!Alone) \in Steps /\ StepFits(k, on("purge", T!Alone))
    BY <1>2, <1>4, <1>7, <1>8, <1>12 DEF DiskOps, MachineKinds, Does
  <2>2. n = [k EXCEPT !.todo = <<on("purge", T!Alone)>>] BY <1>12 DEF T!OnNode
  <2> QED BY <1>5, <1>6, <1>12, <2>1, <2>2, OneStep
<1>13. CASE k.kind = "prepare"
  <2>1. PICK b : b = prepare("begin") OBVIOUS
  <2>2. PICK v : v = prepare("verify") OBVIOUS
  <2>3. b \in Steps /\ v \in Steps /\ b.op = "begin" /\ v.op = "verify" /\ b.file = k.template /\ v.file = k.template
    BY <1>2, <1>13, <2>1, <2>2 DEF Steps, MachineKinds
  <2>4. PICK q : q = <<b, v>> OBVIOUS
  <2>5. q \in Seq(Steps) /\ DOMAIN q = {1, 2} /\ q[1] = b /\ q[2] = v /\ q # <<>> /\ Head(q) = b /\ Len(q) = 2
    BY <2>3, <2>4
  <2>6. n = [k EXCEPT !.todo = q] BY <1>13, <2>1, <2>2, <2>4 DEF T!OnNode
  <2>7. n \in TemplateTask /\ n.todo = q /\ n.kind = k.kind /\ n.on = k.on /\ n.template = k.template
    BY <1>1, <2>5, <2>6 DEF TemplateTask
  <2>8. InTurn(q)
    <3>1. \A i \in DOMAIN q : i > 1 => i = 2 /\ q[i] = v /\ q[i - 1] = b BY <2>5
    <3> QED BY <2>3, <3>1 DEF InTurn
  <2>9. StepFits(n, b) /\ StepFits(n, v) BY <1>13, <2>3, <2>7 DEF StepFits, Does, DiskOps
  <2>10. T!Lock(n) = T!Lock(k) /\ Subject(n) BY <1>1, <2>7 DEF T!Lock, Subject
  <2>11. EndsWith(n, "verify") BY <2>3, <2>5, <2>7 DEF EndsWith
  <2>12. n \in Fit(T!Lock(k)) BY <1>13, <2>5, <2>7, <2>8, <2>9, <2>10, <2>11 DEF Fit
  <2>13. Untouched(n) BY <1>13, <2>3, <2>5, <2>7 DEF Untouched, Rebuilds, Renewed, Copied
  <2> QED BY <1>5, <1>6, <2>12, <2>13
<1>14. CASE k.kind = "reinstall"
  <2>1. PICK b : b = on("backup", T!Alone) OBVIOUS
  <2>2. PICK u : u = on("rebuild", k.template) OBVIOUS
  <2>3. PICK v : v = on("redefine", T!Alone) OBVIOUS
  <2>4. /\ b \in Steps /\ u \in Steps /\ v \in Steps /\ b.op = "backup" /\ u.op = "rebuild" /\ v.op = "redefine"
        /\ b.file = k.on /\ u.file = k.on /\ v.file = k.on
    BY <1>2, <1>4, <1>7, <1>14, <2>1, <2>2, <2>3 DEF DiskOps, MachineKinds
  <2>5. PICK q : q = <<b, u, v>> OBVIOUS
  <2>6. /\ q \in Seq(Steps) /\ DOMAIN q = {1, 2, 3} /\ q[1] = b /\ q[2] = u /\ q[3] = v
        /\ q # <<>> /\ Head(q) = b /\ Len(q) = 3
    BY <2>4, <2>5
  <2>7. n = [k EXCEPT !.todo = q] BY <1>14, <2>1, <2>2, <2>3, <2>5 DEF T!OnNode
  <2>8. n \in TemplateTask /\ n.todo = q /\ n.kind = k.kind /\ n.on = k.on /\ n.template = k.template
    BY <1>1, <2>6, <2>7 DEF TemplateTask
  <2>9. InTurn(q)
    <3>1. \A i \in DOMAIN q : i > 1 => (i = 2 /\ q[i] = u /\ q[i - 1] = b) \/ (i = 3 /\ q[i] = v /\ q[i - 1] = u)
      BY <2>6
    <3> QED BY <2>4, <3>1 DEF InTurn
  <2>10. StepFits(n, b) /\ StepFits(n, u) /\ StepFits(n, v) BY <1>14, <2>4, <2>8 DEF StepFits, Does
  <2>11. T!Lock(n) = T!Lock(k) /\ Subject(n) BY <1>1, <2>8 DEF T!Lock, Subject
  <2>12. EndsWith(n, "redefine") BY <2>4, <2>6, <2>8 DEF EndsWith
  <2>13. n \in Fit(T!Lock(k)) BY <1>14, <2>6, <2>8, <2>9, <2>10, <2>11, <2>12 DEF Fit
  <2>14. Untouched(n) BY <1>14, <2>4, <2>6, <2>8 DEF Untouched, Rebuilds, Renewed, Copied
  <2> QED BY <1>5, <1>6, <2>13, <2>14
<1>15. CASE k.kind \in {"rebase", "flatten"}
  <2>1. PICK to \in Int : to = (IF k.kind = "rebase" THEN k.to ELSE T!Alone) BY <1>2, <1>4
  <2>2. k.kind \in TemplateKinds /\ k.on \in T!Templates BY <1>2, <1>15 DEF TemplateKinds
  <2>3. PICK s : s = T!Reparent(k.on, to) OBVIOUS
  <2>4. s \in Steps /\ StepFits(k, s) BY <2>2, <2>3, TemplateSteps
  <2>5. n = [k EXCEPT !.todo = <<s>>] BY <1>15, <2>1, <2>3 DEF T!OnNode
  <2>6. k.kind \notin {"reinstall", "prepare", "full", "independent"} BY <1>15
  <2> QED BY <1>5, <1>6, <2>4, <2>5, <2>6, OneStep
<1>16. ASSUME k.kind \in TemplateKinds
       PROVE  /\ reparented \in Seq(Steps) /\ \A i \in DOMAIN reparented : StepFits(k, reparented[i])
              /\ k.kind = "delete" => removed \in Seq(Steps) /\ \A i \in DOMAIN removed : StepFits(k, removed[i])
  <2>1. \A i \in DOMAIN ids : T!Reparent(ids[i], k.to) \in Steps /\ StepFits(k, T!Reparent(ids[i], k.to))
    BY <1>2, <1>3, <1>16, TemplateSteps
  <2>2. ASSUME k.kind = "delete", NEW i \in DOMAIN ids PROVE T!Unlink(ids[i]) \in Steps /\ StepFits(k, T!Unlink(ids[i]))
    BY <1>2, <1>3, <1>16, <2>2, TemplateSteps
  <2>3. PICK N \in Nat : DOMAIN ids = 1 .. N BY <1>3
  <2>4. reparented \in Seq(Steps) BY <2>1, <2>3
  <2>5. k.kind = "delete" => removed \in Seq(Steps) BY <2>2, <2>3
  <2> QED BY <2>1, <2>2, <2>4, <2>5
<1>17. CASE k.kind = "delete"
  <2>1. k.kind \in TemplateKinds BY <1>17 DEF TemplateKinds
  <2>2. PICK q : q = removed OBVIOUS
  <2>3. q \in Seq(Steps) /\ \A i \in DOMAIN q : StepFits(k, q[i]) BY <1>16, <1>17, <2>1, <2>2
  <2>4. n = [k EXCEPT !.todo = q] BY <1>17, <2>2 DEF T!OnNode
  <2> QED BY <1>5, <1>6, <2>1, <2>3, <2>4, ManySteps
<1>18. CASE k.kind = "promote_child"
  <2>1. k.kind \in TemplateKinds BY <1>18 DEF TemplateKinds
  <2>2. PICK q : q = reparented OBVIOUS
  <2>3. q \in Seq(Steps) /\ \A i \in DOMAIN q : StepFits(k, q[i]) BY <1>16, <2>1, <2>2
  <2>4. n = [k EXCEPT !.todo = q] BY <1>18, <2>2 DEF T!OnNode
  <2> QED BY <1>5, <1>6, <2>1, <2>3, <2>4, ManySteps
<1>19. CASE k.kind = "promote_delete"
  <2>1. k.kind \in TemplateKinds /\ k.on \in T!Templates BY <1>2, <1>19 DEF TemplateKinds
  <2>2. PICK p : p = reparented OBVIOUS
  <2>3. p \in Seq(Steps) /\ \A i \in DOMAIN p : StepFits(k, p[i]) BY <1>16, <2>1, <2>2
  <2>4. PICK u : u = T!Unlink(k.on) OBVIOUS
  <2>5. u \in Steps /\ StepFits(k, u) BY <1>19, <2>1, <2>4, TemplateSteps
  <2>6. PICK q : q = Append(p, u) OBVIOUS
  <2>7. q \in Seq(Steps) /\ Len(p) \in Nat /\ DOMAIN q = 1 .. Len(p) + 1 /\ DOMAIN p = 1 .. Len(p)
    BY <2>3, <2>5, <2>6, AppendProperties
  <2>8. q[Len(p) + 1] = u /\ \A i \in 1 .. Len(p) : q[i] = p[i] BY <2>3, <2>5, <2>6, AppendProperties
  <2>9. ASSUME NEW i \in DOMAIN q PROVE StepFits(k, q[i])
    <3>1. i \in DOMAIN p \/ i = Len(p) + 1 BY <2>7
    <3> QED BY <2>3, <2>5, <2>7, <2>8, <3>1
  <2>10. n = [k EXCEPT !.todo = q] BY <1>19, <2>2, <2>4, <2>6 DEF T!OnNode
  <2> QED BY <1>5, <1>6, <2>1, <2>7, <2>9, <2>10, ManySteps
<1> QED
  BY <1>2, <1>9, <1>10, <1>11, <1>12, <1>13, <1>14, <1>15, <1>17, <1>18, <1>19 DEF MachineKinds, TemplateKinds

-----------------------------------------------------------------------------
(* Templates: each step keeps the invariant.                               *)

RowsKept == Known \subseteq Known'

LEMMA KnownKept ==
    ASSUME RemovesKnown, RowsKept
    PROVE  /\ queue' = queue => QueuesKnown'
           /\ (\A x \in T!Locks : \A i \in DOMAIN queue'[x] : \E j \in DOMAIN queue[x] :
                    T!Removals(queue'[x][i]) = T!Removals(queue[x][j])) => QueuesKnown'
           /\ handler' = handler => RequestsKnown'
           /\ running' = running /\ lapsed' = lapsed => LateKnown'
           /\ \A s : RequestKnown(s) => RequestKnown(s)'
<1>1. queue' = queue => QueuesKnown' BY DEF RemovesKnown, RowsKept, QueuesKnown, T!Removals
<1>2. ASSUME \A x \in T!Locks : \A i \in DOMAIN queue'[x] : \E j \in DOMAIN queue[x] : T!Removals(queue'[x][i]) = T!Removals(queue[x][j])
      PROVE  QueuesKnown'
  <2> SUFFICES ASSUME NEW x \in T!Locks, NEW i \in DOMAIN queue'[x] PROVE T!Removals(queue'[x][i]) \subseteq Known'
    BY DEF QueuesKnown, T!Removals
  <2>1. PICK j \in DOMAIN queue[x] : T!Removals(queue'[x][i]) = T!Removals(queue[x][j]) BY <1>2
  <2> QED BY <2>1 DEF RemovesKnown, RowsKept, QueuesKnown
<1>3. \A s : RequestKnown(s) => RequestKnown(s)' BY DEF RowsKept, RequestKnown, T!Removals
<1>4. handler' = handler => RequestsKnown' BY <1>3 DEF RemovesKnown, RequestsKnown
<1>5. running' = running /\ lapsed' = lapsed => LateKnown' BY DEF RemovesKnown, LateKnown
<1> QED BY <1>1, <1>2, <1>3, <1>4, <1>5

LEMMA TodoRemains ==
    ASSUME QueuesTyped, NEW x \in T!Locks, T!Running(x),
           NEW q, q = T!Current(x).todo \/ (T!Current(x).todo # <<>> /\ q = Tail(T!Current(x).todo))
    PROVE  /\ q \in Seq(Steps) /\ InTurn(q)
           /\ \A i \in DOMAIN q : q[i].op \in Does(T!Current(x).kind) /\ (q[i].op = "remove" => q[i].file \in T!Removals(T!Current(x)))
<1> DEFINE k == T!Current(x)
<1>1. k \in Fit(x) /\ k.todo \in Seq(Steps) BY CurrentFits
<1>2. InTurn(k.todo) /\ \A i \in DOMAIN k.todo : StepFits(k, k.todo[i]) BY <1>1 DEF Fit
<1>3. CASE q = k.todo BY <1>1, <1>2, <1>3 DEF StepFits
<1>4. CASE k.todo # <<>> /\ q = Tail(k.todo)
  <2>1. q \in Seq(Steps) /\ \A i \in DOMAIN q : i + 1 \in DOMAIN k.todo /\ q[i] = k.todo[i + 1] BY <1>1, <1>4, HeadOf
  <2>2. InTurn(q) BY <1>1, <1>2, <1>4, InTurnTail
  <2>3. \A i \in DOMAIN q : StepFits(k, q[i]) BY <1>2, <2>1
  <2> QED BY <2>1, <2>2, <2>3 DEF StepFits
<1> QED BY <1>3, <1>4

LEMMA LateFails ==
    ASSUME TemplatesTyped, RemovesKnown, NEW x \in T!Locks, T!Running(x), T!Fail(x),
           NEW q, q = T!Current(x).todo \/ (T!Current(x).todo # <<>> /\ q = Tail(T!Current(x).todo)),
           running' \subseteq T!Since(q)
    PROVE  LateTyped' /\ LateKnown'
<1>1. /\ q \in Seq(Steps) /\ InTurn(q)
      /\ \A i \in DOMAIN q : q[i].op = "remove" => q[i].file \in T!Removals(T!Current(x))
  BY TodoRemains DEF TemplatesTyped
<1>2. \A p \in running' : p \in running \/ (p = q /\ q # <<>>) BY DEF T!Since
<1>3. LateTyped' BY <1>1, <1>2 DEF TemplatesTyped, LateTyped, Remainder
<1>4. lapsed' = lapsed \cup T!Removals(T!Current(x)) BY DEF T!Fail
<1>5. LateKnown' BY <1>1, <1>2, <1>4 DEF RemovesKnown, LateKnown
<1> QED BY <1>3, <1>5

LEMMA WorkStays ==
    ASSUME TemplatesInv, NEW x \in T!Locks, T!Work(x)
    PROVE  TemplatesInv'
<1> DEFINE s == Head(T!Current(x).todo)
<1> USE DEF TemplatesInv
<1>1. /\ T!Running(x) /\ T!Current(x).todo # <<>> /\ T!Tables /\ table' = table /\ machine' = machine
      /\ running' = running /\ handler' = handler
  BY DEF T!Work, T!Tables
<1>2. QueuesTyped /\ FilesTyped /\ TablesTyped /\ TablesTyped' /\ LateTyped' /\ RequestsTyped' /\ RowsKept
  BY <1>1 DEF TemplatesTyped, TablesTyped, LateTyped, RequestsTyped, RowsKept, Known
<1>3. s \in Steps BY <1>1, <1>2, StepOf
<1>4. CASE /\ T!Can(s) /\ T!Do(s) /\ lapsed' = lapsed
           /\ queue' = [queue EXCEPT ![x] = <<[T!Current(x) EXCEPT !.todo = Tail(@)]>> \o Tail(queue[x])]
  <2>1. FilesTyped' BY <1>2, <1>3, <1>4, DoFiles
  <2>2. /\ QueuesTyped' /\ Waits'
        /\ \A y \in T!Locks : \A i \in DOMAIN queue'[y] : \E j \in DOMAIN queue[y] : T!Removals(queue'[y][i]) = T!Removals(queue[y][j])
    BY <1>1, <1>2, <1>4, AfterStep
  <2>3. RemovesKnown' BY <1>1, <1>2, <1>4, <2>2, KnownKept DEF RemovesKnown
  <2>4. MachinesSafe' BY <1>1, <1>4, MachinesDone
  <2>5. TemplatesSafe' BY <1>1, <1>4, TemplatesDone
  <2> QED BY <1>2, <2>1, <2>2, <2>3, <2>4, <2>5 DEF TemplatesTyped
<1>5. CASE T!Undo(s) /\ T!Fail(x)
  <2>1. FilesTyped' BY <1>2, <1>3, <1>5, UndoFiles
  <2>2. T!Drop(x) BY <1>5 DEF T!Fail
  <2>3. /\ QueuesTyped' /\ Waits'
        /\ \A y \in T!Locks : \A i \in DOMAIN queue'[y] : \E j \in DOMAIN queue[y] : queue'[y][i] = queue[y][j]
    BY <1>1, <1>2, <2>2, AfterDrop
  <2>4. \A y \in T!Locks : \A i \in DOMAIN queue'[y] : \E j \in DOMAIN queue[y] : T!Removals(queue'[y][i]) = T!Removals(queue[y][j])
    BY <2>3
  <2>5. QueuesKnown' /\ RequestsKnown' BY <1>1, <1>2, <2>4, KnownKept
  <2>6. LateKnown'
    <3>1. running' \subseteq T!Since(T!Current(x).todo) BY <1>1 DEF T!Since
    <3> QED BY <1>1, <1>5, <3>1, LateFails
  <2>7. MachinesSafe'
    <3>1. running' \subseteq running \cup {<<>>} /\ \A m : ~Rebuilding(<<>>, m) BY <1>1 DEF Rebuilding
    <3> QED BY <1>1, <1>5, <2>2, <3>1, MachinesRefused
  <2>8. TemplatesSafe'
    <3>1. running' \subseteq running \cup {<<>>} /\ \A t : ~Checking(<<>>, t) BY <1>1 DEF Checking
    <3> QED BY <1>1, <1>5, <3>1, TemplatesRefused
  <2> QED BY <1>2, <2>1, <2>3, <2>5, <2>6, <2>7, <2>8 DEF TemplatesTyped, RemovesKnown
<1> QED BY <1>4, <1>5 DEF T!Work

LEMMA RefuseStays ==
    ASSUME TemplatesInv, NEW x \in T!Locks, T!Refuse(x)
    PROVE  TemplatesInv'
<1> DEFINE s == Head(T!Current(x).todo)
           q == Tail(T!Current(x).todo)
<1> USE DEF TemplatesInv
<1>1. /\ T!Running(x) /\ T!Current(x).todo # <<>> /\ T!Tables /\ table' = table /\ machine' = machine /\ handler' = handler
      /\ T!Undo(s) /\ T!Fail(x) /\ T!Drop(x)
  BY DEF T!Refuse, T!Tables, T!Fail
<1>2. QueuesTyped /\ FilesTyped /\ TablesTyped' /\ RequestsTyped' /\ RowsKept
  BY <1>1 DEF TemplatesTyped, TablesTyped, RequestsTyped, RowsKept, Known
<1>3. s \in Steps BY <1>1, <1>2, StepOf
<1>4. FilesTyped' BY <1>1, <1>2, <1>3, UndoFiles
<1>5. /\ QueuesTyped' /\ Waits'
      /\ \A y \in T!Locks : \A i \in DOMAIN queue'[y] : \E j \in DOMAIN queue[y] : queue'[y][i] = queue[y][j]
  BY <1>1, <1>2, AfterDrop
<1>6. \A y \in T!Locks : \A i \in DOMAIN queue'[y] : \E j \in DOMAIN queue[y] : T!Removals(queue'[y][i]) = T!Removals(queue[y][j])
  BY <1>5
<1>7. QueuesKnown' /\ RequestsKnown' BY <1>1, <1>2, <1>6, KnownKept
<1>8. running' \subseteq T!Since(q) BY DEF T!Refuse, T!Since
<1>9. LateTyped' /\ LateKnown' BY <1>1, <1>8, LateFails
<1>10. PICK p : p = IF T!Current(x).kind = "delete" THEN q ELSE <<>> OBVIOUS
<1>11. running' \subseteq running \cup {p} BY <1>10 DEF T!Refuse, T!Since
<1>12. (\A m : ~Rebuilding(p, m)) /\ \A t : ~Checking(p, t)
  <2>1. CASE T!Current(x).kind = "delete"
    <3>1. q \in Seq(Steps) /\ \A i \in DOMAIN q : q[i].op \in Does(T!Current(x).kind) BY <1>1, <1>2, TodoRemains
    <3>2. q # <<>> => Head(q).op \in {"remove", "reparent"}
      <4>1. q # <<>> => Head(q) = q[1] /\ 1 \in DOMAIN q BY <3>1, HeadOf
      <4> QED BY <2>1, <3>1, <4>1 DEF Does
    <3> QED BY <1>10, <2>1, <3>2 DEF Rebuilding, Checking
  <2>2. CASE T!Current(x).kind # "delete" BY <1>10, <2>2 DEF Rebuilding, Checking
  <2> QED BY <2>1, <2>2
<1>13. MachinesSafe' BY <1>1, <1>11, <1>12, MachinesRefused
<1>14. TemplatesSafe' BY <1>1, <1>11, <1>12, TemplatesRefused
<1> QED BY <1>2, <1>4, <1>5, <1>7, <1>9, <1>13, <1>14 DEF TemplatesTyped, RemovesKnown

LEMMA LoseStays ==
    ASSUME TemplatesInv, NEW x \in T!Locks, T!Lose(x)
    PROVE  TemplatesInv'
<1> USE DEF TemplatesInv
<1>1. /\ T!Running(x) /\ T!Tables /\ T!Files /\ table' = table /\ machine' = machine /\ handler' = handler /\ T!Fail(x) /\ T!Drop(x)
      /\ running' = T!Since(T!Current(x).todo)
  BY DEF T!Lose, T!Tables, T!Fail
<1>2. QueuesTyped /\ FilesTyped' /\ TablesTyped' /\ RequestsTyped' /\ RowsKept
  BY <1>1 DEF TemplatesTyped, TablesTyped, FilesTyped, T!Files, RequestsTyped, RowsKept, Known
<1>3. /\ QueuesTyped' /\ Waits'
      /\ \A y \in T!Locks : \A i \in DOMAIN queue'[y] : \E j \in DOMAIN queue[y] : queue'[y][i] = queue[y][j]
  BY <1>1, <1>2, AfterDrop
<1>4. \A y \in T!Locks : \A i \in DOMAIN queue'[y] : \E j \in DOMAIN queue[y] : T!Removals(queue'[y][i]) = T!Removals(queue[y][j])
  BY <1>3
<1>5. QueuesKnown' /\ RequestsKnown' BY <1>1, <1>2, <1>4, KnownKept
<1>6. LateTyped' /\ LateKnown' BY <1>1, LateFails
<1>7. MachinesSafe' BY <1>1, MachinesLost
<1>8. TemplatesSafe' BY <1>1, TemplatesLost
<1> QED BY <1>2, <1>3, <1>5, <1>6, <1>7, <1>8 DEF TemplatesTyped, RemovesKnown

LEMMA LateStays ==
    ASSUME TemplatesInv, NEW todo \in running, T!Late(todo)
    PROVE  TemplatesInv'
<1> USE DEF TemplatesInv
<1>1. T!Tables /\ table' = table /\ machine' = machine /\ queue' = queue /\ handler' = handler /\ lapsed' = lapsed
  BY DEF T!Late, T!Tables
<1>2. TablesTyped' /\ QueuesTyped' /\ RequestsTyped' /\ Waits' /\ RowsKept
  <2>1. TablesTyped' /\ RequestsTyped' /\ RowsKept BY <1>1 DEF TemplatesTyped, TablesTyped, RequestsTyped, RowsKept, Known
  <2>2. QueuesTyped' BY <1>1 DEF TemplatesTyped, QueuesTyped, Fit, TemplateTask
  <2>3. Waits' BY <1>1 DEF Waits, Untouched, Rebuilds, Renewed, Copied
  <2> QED BY <2>1, <2>2, <2>3
<1>3. todo \in Seq(Steps) /\ todo # <<>> /\ InTurn(todo) BY DEF TemplatesTyped, LateTyped, Remainder
<1>4. /\ Head(todo) \in Steps /\ Tail(todo) \in Seq(Steps) /\ InTurn(Tail(todo))
      /\ \A i \in DOMAIN Tail(todo) : i + 1 \in DOMAIN todo /\ Tail(todo)[i] = todo[i + 1]
  BY <1>3, HeadOf, InTurnTail
<1>5. FilesTyped' BY <1>4, DoFiles, UndoFiles DEF T!Late, TemplatesTyped
<1>6. \A p \in running' : p \in running \/ (p = Tail(todo) /\ p # <<>>) BY DEF T!Late
<1>7. LateTyped' BY <1>4, <1>6 DEF TemplatesTyped, LateTyped, Remainder
<1>8. \A i \in DOMAIN Tail(todo) : Tail(todo)[i].op = "remove" => Tail(todo)[i].file \in lapsed
  BY <1>4 DEF RemovesKnown, LateKnown
<1>9. LateKnown' BY <1>1, <1>6, <1>8 DEF RemovesKnown, LateKnown
<1>10. QueuesKnown' /\ RequestsKnown' BY <1>1, <1>2, KnownKept
<1>11. MachinesSafe' BY MachinesLate
<1>12. TemplatesSafe' BY TemplatesLate
<1> QED BY <1>2, <1>5, <1>7, <1>9, <1>10, <1>11, <1>12 DEF TemplatesTyped, RemovesKnown

-----------------------------------------------------------------------------
(* Templates: what a task writes in the end, and the requests.             *)

LEMMA AdoptedRows ==
    ASSUME TablesTyped, NEW t \in T!Templates
    PROVE  T!Adopted(t) \in [T!Templates -> RowType] /\ \A c \in T!Templates : T!Adopted(t)[c].state = table[c].state
<1>1. table \in [T!Templates -> RowType] BY DEF TablesTyped
<1>2. ASSUME NEW c \in T!Templates
      PROVE  /\ (IF T!Alive(c) /\ table[c].parent = t THEN [table[c] EXCEPT !.parent = table[t].parent] ELSE table[c]) \in RowType
             /\ (IF T!Alive(c) /\ table[c].parent = t THEN [table[c] EXCEPT !.parent = table[t].parent] ELSE table[c]).state = table[c].state
  <2>1. table[c] \in RowType /\ table[t] \in RowType BY <1>1
  <2> QED BY <2>1 DEF RowType
<1> QED BY <1>2 DEF T!Adopted

LEMMA DeletedRows ==
    ASSUME NEW rows \in [T!Templates -> RowType], NEW ids
    PROVE  /\ T!Deleted(ids, rows) \in [T!Templates -> RowType]
           /\ \A t \in T!Templates : T!Deleted(ids, rows)[t].state = IF t \in ids THEN "deleted" ELSE rows[t].state
<1>1. ASSUME NEW t \in T!Templates
      PROVE  /\ (IF t \in ids THEN [rows[t] EXCEPT !.state = "deleted"] ELSE rows[t]) \in RowType
             /\ (IF t \in ids THEN [rows[t] EXCEPT !.state = "deleted"] ELSE rows[t]).state = IF t \in ids THEN "deleted" ELSE rows[t].state
  <2>1. rows[t] \in RowType OBVIOUS
  <2> QED BY <2>1 DEF RowType
<1> QED BY <1>1 DEF T!Deleted

\* The states of the rows after a task.
LEMMA RowsAfter ==
    ASSUME TemplatesTyped, RemovesKnown, NEW x \in T!Locks, T!Running(x),
           T!NewClone(T!Current(x)) \/ T!NewTemplate(T!Current(x)) \/ T!ChangedMachine(T!Current(x)) \/ T!ChangedTemplates(T!Current(x))
    PROVE  /\ table' \in [T!Templates -> RowType]
           /\ \A t \in T!Removals(T!Current(x)) : table'[t].state = "deleted"
           /\ \A t \in T!Templates :
                \/ table'[t].state = table[t].state
                \/ t \in T!Removals(T!Current(x))
                \/ T!Current(x).kind = "prepare" /\ t = T!Current(x).template /\ table[t].state = "none" /\ table'[t].state = "ready"
<1> DEFINE k == T!Current(x)
<1>1. k \in Fit(x) /\ k = queue[x][1] /\ 1 \in DOMAIN queue[x] BY CurrentFits DEF TemplatesTyped
<1>2. k \in TemplateTask /\ Subject(k) BY <1>1 DEF Fit
<1>3. k.ids \subseteq T!Templates /\ k.to \in Int /\ (k.kind \in TemplateKinds => k.on \in T!Templates)
      /\ (k.kind = "prepare" => k.template \in T!Templates)
  BY <1>2 DEF TemplateTask, Subject
<1>4. table \in [T!Templates -> RowType] BY DEF TemplatesTyped, TablesTyped
<1>5. T!Removals(k) \subseteq Known BY <1>1 DEF RemovesKnown, QueuesKnown
<1>6. CASE T!NewTemplate(k)
  <2>1. k.kind = "prepare" /\ k.template \in T!Templates /\ T!Removals(k) = {} BY <1>3, <1>6 DEF T!NewTemplate, T!Removals
  <2>2. CASE table[k.template].state # "none"
    <3>1. table' = table BY <1>6, <2>2 DEF T!NewTemplate
    <3> QED BY <1>4, <2>1, <3>1
  <2>3. CASE table[k.template].state = "none"
    <3>1. PICK v : v = [state |-> "ready", parent |-> k.to] OBVIOUS
    <3>2. table' = [table EXCEPT ![k.template] = v] BY <1>6, <2>3, <3>1 DEF T!NewTemplate
    <3>3. v \in RowType /\ v.state = "ready" BY <1>3, <3>1 DEF RowType
    <3> QED BY <1>4, <2>1, <2>3, <3>2, <3>3
  <2> QED BY <2>2, <2>3
<1>7. CASE T!NewClone(k) \/ T!ChangedMachine(k)
  <2>1. table' = table /\ T!Removals(k) = {} BY <1>7 DEF T!NewClone, T!ChangedMachine, T!Removals
  <2> QED BY <1>4, <2>1
<1>8. CASE T!ChangedTemplates(k)
  <2>1. k.on \in T!Templates BY <1>3, <1>8 DEF T!ChangedTemplates, TemplateKinds
  <2>2. CASE k.kind = "delete"
    <3>1. table' = T!Deleted(k.ids, table) /\ T!Removals(k) = k.ids BY <1>8, <2>2 DEF T!ChangedTemplates, T!Gone, T!Removals
    <3> QED BY <1>3, <1>4, <3>1, DeletedRows
  <2>3. CASE k.kind = "promote_delete"
    <3>1. T!Removals(k) = {k.on} BY <2>3 DEF T!Removals
    <3>2. CASE T!Alive(k.on)
      <4>1. table' = T!Deleted({k.on}, T!Adopted(k.on)) BY <1>8, <2>3, <3>2 DEF T!ChangedTemplates
      <4>2. T!Adopted(k.on) \in [T!Templates -> RowType] /\ \A c \in T!Templates : T!Adopted(k.on)[c].state = table[c].state
        BY <2>1, AdoptedRows DEF TemplatesTyped
      <4> QED BY <2>1, <3>1, <4>1, <4>2, DeletedRows
    <3>3. CASE ~T!Alive(k.on)
      <4>1. table' = table BY <1>8, <2>3, <3>3 DEF T!ChangedTemplates
      <4>2. table[k.on] \in RowType BY <1>4, <2>1
      <4>3. table[k.on].state = "deleted" BY <1>5, <3>1, <3>3, <4>2 DEF Known, T!Alive, RowType
      <4> QED BY <1>4, <3>1, <4>1, <4>3
    <3> QED BY <3>2, <3>3
  <2>4. CASE k.kind = "promote_child" /\ T!Alive(k.on)
    <3>1. table' = [c \in T!Templates |-> IF c \in k.ids /\ T!Alive(c) THEN [table[c] EXCEPT !.parent = table[k.on].parent] ELSE table[c]]
      BY <1>8, <2>4 DEF T!ChangedTemplates
    <3>2. ASSUME NEW c \in T!Templates
          PROVE  /\ (IF c \in k.ids /\ T!Alive(c) THEN [table[c] EXCEPT !.parent = table[k.on].parent] ELSE table[c]) \in RowType
                 /\ (IF c \in k.ids /\ T!Alive(c) THEN [table[c] EXCEPT !.parent = table[k.on].parent] ELSE table[c]).state = table[c].state
      <4>1. table[c] \in RowType /\ table[k.on] \in RowType BY <1>4, <2>1
      <4> QED BY <4>1 DEF RowType
    <3>3. T!Removals(k) = {} BY <2>4 DEF T!Removals
    <3> QED BY <3>1, <3>2, <3>3
  <2>5. CASE k.kind \notin {"delete", "promote_delete"} /\ ~(k.kind = "promote_child" /\ T!Alive(k.on))
    <3>1. table' = table BY <1>8, <2>5 DEF T!ChangedTemplates
    <3>2. T!Removals(k) = {} BY <2>5 DEF T!Removals
    <3> QED BY <1>4, <3>1, <3>2
  <2> QED BY <2>2, <2>3, <2>4, <2>5
<1> QED BY <1>6, <1>7, <1>8

LEMMA FinishStays ==
    ASSUME TemplatesInv, NEW x \in T!Locks, T!Finish(x)
    PROVE  TemplatesInv'
<1> DEFINE k == T!Current(x)
<1> USE DEF TemplatesInv
<1>1. /\ T!Running(x) /\ k.todo = <<>> /\ T!Drop(x) /\ T!Files /\ running' = running /\ handler' = handler /\ lapsed' = lapsed
      /\ T!NewClone(k) \/ T!NewTemplate(k) \/ T!ChangedMachine(k) \/ T!ChangedTemplates(k)
  BY DEF T!Finish
<1>2. TemplatesTyped /\ QueuesTyped BY DEF TemplatesTyped
<1>3. (\A m \in Machines : machine'[m].mode = "full" => Firm(m)) /\ machine' \in [Machines -> MachineType]
  BY <1>1, FullIsFirm
<1>4. /\ table' \in [T!Templates -> RowType] /\ (\A t \in T!Removals(k) : table'[t].state = "deleted")
      /\ \A t \in T!Templates : \/ table'[t].state = table[t].state
                                \/ t \in T!Removals(k)
                                \/ k.kind = "prepare" /\ t = k.template /\ table[t].state = "none" /\ table'[t].state = "ready"
  BY <1>1, RowsAfter
<1>5. RowsKept
  <2> SUFFICES ASSUME NEW t \in Known PROVE t \in Known' BY DEF RowsKept
  <2>1. t \in T!Templates /\ table[t].state # "none" BY DEF Known
  <2>2. table'[t].state # "none" BY <1>4, <2>1
  <2> QED BY <2>1, <2>2 DEF Known
<1>6. TablesTyped' /\ FilesTyped' /\ LateTyped' /\ RequestsTyped'
  BY <1>1, <1>3, <1>4 DEF TemplatesTyped, TablesTyped, FilesTyped, T!Files, LateTyped, RequestsTyped
<1>7. /\ QueuesTyped' /\ Waits'
      /\ \A y \in T!Locks : \A i \in DOMAIN queue'[y] : \E j \in DOMAIN queue[y] : queue'[y][i] = queue[y][j]
  BY <1>1, <1>2, AfterDrop
<1>8. \A y \in T!Locks : \A i \in DOMAIN queue'[y] : \E j \in DOMAIN queue[y] : T!Removals(queue'[y][i]) = T!Removals(queue[y][j])
  BY <1>7
<1>9. RemovesKnown' BY <1>1, <1>5, <1>8, KnownKept DEF RemovesKnown
<1>10. /\ NoNews /\ (\A t \in T!Templates : ~Copying(x, t)')
       /\ \A y \in T!Locks : \A t \in T!Templates : Removing(y, t) => y = x \/ Removing(y, t)'
  BY <1>1, <1>2, DropHeads
<1>11. MachinesSafe' BY <1>1, <1>3, <1>10, MachinesUntouched
<1>12. \A y \in T!Locks : \A t \in T!Templates : Copying(y, t)' => Copying(y, t) BY <1>10, NoNewsHeads
<1>13. ASSUME NEW t \in T!Templates PROVE TemplateSafe(t)'
  <2>1. TemplateSafe(t) BY DEF TemplatesSafe
  <2>2. t \in T!Removals(k) => Pardoned(t)' BY <1>4 DEF Pardoned
  <2>3. Pardoned(t) => Pardoned(t)'
    <3>1. table[t].state = "deleted" => table'[t].state = "deleted" BY <1>4
    <3>2. \A y \in T!Locks : Removing(y, t) => Removing(y, t)' \/ Pardoned(t)' BY <1>10, <2>2 DEF Removing
    <3> QED BY <1>1, <3>1, <3>2, PardonedStays
  <2>4. image'[t] = image[t] BY <1>1 DEF T!Files
  <2>5. running' \subseteq running \cup {<<>>} /\ ~Checking(<<>>, t) BY <1>1 DEF Checking
  <2>6. CASE k.kind = "prepare" /\ t = k.template
    <3>1. Copying(x, t) BY <1>1, <2>6 DEF Copying, Copied
    <3>2. ~NoCopy(t) BY <3>1 DEF NoCopy
    <3>3. AtMostOne(t) => NoCopy(t)' BY <1>10, <1>12, <2>5, <3>1, CopyEnds
    <3> QED BY <2>1, <2>3, <2>4, <3>2, <3>3, TemplateEnds
  <2>7. CASE ~(k.kind = "prepare" /\ t = k.template)
    <3>1. (NoCopy(t) => NoCopy(t)') /\ (AtMostOne(t) => AtMostOne(t)') BY <1>12, <2>5, CopiesStay
    <3>2. table'[t].state = table[t].state \/ Pardoned(t)' BY <1>4, <2>2, <2>7
    <3> QED BY <2>1, <2>3, <2>4, <3>1, <3>2, TemplateStays
  <2> QED BY <2>6, <2>7
<1>14. TemplatesSafe' BY <1>13 DEF TemplatesSafe
<1> QED BY <1>6, <1>7, <1>9, <1>11, <1>14 DEF TemplatesTyped

\* Requests change no file, no task that runs, and no state of a row.
LEMMA RequestMoves ==
    ASSUME TemplatesInv, NEW r \in Cloners, NEW s \in TemplateRequest, T!Go(r, s), RequestKnown(s), T!Files,
           machine' = machine, running' = running, lapsed' = lapsed, TablesTyped',
           \A t \in T!Templates : table'[t].state = table[t].state,
           \/ queue' = queue
           \/ \E x \in T!Locks : \E n \in Fit(x) :
                Untouched(n) /\ T!Removals(n) \subseteq Known /\ queue' = [queue EXCEPT ![x] = Append(@, n)]
    PROVE  TemplatesInv'
<1> USE DEF TemplatesInv
<1>1. RowsKept BY DEF RowsKept, Known
<1>2. FilesTyped' /\ LateTyped' BY DEF TemplatesTyped, FilesTyped, T!Files, LateTyped
<1>3. handler \in [Cloners -> TemplateRequest] /\ handler' = [handler EXCEPT ![r] = s] BY DEF TemplatesTyped, RequestsTyped, T!Go
<1>4. RequestsTyped' BY <1>3 DEF RequestsTyped
<1>5. RequestsKnown'
  <2>1. \A i \in Cloners : RequestKnown(handler[i]) BY DEF RemovesKnown, RequestsKnown
  <2>2. \A i \in Cloners : RequestKnown(handler'[i]) BY <1>3, <2>1
  <2>3. \A i \in Cloners : RequestKnown(handler[i])' BY <1>1, <2>2 DEF RowsKept, RequestKnown, T!Removals
  <2> QED BY <2>3 DEF RequestsKnown
<1>6. LateKnown' BY <1>1, KnownKept
<1>7. /\ QueuesTyped' /\ Waits' /\ NoNews /\ QueuesKnown'
      /\ \A y \in T!Locks : \A t \in T!Templates : Removing(y, t) => Removing(y, t)'
  <2>1. CASE queue' = queue
    <3>0. QueuesTyped' BY <2>1 DEF TemplatesTyped, QueuesTyped
    <3>1. Waits' BY <2>1 DEF Waits, Untouched, Rebuilds, Renewed, Copied
    <3>2. QueuesKnown' BY <1>1, <2>1, KnownKept
    <3> QED BY <2>1, <3>0, <3>1, <3>2, SameHeads
  <2>2. CASE \E x \in T!Locks : \E n \in Fit(x) :
                Untouched(n) /\ T!Removals(n) \subseteq Known /\ queue' = [queue EXCEPT ![x] = Append(@, n)]
    <3>0. PICK x \in T!Locks : \E n \in Fit(x) :
                Untouched(n) /\ T!Removals(n) \subseteq Known /\ queue' = [queue EXCEPT ![x] = Append(@, n)]
      BY <2>2
    <3>1. PICK n \in Fit(x) :
                Untouched(n) /\ T!Removals(n) \subseteq Known /\ queue' = [queue EXCEPT ![x] = Append(@, n)]
      BY <3>0
    <3>2. /\ QueuesTyped' /\ Waits' /\ Others(x)
          /\ T!Running(x)' /\ (T!Running(x) => T!Current(x)' = T!Current(x)) /\ (~T!Running(x) => T!Current(x)' = n)
          /\ \A y \in T!Locks : \A i \in DOMAIN queue'[y] :
                 queue'[y][i] = n \/ \E j \in DOMAIN queue[y] : queue'[y][i] = queue[y][j]
      BY <3>1, AfterAppend DEF TemplatesTyped
    <3>3. NoNews
      <4> SUFFICES ASSUME NEW y \in T!Locks, T!Running(y)'
                   PROVE  Untouched(T!Current(y)') \/ (T!Running(y) /\ T!Current(y)' = T!Current(y))
        BY DEF NoNews
      <4>1. CASE y = x BY <3>1, <3>2, <4>1
      <4>2. CASE y # x BY <3>2, <4>2 DEF Others
      <4> QED BY <4>1, <4>2
    <3>4. ASSUME NEW y \in T!Locks, NEW t \in T!Templates, Removing(y, t) PROVE Removing(y, t)'
      <4>1. T!Running(y)' /\ T!Current(y)' = T!Current(y) BY <3>2, <3>4 DEF Others, Removing
      <4> QED BY <3>4, <4>1 DEF Removing, T!Removals
    <3>5. ASSUME NEW y \in T!Locks, NEW i \in DOMAIN queue'[y] PROVE T!Removals(queue'[y][i]) \subseteq Known'
      <4>1. CASE queue'[y][i] = n BY <1>1, <3>1, <4>1 DEF RowsKept
      <4>2. CASE \E j \in DOMAIN queue[y] : queue'[y][i] = queue[y][j]
        BY <1>1, <4>2 DEF RowsKept, RemovesKnown, QueuesKnown
      <4> QED BY <3>2, <4>1, <4>2
    <3>6. QueuesKnown' BY <3>5 DEF QueuesKnown, T!Removals
    <3> QED BY <3>2, <3>3, <3>4, <3>6
  <2> QED BY <2>1, <2>2
<1>8. MachinesSafe' BY <1>7, MachinesUntouched DEF Firm
<1>9. ASSUME NEW t \in T!Templates PROVE TemplateSafe(t)'
  <2>1. TemplateSafe(t) BY DEF TemplatesSafe
  <2>2. Pardoned(t) => Pardoned(t)' BY <1>7, PardonedStays
  <2>3. \A y \in T!Locks : Copying(y, t)' => Copying(y, t) BY <1>7, NoNewsHeads
  <2>4. running' \subseteq running \cup {<<>>} /\ ~Checking(<<>>, t) BY DEF Checking
  <2>5. (NoCopy(t) => NoCopy(t)') /\ (AtMostOne(t) => AtMostOne(t)') BY <2>3, <2>4, CopiesStay
  <2>6. image'[t] = image[t] BY DEF T!Files
  <2> QED BY <2>1, <2>2, <2>5, <2>6, TemplateStays
<1>10. TemplatesSafe' BY <1>9 DEF TemplatesSafe
<1> QED BY <1>2, <1>4, <1>5, <1>6, <1>7, <1>8, <1>10 DEF TemplatesTyped, RemovesKnown

-----------------------------------------------------------------------------
(* Templates: the requests, one by one.                                    *)

LEMMA DraftIs ==
    ASSUME NEW kind \in MachineKinds \cup TemplateKinds, NEW on, NEW t \in Int, NEW ids \in SUBSET T!Templates, NEW to \in Int,
           kind \in MachineKinds => on \in Machines, kind \in TemplateKinds => on \in T!Templates,
           kind = "prepare" => t \in T!Templates,
           NEW s, s = T!Ending(T!Task(kind, on, t, ids, to)),
           kind = "delete" => ids \subseteq Known, kind = "promote_delete" => on \in Known
    PROVE  s \in TemplateRequest /\ RequestKnown(s)
<1>1. PICK k : k = T!Task(kind, on, t, ids, to) OBVIOUS
<1>2. on \in T!Templates \cup Machines /\ <<>> \in Seq(Steps) BY DEF MachineKinds, TemplateKinds
<1>3. /\ k \in TemplateTask /\ k.todo = <<>> /\ k.kind = kind /\ k.on = on /\ k.template = t /\ k.ids = ids
  BY <1>1, <1>2 DEF T!Task, TemplateTask
<1>4. k \in Draft BY <1>3 DEF Draft, Subject
<1>5. s = [pc |-> "enqueue", task |-> k] BY <1>1 DEF T!Ending
<1>6. s \in TemplateRequest BY <1>4, <1>5 DEF TemplateRequest, Ended
<1>7. T!Removals(k) \subseteq Known BY <1>3 DEF T!Removals
<1> QED BY <1>5, <1>6, <1>7 DEF RequestKnown

LEMMA TemplatesInt == T!Templates \subseteq Int /\ T!Alone \in Int
BY PartAssumptions, ReadableIs DEF T!TemplatesAssumption, T!Templates

LEMMA AsksStay ==
    ASSUME TemplatesInv, NEW r \in Cloners, NEW kind, NEW s, T!Ask(r, kind, s), s \in TemplateRequest, RequestKnown(s)
    PROVE  TemplatesInv'
<1>1. T!Go(r, s) /\ T!Files /\ machine' = machine /\ table' = table /\ running' = running /\ lapsed' = lapsed /\ queue' = queue
  BY DEF T!Ask, T!Go, T!Tables
<1>2. TablesTyped' BY <1>1 DEF TemplatesInv, TemplatesTyped, TablesTyped
<1> QED BY <1>1, <1>2, RequestMoves

LEMMA IdleIs == T!Idle \in TemplateRequest /\ RequestKnown(T!Idle)
BY DEF TemplateRequest, RequestKnown, T!Idle

LEMMA NewRequests ==
    ASSUME TemplatesInv, NEW r \in Cloners
    PROVE  /\ \A m \in Machines, t \in T!Templates : \A mode \in {"linked", "full"} : T!Clone(r, m, t, mode) => TemplatesInv'
           /\ \A m \in Machines, t \in T!Templates : \A p \in T!Templates \cup {T!Alone} : T!CreateFromVM(r, m, t, p) => TemplatesInv'
           /\ \A m \in Machines, t \in T!Templates : T!Reinstall(r, m, t) => TemplatesInv'
           /\ \A m \in Machines : T!MakeDisksIndependent(r, m) \/ T!PurgeBackup(r, m) => TemplatesInv'
<1>1. ASSUME NEW m \in Machines, NEW t \in T!Templates, NEW mode \in {"linked", "full"}, T!Clone(r, m, t, mode) PROVE TemplatesInv'
  <2>1. PICK s : s = T!Ending(T!Task(mode, m, t, {}, T!Alone)) OBVIOUS
  <2>2. s \in TemplateRequest /\ RequestKnown(s)
    <3>1. mode \in MachineKinds /\ mode \notin TemplateKinds /\ mode # "prepare" BY DEF MachineKinds, TemplateKinds
    <3> QED BY <2>1, <3>1, DraftIs, TemplatesInt DEF TemplateKinds
  <2>3. T!Ask(r, "clone", s) BY <1>1, <2>1 DEF T!Clone
  <2> QED BY <2>2, <2>3, AsksStay
<1>2. ASSUME NEW m \in Machines, NEW t \in T!Templates, NEW p \in T!Templates \cup {T!Alone}, T!CreateFromVM(r, m, t, p) PROVE TemplatesInv'
  <2>1. PICK s : s = T!Ending(T!Task("prepare", m, t, {}, p)) OBVIOUS
  <2>2. s \in TemplateRequest /\ RequestKnown(s) BY <2>1, DraftIs, TemplatesInt DEF MachineKinds, TemplateKinds
  <2>3. T!Ask(r, "prepare", s) BY <1>2, <2>1 DEF T!CreateFromVM
  <2> QED BY <2>2, <2>3, AsksStay
<1>3. ASSUME NEW m \in Machines, NEW t \in T!Templates, T!Reinstall(r, m, t) PROVE TemplatesInv'
  <2>1. PICK s : s = T!Ending(T!Task("reinstall", m, t, {}, T!Alone)) OBVIOUS
  <2>2. s \in TemplateRequest /\ RequestKnown(s) BY <2>1, DraftIs, TemplatesInt DEF MachineKinds, TemplateKinds
  <2>3. T!Ask(r, "reinstall", s) BY <1>3, <2>1 DEF T!Reinstall
  <2> QED BY <2>2, <2>3, AsksStay
<1>4. ASSUME NEW m \in Machines, T!MakeDisksIndependent(r, m) PROVE TemplatesInv'
  <2>1. PICK s : s = T!Ending(T!Task("independent", m, T!Alone, {}, T!Alone)) OBVIOUS
  <2>2. s \in TemplateRequest /\ RequestKnown(s) BY <2>1, DraftIs, TemplatesInt DEF MachineKinds, TemplateKinds
  <2>3. T!Ask(r, "independent", s) BY <1>4, <2>1 DEF T!MakeDisksIndependent
  <2> QED BY <2>2, <2>3, AsksStay
<1>5. ASSUME NEW m \in Machines, T!PurgeBackup(r, m) PROVE TemplatesInv'
  <2>1. PICK s : s = T!Ending(T!Task("purge", m, T!Alone, {}, T!Alone)) OBVIOUS
  <2>2. s \in TemplateRequest /\ RequestKnown(s) BY <2>1, DraftIs, TemplatesInt DEF MachineKinds, TemplateKinds
  <2>3. T!Ask(r, "purge", s) BY <1>5, <2>1 DEF T!PurgeBackup
  <2> QED BY <2>2, <2>3, AsksStay
<1> QED BY <1>1, <1>2, <1>3, <1>4, <1>5

LEMMA NewTemplateRequests ==
    ASSUME TemplatesInv, NEW r \in Cloners, NEW t \in T!Templates
    PROVE  /\ \A strategy \in {"none", "cascade", "promote"} : T!Delete(r, t, strategy) => TemplatesInv'
           /\ \A action \in Actions : \A c \in Int : T!Maintain(r, t, action, c) => TemplatesInv'
<1>1. ASSUME NEW strategy \in {"none", "cascade", "promote"}, T!Delete(r, t, strategy) PROVE TemplatesInv'
  <2>1. PICK s : s = [pc |-> "clones", template |-> t, strategy |-> strategy] OBVIOUS
  <2>2. T!Ask(r, "delete", s) /\ T!Alive(t) BY <1>1, <2>1 DEF T!Delete
  <2>3. s \in TemplateRequest BY <2>1 DEF TemplateRequest, Deleting
  <2>4. RequestKnown(s) BY <2>1, <2>2 DEF RequestKnown, Known, T!Alive
  <2> QED BY <2>2, <2>3, <2>4, AsksStay
<1>2. ASSUME NEW action \in Actions, NEW c \in Int, T!Maintain(r, t, action, c) PROVE TemplatesInv'
  <2>1. PICK s : s = [pc |-> "parent", template |-> t, action |-> action, child |-> c] OBVIOUS
  <2>2. T!Ask(r, "maintain", s) /\ T!Alive(t) BY <1>2, <2>1 DEF T!Maintain
  <2>3. s \in TemplateRequest BY <2>1 DEF TemplateRequest, Reading
  <2>4. RequestKnown(s) BY <2>1, <2>2 DEF RequestKnown, Known, T!Alive
  <2> QED BY <2>2, <2>3, <2>4, AsksStay
<1> QED BY <1>1, <1>2

\* Where a request stands.
LEMMA RequestIs ==
    ASSUME TemplatesInv, NEW r \in Cloners
    PROVE  /\ handler[r].pc \in {"clones", "children", "promote"} =>
                handler[r] \in Deleting /\ handler[r].template \in T!Templates /\ handler[r].template \in Known
           /\ handler[r].pc = "parent" => handler[r] \in Reading /\ handler[r].template \in T!Templates /\ handler[r].template \in Known
           /\ handler[r].pc = "choose" => handler[r] \in Choosing /\ handler[r].template \in T!Templates /\ handler[r].template \in Known
           /\ handler[r].pc = "enqueue" => handler[r].task \in Draft /\ T!Removals(handler[r].task) \subseteq Known
<1>1. handler[r] \in TemplateRequest BY DEF TemplatesInv, TemplatesTyped, RequestsTyped
<1>2. RequestKnown(handler[r]) BY DEF TemplatesInv, RemovesKnown, RequestsKnown
<1>3. CASE handler[r] = T!Idle BY <1>3 DEF T!Idle
<1>4. CASE handler[r] \in Ended BY <1>2, <1>4 DEF Ended, RequestKnown
<1>5. CASE handler[r] \in Deleting BY <1>2, <1>5 DEF Deleting, RequestKnown
<1>6. CASE handler[r] \in Reading BY <1>2, <1>6 DEF Reading, RequestKnown
<1>7. CASE handler[r] \in Choosing BY <1>2, <1>7 DEF Choosing, RequestKnown
<1> QED BY <1>1, <1>3, <1>4, <1>5, <1>6, <1>7 DEF TemplateRequest

LEMMA StepsStay ==
    ASSUME TemplatesInv, NEW r \in Cloners, NEW pc, T!Step(r, pc), T!Tables, NEW s, T!Go(r, s), s \in TemplateRequest, RequestKnown(s)
    PROVE  TemplatesInv'
<1>1. T!Files /\ machine' = machine /\ table' = table /\ running' = running /\ lapsed' = lapsed /\ queue' = queue
  BY DEF T!Step, T!Tables
<1>2. TablesTyped' BY <1>1 DEF TemplatesInv, TemplatesTyped, TablesTyped
<1> QED BY <1>1, <1>2, RequestMoves

LEMMA DeletionStays ==
    ASSUME TemplatesInv, NEW r \in Cloners, T!CheckClones(r) \/ T!CheckChildren(r) \/ T!PromoteChildren(r)
    PROVE  TemplatesInv'
<1> DEFINE t == handler[r].template
<1>1. CASE T!CheckClones(r)
  <2>1. T!Step(r, "clones") /\ T!Tables BY <1>1 DEF T!CheckClones
  <2>2. handler[r] \in Deleting /\ t \in T!Templates /\ t \in Known BY <2>1, RequestIs DEF T!Step
  <2>3. PICK n : n = [handler[r] EXCEPT !.pc = "children"] OBVIOUS
  <2>4. n \in TemplateRequest /\ n.template = t /\ n.pc = "children" BY <2>2, <2>3 DEF TemplateRequest, Deleting
  <2>5. RequestKnown(n) BY <2>2, <2>4 DEF RequestKnown
  <2>6. \E s : (s = T!Idle \/ s = n) /\ T!Go(r, s) BY <1>1, <2>3 DEF T!CheckClones
  <2> QED BY <2>1, <2>4, <2>5, <2>6, IdleIs, StepsStay
<1>2. CASE T!CheckChildren(r)
  <2>1. T!Step(r, "children") /\ T!Tables BY <1>2 DEF T!CheckChildren
  <2>2. handler[r] \in Deleting /\ t \in T!Templates /\ t \in Known BY <2>1, RequestIs DEF T!Step
  <2>3. T!Descendants(t) \subseteq Known BY DEF T!Descendants, Known, T!Alive
  <2>4. Known \subseteq T!Templates BY DEF Known
  <2>5. PICK n : n = [handler[r] EXCEPT !.pc = "promote"] OBVIOUS
  <2>6. n \in TemplateRequest /\ n.template = t /\ n.pc = "promote" BY <2>2, <2>5 DEF TemplateRequest, Deleting
  <2>7. RequestKnown(n) BY <2>2, <2>6 DEF RequestKnown
  <2>8. ASSUME NEW ids \in SUBSET Known, NEW s, s = T!Ending(T!Task("delete", t, t, ids, T!Alone))
        PROVE  s \in TemplateRequest /\ RequestKnown(s)
    <3>1. ids \in SUBSET T!Templates /\ t \in Int BY <2>2, <2>4, TemplatesInt
    <3> QED BY <2>2, <2>8, <3>1, DraftIs, TemplatesInt DEF MachineKinds, TemplateKinds
  <2>9. PICK p : p = T!Ending(T!Task("delete", t, t, {t}, T!Alone)) OBVIOUS
  <2>10. PICK q : q = T!Ending(T!Task("delete", t, t, {t} \cup T!Descendants(t), T!Alone)) OBVIOUS
  <2>11. p \in TemplateRequest /\ RequestKnown(p) /\ q \in TemplateRequest /\ RequestKnown(q)
    <3>1. {t} \in SUBSET Known /\ {t} \cup T!Descendants(t) \in SUBSET Known BY <2>2, <2>3
    <3> QED BY <2>8, <2>9, <2>10, <3>1
  <2>12. \E s : (s = T!Idle \/ s = n \/ s = p \/ s = q) /\ T!Go(r, s) BY <1>2, <2>5, <2>9, <2>10 DEF T!CheckChildren
  <2> QED BY <2>1, <2>6, <2>7, <2>11, <2>12, IdleIs, StepsStay
<1>3. CASE T!PromoteChildren(r)
  <2>1. /\ T!Step(r, "promote") /\ machine' = machine /\ table' = T!Adopted(t)
        /\ T!Go(r, T!Ending(T!Task("delete", t, t, {t}, T!Alone)))
    BY <1>3 DEF T!PromoteChildren
  <2>2. t \in T!Templates /\ t \in Known BY <2>1, RequestIs DEF T!Step
  <2>3. PICK s : s = T!Ending(T!Task("delete", t, t, {t}, T!Alone)) OBVIOUS
  <2>4. s \in TemplateRequest /\ RequestKnown(s)
    <3>1. {t} \in SUBSET T!Templates /\ t \in Int BY <2>2, TemplatesInt
    <3> QED BY <2>2, <2>3, <3>1, DraftIs, TemplatesInt DEF MachineKinds, TemplateKinds
  <2>5. TablesTyped BY DEF TemplatesInv, TemplatesTyped
  <2>6. table' \in [T!Templates -> RowType] /\ \A c \in T!Templates : table'[c].state = table[c].state
    BY <2>1, <2>2, <2>5, AdoptedRows
  <2>7. TablesTyped' BY <2>1, <2>5, <2>6 DEF TablesTyped
  <2>8. T!Files /\ running' = running /\ lapsed' = lapsed /\ queue' = queue /\ T!Go(r, s) BY <2>1, <2>3 DEF T!Step
  <2> QED BY <2>1, <2>4, <2>6, <2>7, <2>8, RequestMoves
<1> QED BY <1>1, <1>2, <1>3

LEMMA MaintenanceStays ==
    ASSUME TemplatesInv, NEW r \in Cloners, T!ReadParent(r) \/ T!ReadChildren(r)
    PROVE  TemplatesInv'
<1> DEFINE t == handler[r].template
           action == handler[r].action
<1>1. CASE T!ReadParent(r)
  <2>1. T!Step(r, "parent") /\ T!Tables BY <1>1 DEF T!ReadParent
  <2>2. handler[r] \in Reading /\ t \in T!Templates /\ t \in Known BY <2>1, RequestIs DEF T!Step
  <2>3. action \in Actions /\ handler[r].child \in Int BY <2>2 DEF Reading
  <2>4. PICK to : to = IF table[t].parent \in T!Templates /\ T!Alive(table[t].parent) THEN table[t].parent ELSE T!Alone OBVIOUS
  <2>5. to \in Int BY <2>4, TemplatesInt
  <2>6. PICK p : p = T!Ending(T!Task(action, t, t, {}, to)) OBVIOUS
  <2>7. ASSUME action \in {"rebase", "flatten"} PROVE p \in TemplateRequest /\ RequestKnown(p)
    <3>1. t \in Int BY <2>2, TemplatesInt
    <3>2. action \in MachineKinds \cup TemplateKinds /\ action \notin MachineKinds /\ action \notin {"prepare", "delete", "promote_delete"}
      BY <2>7 DEF MachineKinds, TemplateKinds
    <3> QED BY <2>2, <2>5, <2>6, <3>1, <3>2, DraftIs
  <2>8. PICK n : n = [pc |-> "choose", template |-> t, action |-> action, child |-> handler[r].child, to |-> to] OBVIOUS
  <2>9. n \in TemplateRequest BY <2>2, <2>3, <2>5, <2>8 DEF TemplateRequest, Choosing
  <2>10. RequestKnown(n) BY <2>2, <2>8 DEF RequestKnown
  <2>11. \E s : (s = T!Idle \/ s = n \/ (action \in {"rebase", "flatten"} /\ s = p)) /\ T!Go(r, s)
    BY <1>1, <2>4, <2>6, <2>8 DEF T!ReadParent
  <2> QED BY <2>1, <2>7, <2>9, <2>10, <2>11, IdleIs, StepsStay
<1>2. CASE T!ReadChildren(r)
  <2>1. T!Step(r, "choose") /\ T!Tables BY <1>2 DEF T!ReadChildren
  <2>2. handler[r] \in Choosing /\ t \in T!Templates /\ t \in Known BY <2>1, RequestIs DEF T!Step
  <2>3. action \in Actions /\ handler[r].to \in Int BY <2>2 DEF Choosing
  <2>4. PICK of : of = {c \in T!Templates : T!Alive(c) /\ table[c].parent = t} OBVIOUS
  <2>5. PICK ids : ids = IF action = "promote_delete" THEN of ELSE of \cap {handler[r].child} OBVIOUS
  <2>6. ids \in SUBSET T!Templates BY <2>4, <2>5
  <2>7. PICK p : p = T!Ending(T!Task(action, t, t, ids, handler[r].to)) OBVIOUS
  <2>8. p \in TemplateRequest /\ RequestKnown(p)
    <3>1. t \in Int BY <2>2, TemplatesInt
    <3>2. action \in MachineKinds \cup TemplateKinds /\ action \notin MachineKinds /\ action \notin {"prepare", "delete"}
      BY <2>3 DEF MachineKinds, TemplateKinds, Actions
    <3> QED BY <2>2, <2>3, <2>6, <2>7, <3>1, <3>2, DraftIs
  <2>9. \E s : (s = T!Idle \/ s = p) /\ T!Go(r, s) BY <1>2, <2>4, <2>5, <2>7 DEF T!ReadChildren
  <2> QED BY <2>1, <2>8, <2>9, IdleIs, StepsStay
<1> QED BY <1>1, <1>2

LEMMA EnqueueStays ==
    ASSUME TemplatesInv, NEW r \in Cloners, T!Enqueue(r)
    PROVE  TemplatesInv'
<1> DEFINE k == handler[r].task
<1>1. T!Go(r, T!Idle) /\ T!Tables /\ T!Files /\ running' = running /\ lapsed' = lapsed /\ machine' = machine /\ table' = table
  BY DEF T!Enqueue, T!Tables
<1>2. k \in Draft /\ T!Removals(k) \subseteq Known BY RequestIs DEF T!Enqueue
<1>3. PICK ids \in T!InOrder(k.ids) : queue' = [queue EXCEPT ![T!Lock(k)] = Append(@, [k EXCEPT !.todo = T!OnNode(k, ids)])]
  BY DEF T!Enqueue
<1>4. PICK n : n = [k EXCEPT !.todo = T!OnNode(k, ids)] OBVIOUS
<1>5. n \in Fit(T!Lock(k)) /\ Untouched(n) /\ T!Lock(k) \in T!Locks /\ T!Removals(n) = T!Removals(k) BY <1>2, <1>4, NodeSteps
<1>6. queue' = [queue EXCEPT ![T!Lock(k)] = Append(@, n)] BY <1>3, <1>4
<1>7. TablesTyped' BY <1>1 DEF TemplatesInv, TemplatesTyped, TablesTyped
<1>8. \E x \in T!Locks : \E i \in Fit(x) : Untouched(i) /\ T!Removals(i) \subseteq Known /\ queue' = [queue EXCEPT ![x] = Append(@, i)]
  BY <1>2, <1>5, <1>6
<1> QED BY <1>1, <1>7, <1>8, IdleIs, RequestMoves

-----------------------------------------------------------------------------
(* Templates: the invariant holds.                                         *)

LEMMA TemplatesInvInit ==
    ASSUME T!Init
    PROVE  TemplatesInv
<1>1. Originals \in Nat BY PartAssumptions DEF T!TemplatesAssumption
<1>2. T!Alone = 0 /\ T!NoFile = -1 BY DEF T!Alone, T!NoFile
<1>3. PICK b \in {T!Alone, 1} :
        /\ table = [i \in T!Templates |-> IF i <= 2 THEN [state |-> "ready", parent |-> i - 1]
                                      ELSE [state |-> "none", parent |-> T!Alone]]
        /\ image = [i \in T!Templates |-> CASE i = 1 -> T!Alone [] i = 2 -> b [] OTHER -> T!NoFile]
        /\ machine = [n \in Machines |-> IF n = T!First THEN [mode |-> "linked", from |-> 2, backup |-> FALSE]
                                         ELSE [mode |-> "none", from |-> T!Alone, backup |-> FALSE]]
        /\ files = [n \in Machines |-> IF n = T!First THEN 2 ELSE T!NoFile]
        /\ saved = [n \in Machines |-> T!NoFile] /\ queue = [x \in T!Locks |-> <<>>]
        /\ running = {} /\ handler = [r \in Cloners |-> T!Idle]
  BY DEF T!Init
<1>4. \A x \in T!Locks : queue[x] = <<>> /\ ~T!Running(x) BY <1>3 DEF T!Running
<1>5. ASSUME NEW i \in T!Templates PROVE table[i] \in RowType /\ (T!Alive(i) => image[i] # T!NoFile) /\ image[i] \in Int
  <2>1. i \in Int /\ i >= 1 BY <1>1 DEF T!Templates
  <2>2. table[i] = IF i <= 2 THEN [state |-> "ready", parent |-> i - 1] ELSE [state |-> "none", parent |-> T!Alone] BY <1>3
  <2>3. table[i] \in RowType /\ (T!Alive(i) => i <= 2) BY <1>2, <2>1, <2>2 DEF RowType, T!Alive
  <2>4. image[i] = CASE i = 1 -> T!Alone [] i = 2 -> b [] OTHER -> T!NoFile BY <1>3
  <2>5. image[i] \in Int /\ (i <= 2 => image[i] # T!NoFile)
    <3>1. CASE i = 1 BY <1>2, <2>4, <3>1
    <3>2. CASE i = 2 BY <1>2, <2>4, <3>2
    <3>3. CASE i # 1 /\ i # 2 BY <1>2, <2>1, <2>4, <3>3
    <3> QED BY <3>1, <3>2, <3>3
  <2> QED BY <2>3, <2>5
<1>6. \A m \in Machines : machine[m] \in MachineType /\ machine[m].mode # "full" BY <1>2, <1>3 DEF MachineType
<1>7. TablesTyped
  <2>1. table \in [T!Templates -> RowType] BY <1>3, <1>5
  <2>2. machine \in [Machines -> MachineType] BY <1>3, <1>6
  <2> QED BY <2>1, <2>2 DEF TablesTyped
<1>8. FilesTyped
  <2>1. image \in [T!Templates -> Int] BY <1>3, <1>5
  <2> QED BY <1>2, <1>3, <2>1 DEF FilesTyped
<1>9. QueuesTyped BY <1>3, <1>4 DEF QueuesTyped
<1>10. LateTyped BY <1>3 DEF LateTyped
<1>11. RequestsTyped BY <1>3, IdleIs DEF RequestsTyped
<1>12. RemovesKnown /\ Waits
  <2>1. \A x \in T!Locks : DOMAIN queue[x] = {} BY <1>4
  <2>2. RequestsKnown BY <1>3, IdleIs DEF RequestsKnown
  <2> QED BY <1>3, <2>1, <2>2 DEF RemovesKnown, QueuesKnown, LateKnown, Waits
<1>13. MachinesSafe
  <2> SUFFICES ASSUME NEW m \in Machines PROVE MachineSafe(m) BY DEF MachinesSafe
  <2>1. ~Ahead(m) /\ ~Behind(m) BY <1>3, <1>4, LocksAre DEF Ahead, Behind
  <2>2. ~Firm(m) BY <1>4, <1>6, LocksAre DEF Firm
  <2> QED BY <1>3, <2>1, <2>2 DEF MachineSafe, OneRebuild, SetAside, StaysAlone, Pending
<1>14. TemplatesSafe
  <2> SUFFICES ASSUME NEW t \in T!Templates PROVE TemplateSafe(t) BY DEF TemplatesSafe
  <2>1. NoCopy(t) BY <1>3, <1>4 DEF NoCopy, Copying
  <2> QED BY <1>5, <2>1 DEF TemplateSafe, CopyIsNew, HasDisk
<1> QED BY <1>7, <1>8, <1>9, <1>10, <1>11, <1>12, <1>13, <1>14 DEF TemplatesInv, TemplatesTyped

LEMMA TemplatesInvNext ==
    ASSUME TemplatesInv, [T!Next]_T!vars
    PROVE  TemplatesInv'
<1>1. ASSUME NEW r \in Cloners, T!Request(r) PROVE TemplatesInv'
  <2>1. CASE \E m \in Machines, t \in T!Templates :
               \/ \E mode \in {"linked", "full"} : T!Clone(r, m, t, mode)
               \/ \E p \in T!Templates \cup {T!Alone} : T!CreateFromVM(r, m, t, p)
               \/ T!Reinstall(r, m, t)
    BY <2>1, NewRequests
  <2>2. CASE \E m \in Machines : T!MakeDisksIndependent(r, m) \/ T!PurgeBackup(r, m) BY <2>2, NewRequests
  <2>3. CASE \E t \in T!Templates :
               \/ \E strategy \in {"none", "cascade", "promote"} : T!Delete(r, t, strategy)
               \/ \E action \in {"rebase", "flatten", "promote_delete"} : T!Maintain(r, t, action, T!Alone)
               \/ \E c \in T!Templates : T!Maintain(r, t, "promote_child", c)
    BY <2>3, NewTemplateRequests, TemplatesInt DEF Actions
  <2>4. CASE T!CheckClones(r) \/ T!CheckChildren(r) \/ T!PromoteChildren(r) BY <2>4, DeletionStays
  <2>5. CASE T!ReadParent(r) \/ T!ReadChildren(r) BY <2>5, MaintenanceStays
  <2>6. CASE T!Enqueue(r) BY <2>6, EnqueueStays
  <2> QED BY <1>1, <2>1, <2>2, <2>3, <2>4, <2>5, <2>6 DEF T!Request
<1>2. ASSUME NEW x \in T!Locks, T!Work(x) \/ T!Refuse(x) \/ T!Lose(x) \/ T!Finish(x) PROVE TemplatesInv'
  BY <1>2, WorkStays, RefuseStays, LoseStays, FinishStays
<1>3. ASSUME NEW todo \in running, T!Late(todo) PROVE TemplatesInv' BY <1>3, LateStays
<1>4. CASE UNCHANGED T!vars
  <2>1. /\ table' = table /\ image' = image /\ machine' = machine /\ files' = files /\ saved' = saved /\ defined' = defined
        /\ queue' = queue /\ running' = running /\ handler' = handler /\ lapsed' = lapsed /\ torn' = torn
    BY <1>4 DEF T!vars
  <2>2. NoNews /\ \A y \in T!Locks : \A t \in T!Templates : Removing(y, t) => Removing(y, t)' BY <2>1, SameHeads
  <2>3. T!Files BY <2>1 DEF T!Files
  <2>4. MachinesSafe' BY <2>1, <2>2, <2>3, MachinesUntouched DEF TemplatesInv, Firm
  <2>5. TablesTyped' /\ FilesTyped' /\ LateTyped' /\ RequestsTyped' /\ RowsKept
    BY <2>1 DEF TemplatesInv, TemplatesTyped, TablesTyped, FilesTyped, LateTyped, RequestsTyped, RowsKept, Known
  <2>6. QueuesTyped' BY <2>1 DEF TemplatesInv, TemplatesTyped, QueuesTyped
  <2>7. Waits' BY <2>1 DEF TemplatesInv, Waits, Untouched, Rebuilds, Renewed, Copied
  <2>8. RemovesKnown' BY <2>1, <2>5, KnownKept DEF TemplatesInv, RemovesKnown
  <2>9. ASSUME NEW t \in T!Templates PROVE TemplateSafe(t)'
    <3>1. TemplateSafe(t) BY DEF TemplatesInv, TemplatesSafe
    <3>2. Pardoned(t) => Pardoned(t)' BY <2>1, <2>2, PardonedStays
    <3>3. \A y \in T!Locks : Copying(y, t)' => Copying(y, t) BY <2>2, NoNewsHeads
    <3>4. running' \subseteq running \cup {<<>>} /\ ~Checking(<<>>, t) BY <2>1 DEF Checking
    <3>5. (NoCopy(t) => NoCopy(t)') /\ (AtMostOne(t) => AtMostOne(t)') BY <3>3, <3>4, CopiesStay
    <3> QED BY <2>1, <3>1, <3>2, <3>5, TemplateStays
  <2>10. TemplatesSafe' BY <2>9 DEF TemplatesSafe
  <2> QED BY <2>4, <2>5, <2>6, <2>7, <2>8, <2>10 DEF TemplatesInv, TemplatesTyped
<1> QED BY <1>1, <1>2, <1>3, <1>4 DEF T!Next

LEMMA TemplatesInvMeans ==
    ASSUME TemplatesInv
    PROVE  T!FullMeansAlone /\ T!ReadyHasDisk
<1>1. T!FullMeansAlone
  BY DEF T!FullMeansAlone, TemplatesInv, MachinesSafe, MachineSafe, StaysAlone, Firm
<1>2. ASSUME NEW t \in T!Templates, T!Alive(t), image[t] = T!NoFile
      PROVE  t \in lapsed \/ \E x \in T!Templates : T!Running(x) /\ t \in T!Removals(T!Current(x))
  <2>1. Pardoned(t) BY <1>2 DEF TemplatesInv, TemplatesSafe, TemplateSafe, HasDisk
  <2>2. table[t].state # "deleted" BY <1>2 DEF T!Alive
  <2>3. CASE t \in lapsed BY <2>3
  <2>4. CASE \E x \in T!Locks : Removing(x, t)
    <3>1. PICK x \in T!Locks : T!Running(x) /\ t \in T!Removals(T!Current(x)) BY <2>4 DEF Removing
    <3>2. T!Current(x) \in Fit(x) BY <3>1, CurrentFits DEF TemplatesInv, TemplatesTyped
    <3>3. T!Lock(T!Current(x)) = x /\ Subject(T!Current(x)) BY <3>2 DEF Fit
    <3>4. T!Current(x).kind \in {"delete", "promote_delete"} BY <3>1 DEF T!Removals
    <3>5. x \in T!Templates BY <3>3, <3>4 DEF T!Lock, Subject, TemplateKinds
    <3> QED BY <3>1, <3>5
  <2> QED BY <2>1, <2>2, <2>3, <2>4 DEF Pardoned
<1> QED BY <1>1, <1>2 DEF T!ReadyHasDisk

-----------------------------------------------------------------------------
(* Uploads: the invariant.                                                 *)

Bytes == {"good", "bad", "partial"}
Content == [Chunks -> Bytes]
Whereabouts == {"nothing", "temp", "chunk"}
Todos == {U!PutSteps, <<"write", "rename", "mark">>, <<"rename", "mark">>, <<"mark">>}
Receiving == [pc : {"chunk"}, user : Users, chunk : Chunks, data : {"good", "bad"}, into : Whereabouts,
              marked : SUBSET Chunks, todo : Todos]
Working == {U!Free} \cup Receiving
    \cup [pc : {"assemble"}, user : Users]
    \cup [pc : {"commit", "create"}, user : Users, content : Content]
    \cup [pc : {"status", "discard"}, user : finished]

RowsTyped ==
    /\ session \in [Users -> [status : {"none", "pending", "expired", "completed"},
                              marked : SUBSET Chunks, over : BOOLEAN]]
    /\ chunkStore \in [Users -> [Chunks -> {U!NoChunk} \cup Bytes]]
    /\ temp \in [Users -> [Chunks -> {U!NoChunk} \cup Bytes]]
    /\ file \in {U!NoFile} \cup [of : Users, content : Content]
    /\ owner \in Users \cup {U!Nobody}
    /\ differed \subseteq Users /\ finished \subseteq Users
    /\ spoiled \in [Users -> SUBSET Chunks]
UploadsTyped == RowsTyped /\ handlers \in [Handlers -> Working]

\* Users whose chunks nobody took away.
Keeping == Users \ (differed \cup finished)

\* A chunk that may count as received, and a content made of such chunks.
Sound(u, c) == chunkStore[u][c] = "good" \/ (chunkStore[u][c] # U!NoChunk /\ c \in spoiled[u])
Pure(u, content) == \A c \in Chunks : content[c] = "good" \/ c \in spoiled[u]

\* What the row says, what a request has loaded or put, what it is to assemble,
\* what it carries and what the node has is sound.
RowSound == \A u \in Keeping : \A c \in session[u].marked : Sound(u, c)
Carries(s) ==
    (s # U!Free /\ s.user \in Keeping) =>
        /\ s.pc = "chunk" => \A c \in s.marked : Sound(s.user, c)
        /\ s.pc = "chunk" /\ s.todo = <<"mark">> => Sound(s.user, s.chunk)
        /\ s.pc = "assemble" => \A c \in Chunks : Sound(s.user, c)
        /\ s.pc \in {"commit", "create"} => Pure(s.user, s.content)
AllCarry == \A h \in Handlers : Carries(handlers[h])
FilePure == file # U!NoFile /\ file.of \in Keeping => Pure(file.of, file.content)


\* A request that writes a chunk, which no two wrote at a time, writes it alone,
\* to the temporary file, which has its data once it is written.
WritesAlone ==
    \A u \in Keeping : \A c \in Chunks \ spoiled[u] : \A o \in Handlers : U!Writes(o, u, c) =>
        /\ handlers[o].into = "temp"
        /\ Head(handlers[o].todo) = "rename" => temp[u][c] = handlers[o].data
        /\ \A g \in Handlers : U!Writes(g, u, c) => g = o

UploadsInv == UploadsTyped /\ RowSound /\ AllCarry /\ FilePure /\ WritesAlone

LEMMA UploadsInitInv == ASSUME U!Init PROVE UploadsInv
<1>1. UploadsTyped BY DEF U!Init, UploadsTyped, RowsTyped, Working
<1>2. RowSound /\ AllCarry /\ FilePure BY DEF U!Init, RowSound, AllCarry, Carries, FilePure, Keeping
<1>3. WritesAlone BY DEF U!Init, WritesAlone, U!Writes, U!Free
<1> QED BY <1>1, <1>2, <1>3 DEF UploadsInv

\* The invariant implies the properties.
LEMMA UploadsInvMeans == ASSUME UploadsInv PROVE U!MarkedMeansStored /\ U!MadeOfGood
<1>1. U!MarkedMeansStored BY DEF UploadsInv, RowSound, Keeping, Sound, U!MarkedMeansStored, U!NoChunk
<1>2. U!MadeOfGood
  <2> SUFFICES ASSUME file.of \notin {U!Nobody} \cup differed \cup finished
               PROVE  Pure(file.of, file.content) BY DEF U!MadeOfGood, Pure
  <2>1. file # U!NoFile BY DEF U!NoFile
  <2>2. file.of \in Users BY <2>1 DEF UploadsInv, UploadsTyped, RowsTyped
  <2> QED BY <2>1, <2>2 DEF UploadsInv, FilePure, Keeping
<1> QED BY <1>1, <1>2

-----------------------------------------------------------------------------
(* Uploads: what a step may take from what is sound.                       *)

\* Of a user that keeps the chunks, what was sound stays so.
StaysSound ==
    /\ differed \subseteq differed' /\ finished \subseteq finished'
    /\ \A u \in Keeping' : spoiled[u] \subseteq spoiled'[u] /\ \A c \in Chunks : Sound(u, c) => Sound(u, c)'

LEMMA CarriesStays == ASSUME StaysSound, UploadsTyped, NEW s \in Working, Carries(s) PROVE Carries(s)' /\ s \in Working'
<1>1. finished \subseteq finished' /\ Keeping' \subseteq Keeping BY DEF StaysSound, Keeping
<1>2. s \in Working' BY <1>1 DEF Working
<1>3. Carries(s)'
  <2> SUFFICES ASSUME s # U!Free, s.user \in Keeping' PROVE Carries(s)' BY DEF Carries
  <2>1. s.user \in Keeping BY <1>1
  <2>2. s.pc = "chunk" => s.marked \subseteq Chunks /\ s.chunk \in Chunks BY DEF Working, Receiving, U!Free
  <2>3. spoiled[s.user] \subseteq spoiled'[s.user] /\ \A c \in Chunks : Sound(s.user, c) => Sound(s.user, c)' BY DEF StaysSound
  <2>4. s.pc = "chunk" => \A c \in s.marked : Sound(s.user, c)' BY <2>1, <2>2, <2>3 DEF Carries
  <2>5. s.pc = "chunk" /\ s.todo = <<"mark">> => Sound(s.user, s.chunk)' BY <2>1, <2>2, <2>3 DEF Carries
  <2>6. s.pc = "assemble" => \A c \in Chunks : Sound(s.user, c)' BY <2>1, <2>3 DEF Carries
  <2>7. s.pc \in {"commit", "create"} => Pure(s.user, s.content)' BY <2>1, <2>3 DEF Carries, Pure
  <2> QED BY <2>4, <2>5, <2>6, <2>7 DEF Carries
<1> QED BY <1>2, <1>3

\* Where a request writes to may change under it.
Redirected(s, i) == [s EXCEPT !.into = i]

LEMMA RedirectedCarries ==
    ASSUME NEW s \in Receiving, Carries(s), NEW i \in Whereabouts
    PROVE  Redirected(s, i) \in Working /\ Carries(Redirected(s, i))
<1>1. PICK w : w = Redirected(s, i) OBVIOUS
<1>2. /\ w \in Receiving
      /\ w.pc = "chunk" /\ s.pc = "chunk" /\ w.user = s.user /\ w.chunk = s.chunk /\ w.marked = s.marked /\ w.todo = s.todo
  BY <1>1 DEF Redirected, Receiving
<1>3. s # U!Free BY DEF Receiving, U!Free
<1>4. Carries(w) BY <1>2, <1>3 DEF Carries
<1> QED BY <1>1, <1>2, <1>4 DEF Working

\* A step in which one request at most goes on, and others may write elsewhere.
LEMMA StepsInv ==
    ASSUME UploadsInv, RowsTyped', StaysSound, RowSound', FilePure', WritesAlone',
           NEW h, NEW s, s \in Working', Carries(s)',
           handlers' = [g \in Handlers |-> handlers'[g]],
           \A g \in Handlers :
               \/ handlers'[g] \in {handlers[g], s}
               \/ handlers[g] \in Receiving /\ \E i \in Whereabouts : handlers'[g] = Redirected(handlers[g], i)
    PROVE  UploadsInv'
<1>1. \A g \in Handlers : handlers[g] \in Working /\ Carries(handlers[g]) BY DEF UploadsInv, UploadsTyped, AllCarry
<1>2. ASSUME NEW g \in Handlers PROVE (handlers[g] \in Working /\ Carries(handlers[g]))'
  <2>1. CASE handlers'[g] = s BY <2>1 DEF Carries, Pure, Sound, Keeping
  <2>2. CASE \E w \in Working : Carries(w) /\ handlers'[g] = w
    <3>1. PICK w \in Working : w = handlers'[g] /\ Carries(w) BY <2>2
    <3>2. Carries(w)' /\ w \in Working' BY <3>1, CarriesStays DEF UploadsInv
    <3> QED BY <3>1, <3>2 DEF Carries, Pure, Sound, Keeping
  <2>3. CASE handlers'[g] = handlers[g] BY <1>1, <2>2, <2>3
  <2>4. CASE handlers[g] \in Receiving /\ \E i \in Whereabouts : handlers'[g] = Redirected(handlers[g], i)
    BY <1>1, <2>2, <2>4, RedirectedCarries
  <2> QED BY <2>1, <2>3, <2>4
<1>3. AllCarry' BY <1>2 DEF AllCarry
<1>4. UploadsTyped' BY <1>2 DEF UploadsInv, UploadsTyped
<1> QED BY <1>3, <1>4 DEF UploadsInv

\* A request that does not write to a file.
Still(s) == s.pc = "chunk" => Head(s.todo) \notin {"write", "rename"}

\* A step in which one request at most goes on, to where it writes nothing.
LEMMA StepInv ==
    ASSUME UploadsInv, RowsTyped', StaysSound, RowSound', FilePure', temp' = temp,
           NEW h, NEW s, s \in Working', Carries(s)', Still(s),
           handlers' = [handlers EXCEPT ![h] = s] \/ handlers' = handlers
    PROVE  UploadsInv'
<1>1. \A g \in Handlers : handlers'[g] = handlers[g] \/ handlers'[g] = s BY DEF UploadsInv, UploadsTyped
<1>2. handlers' = [g \in Handlers |-> handlers'[g]] BY DEF UploadsInv, UploadsTyped
<1>3. Keeping' \subseteq Keeping /\ \A u \in Keeping' : spoiled[u] \subseteq spoiled'[u] BY DEF StaysSound, Keeping
<1>4. ASSUME NEW u, NEW c, NEW o \in Handlers, U!Writes(o, u, c)' PROVE handlers'[o] = handlers[o] /\ U!Writes(o, u, c)
  BY <1>1, <1>4 DEF U!Writes, Still
<1>5. WritesAlone' BY <1>3, <1>4 DEF UploadsInv, WritesAlone
<1> QED BY <1>1, <1>2, <1>5, StepsInv

\* A step that takes no chunk away and registers nothing.
LEMMA NothingTaken ==
    ASSUME UNCHANGED <<chunkStore, differed, finished, spoiled>>
    PROVE  /\ StaysSound /\ Keeping' = Keeping
           /\ \A u, c : Sound(u, c)' <=> Sound(u, c)
           /\ \A u, d : Pure(u, d)' <=> Pure(u, d)
<1>1. Keeping' = Keeping BY DEF Keeping
<1>2. \A u, c : Sound(u, c)' <=> Sound(u, c) BY DEF Sound
<1>3. \A u, d : Pure(u, d)' <=> Pure(u, d) BY DEF Pure
<1> QED BY <1>1, <1>2, <1>3 DEF StaysSound

LEMMA FreeCarries == U!Free \in Working /\ Carries(U!Free) /\ Still(U!Free)
BY DEF Working, Carries, Still, U!Free

\* A step of the row that marks nothing, and what a request becomes.
LEMMA RowStep ==
    ASSUME UploadsInv, RowsTyped', UNCHANGED <<chunkStore, temp, differed, finished, spoiled>>, FilePure',
           \A u \in Users : session'[u].marked = session[u].marked,
           NEW h, NEW s, s \in Working, Carries(s), Still(s),
           handlers' = [handlers EXCEPT ![h] = s] \/ handlers' = handlers
    PROVE  UploadsInv'
<1>1. StaysSound /\ Keeping' = Keeping /\ \A u, c : Sound(u, c)' <=> Sound(u, c) BY NothingTaken
<1>2. RowSound' BY <1>1 DEF UploadsInv, RowSound, Keeping
<1>3. s \in Working' /\ Carries(s)' BY <1>1, CarriesStays DEF UploadsInv, UploadsTyped
<1> QED BY <1>1, <1>2, <1>3, StepInv

-----------------------------------------------------------------------------
(* Uploads: requests.                                                      *)

LEMMA SessionInv == ASSUME UploadsInv, NEW u \in Users, U!CreateUpload(u) \/ U!Expire(u) PROVE UploadsInv'
<1>1. /\ session' \in [Users -> [status : {"none", "pending", "expired", "completed"},
                                  marked : SUBSET Chunks, over : BOOLEAN]]
      /\ \A v \in Users : session'[v].marked = session[v].marked
  <2>1. CASE U!CreateUpload(u) BY <2>1 DEF U!CreateUpload, UploadsInv, UploadsTyped, RowsTyped
  <2>2. CASE U!Expire(u) BY <2>2 DEF U!Expire, UploadsInv, UploadsTyped, RowsTyped
  <2> QED BY <2>1, <2>2
<1>2. UNCHANGED <<chunkStore, temp, handlers, differed, finished, spoiled, file, owner>>
  BY DEF U!CreateUpload, U!Expire, U!Node, U!ChunkDisk, U!History
<1>3. RowsTyped' BY <1>1, <1>2 DEF UploadsInv, UploadsTyped, RowsTyped
<1>4. FilePure' BY <1>2 DEF UploadsInv, FilePure, Keeping, Pure
<1> QED BY <1>1, <1>2, <1>3, <1>4, FreeCarries, RowStep

LEMMA LoadInv ==
    ASSUME UploadsInv, NEW h \in Handlers, NEW u \in Users, NEW s,
           ~session[u].over => s \in Working /\ Carries(s) /\ Still(s), U!Load(h, u, s)
    PROVE  UploadsInv'
<1>2. UNCHANGED <<chunkStore, temp, differed, finished, spoiled, file, owner>> BY DEF U!Load, U!Node, U!ChunkDisk, U!History
<1>4. FilePure' BY <1>2 DEF UploadsInv, FilePure, Keeping, Pure
<1>5. CASE session[u].over
  <2>1. handlers' = handlers /\ session' = [session EXCEPT ![u].status = "expired"] BY <1>5 DEF U!Load
  <2>2. /\ session' \in [Users -> [status : {"none", "pending", "expired", "completed"},
                                    marked : SUBSET Chunks, over : BOOLEAN]]
        /\ \A v \in Users : session'[v].marked = session[v].marked
    <3> DEFINE Sessions == [status : {"none", "pending", "expired", "completed"}, marked : SUBSET Chunks, over : BOOLEAN]
    <3>1. session \in [Users -> Sessions] BY DEF UploadsInv, UploadsTyped, RowsTyped
    <3>2. PICK x : x = [session[u] EXCEPT !.status = "expired"] OBVIOUS
    <3>3. x \in Sessions /\ x.marked = session[u].marked BY <3>1, <3>2
    <3>4. session' = [session EXCEPT ![u] = x] BY <2>1, <3>2
    <3> HIDE DEF Sessions
    <3>5. session' \in [Users -> Sessions] /\ \A v \in Users : session'[v] = IF v = u THEN x ELSE session[v]
      BY <3>1, <3>3, <3>4
    <3>6. \A v \in Users : session'[v].marked = session[v].marked BY <3>3, <3>5
    <3> QED BY <3>5, <3>6 DEF Sessions
  <2>3. RowsTyped' BY <1>2, <2>2 DEF UploadsInv, UploadsTyped, RowsTyped
  <2> QED BY <1>2, <1>4, <2>1, <2>2, <2>3, FreeCarries, RowStep
<1>6. CASE ~session[u].over
  <2>1. handlers' = [handlers EXCEPT ![h] = s] /\ session' = session BY <1>6 DEF U!Load, U!Become
  <2>2. RowsTyped' BY <1>2, <2>1 DEF UploadsInv, UploadsTyped, RowsTyped
  <2> QED BY <1>2, <1>4, <1>6, <2>1, <2>2, RowStep
<1> QED BY <1>5, <1>6

LEMMA UploadChunkDataInv ==
    ASSUME UploadsInv, NEW h \in Handlers, NEW u \in Users, NEW c \in Chunks, NEW data \in {"good", "bad"},
           U!UploadChunkData(h, u, c, data)
    PROVE  UploadsInv'
<1> DEFINE s == [pc |-> "chunk", user |-> u, chunk |-> c, data |-> data, into |-> "nothing",
                marked |-> session[u].marked, todo |-> U!PutSteps]
<1>1. session[u].marked \subseteq Chunks BY DEF UploadsInv, UploadsTyped, RowsTyped
<1>2. s \in Working BY <1>1 DEF Working, Receiving, Whereabouts, Todos
<1>3. U!PutSteps # <<"mark">> /\ Head(U!PutSteps) = "open" BY DEF U!PutSteps
<1>4. Carries(s) /\ Still(s) BY <1>3 DEF Carries, Still, UploadsInv, RowSound
<1>5. U!Load(h, u, s) BY DEF U!UploadChunkData
<1> HIDE DEF s
<1> QED BY <1>2, <1>4, <1>5, LoadInv

LEMMA CompleteUploadInv ==
    ASSUME UploadsInv, NEW h \in Handlers, NEW u \in Users, U!CompleteUpload(h, u)
    PROVE  UploadsInv'
<1> DEFINE s == [pc |-> "assemble", user |-> u]
<1>1. s \in Working BY DEF Working
<1>2. U!Load(h, u, s) /\ (session[u].marked = Chunks \/ session[u].over) BY DEF U!CompleteUpload
<1>3. Still(s) /\ (session[u].marked = Chunks => Carries(s)) BY DEF Carries, Still, UploadsInv, RowSound
<1> HIDE DEF s
<1> QED BY <1>1, <1>2, <1>3, LoadInv

-----------------------------------------------------------------------------
(* Uploads: chunks.                                                        *)

\* What a request is that receives a chunk.
LEMMA ReceivingIs ==
    ASSUME UploadsInv, NEW h \in Handlers, handlers[h].pc = "chunk"
    PROVE  /\ handlers[h] \in Receiving /\ handlers[h] # U!Free /\ Carries(handlers[h])
           /\ handlers[h].user \in Users /\ handlers[h].chunk \in Chunks /\ handlers[h].data \in {"good", "bad"}
           /\ Head(handlers[h].todo) = "open" => handlers[h].todo = U!PutSteps
           /\ Head(handlers[h].todo) = "write" => handlers[h].todo = <<"write", "rename", "mark">>
           /\ Head(handlers[h].todo) = "rename" => handlers[h].todo = <<"rename", "mark">>
           /\ Head(handlers[h].todo) = "mark" => handlers[h].todo = <<"mark">>
<1>1. handlers[h] \in Receiving /\ handlers[h] # U!Free /\ Carries(handlers[h])
  BY DEF UploadsInv, UploadsTyped, Working, U!Free, AllCarry
<1>2. handlers[h].user \in Users /\ handlers[h].chunk \in Chunks /\ handlers[h].data \in {"good", "bad"}
      /\ handlers[h].todo \in Todos
  BY <1>1 DEF Receiving
<1> QED BY <1>1, <1>2 DEF Todos, U!PutSteps

\* What it is once it has opened the temporary file.
LEMMA OpenedIs ==
    ASSUME NEW s \in Receiving, Carries(s), s.todo = U!PutSteps
    PROVE  \E w \in Receiving :
             /\ w = [U!Onward(s) EXCEPT !.into = "temp"] /\ Carries(w)
             /\ w.pc = "chunk" /\ w.into = "temp" /\ Head(w.todo) = "write" /\ w.user = s.user /\ w.chunk = s.chunk
<1>1. Len(s.todo) > 1 /\ Tail(s.todo) = <<"write", "rename", "mark">>
  <2>1. s.todo = <<"open", "write", "rename", "mark">> BY DEF U!PutSteps
  <2> QED BY <2>1
<1>2. U!Onward(s) = [s EXCEPT !.todo = <<"write", "rename", "mark">>] BY <1>1 DEF U!Onward
<1>3. PICK o : o = U!Onward(s) OBVIOUS
<1>4. <<"write", "rename", "mark">> \in Todos BY DEF Todos
<1>5. o \in Receiving /\ o.user = s.user /\ o.chunk = s.chunk /\ o.marked = s.marked /\ o.todo = <<"write", "rename", "mark">>
  BY <1>2, <1>3, <1>4 DEF Receiving
<1>6. PICK w : w = [o EXCEPT !.into = "temp"] OBVIOUS
<1>7. /\ w \in Receiving /\ w.user = o.user /\ w.chunk = o.chunk /\ w.marked = o.marked /\ w.todo = o.todo
      /\ w.into = "temp" /\ w.pc = "chunk" /\ s.pc = "chunk"
  BY <1>5, <1>6 DEF Receiving, Whereabouts
<1>8. Head(w.todo) = "write" BY <1>5, <1>7
<1>9. <<"write", "rename", "mark">> # <<"mark">> /\ s # U!Free BY DEF Receiving, U!Free
<1>10. Carries(w) BY <1>5, <1>7, <1>9 DEF Carries
<1> QED BY <1>3, <1>5, <1>6, <1>7, <1>8, <1>10

\* A step on a chunk, its temporary file and its mark as spoiled, but on no row.
ChunkStep(v, b, store, tmp, more) ==
    /\ chunkStore' = [chunkStore EXCEPT ![v][b] = store] /\ temp' = [temp EXCEPT ![v][b] = tmp]
    /\ spoiled' = [spoiled EXCEPT ![v] = @ \cup more]
    /\ UNCHANGED <<session, differed, finished, file, owner>>

StoresSound(v, b, store, more) ==
    v \in Keeping /\ Sound(v, b) => store = "good" \/ (store # U!NoChunk /\ (b \in more \/ b \in spoiled[v]))
ChunkStepped(v, b, store, tmp, more) ==
    \A x \in Users, y \in Chunks :
        /\ chunkStore'[x][y] = IF x = v /\ y = b THEN store ELSE chunkStore[x][y]
        /\ temp'[x][y] = IF x = v /\ y = b THEN tmp ELSE temp[x][y]
        /\ y \in spoiled'[x] <=> (y \in spoiled[x] \/ (x = v /\ y \in more))
RowsKeep == RowsTyped' /\ StaysSound /\ RowSound' /\ FilePure' /\ Keeping' = Keeping

\* What stays of the rows, and of what is sound.
LEMMA ChunkKeeps ==
    ASSUME UploadsInv, NEW v \in Users, NEW b \in Chunks, NEW store \in {U!NoChunk} \cup Bytes,
           NEW tmp \in {U!NoChunk} \cup Bytes, NEW more \in {{}, {b}}, ChunkStep(v, b, store, tmp, more),
           StoresSound(v, b, store, more)
    PROVE  RowsKeep /\ ChunkStepped(v, b, store, tmp, more)
<1>1. /\ chunkStore \in [Users -> [Chunks -> {U!NoChunk} \cup Bytes]]
      /\ temp \in [Users -> [Chunks -> {U!NoChunk} \cup Bytes]]
      /\ spoiled \in [Users -> SUBSET Chunks]
  BY DEF UploadsInv, UploadsTyped, RowsTyped
<1> USE DEF ChunkStep, StoresSound
<1>2. chunkStore' \in [Users -> [Chunks -> {U!NoChunk} \cup Bytes]] BY <1>1
<1>3. temp' \in [Users -> [Chunks -> {U!NoChunk} \cup Bytes]] BY <1>1
<1>4. spoiled' \in [Users -> SUBSET Chunks] BY <1>1
<1>5. RowsTyped' BY <1>2, <1>3, <1>4 DEF UploadsInv, UploadsTyped, RowsTyped
<1>6. Keeping' = Keeping BY DEF Keeping
<1>7. ASSUME NEW x \in Users, NEW y \in Chunks
      PROVE  /\ chunkStore'[x][y] = IF x = v /\ y = b THEN store ELSE chunkStore[x][y]
             /\ temp'[x][y] = IF x = v /\ y = b THEN tmp ELSE temp[x][y]
             /\ y \in spoiled'[x] <=> (y \in spoiled[x] \/ (x = v /\ y \in more))
  <2>1. chunkStore'[x][y] = IF x = v /\ y = b THEN store ELSE chunkStore[x][y] BY <1>1
  <2>2. temp'[x][y] = IF x = v /\ y = b THEN tmp ELSE temp[x][y] BY <1>1
  <2>3. y \in spoiled'[x] <=> (y \in spoiled[x] \/ (x = v /\ y \in more)) BY <1>1
  <2> QED BY <2>1, <2>2, <2>3
<1>8. ASSUME NEW x \in Keeping, NEW y \in Chunks, Sound(x, y) PROVE Sound(x, y)'
  <2> x \in Users BY DEF Keeping
  <2>1. CASE x = v /\ y = b BY <1>7, <1>8, <2>1 DEF Sound
  <2>2. CASE ~(x = v /\ y = b) BY <1>7, <1>8, <2>2 DEF Sound
  <2> QED BY <2>1, <2>2
<1>9. \A x \in Users : spoiled[x] \subseteq spoiled'[x] BY <1>1, <1>7
<1>10. StaysSound BY <1>6, <1>8, <1>9 DEF StaysSound, Keeping
<1>11. RowSound'
  <2>1. \A x \in Users : session[x].marked \subseteq Chunks BY DEF UploadsInv, UploadsTyped, RowsTyped
  <2> SUFFICES ASSUME NEW x \in Keeping', NEW y \in session'[x].marked PROVE Sound(x, y)' BY DEF RowSound
  <2>2. x \in Keeping /\ x \in Users /\ y \in session[x].marked BY <1>6 DEF Keeping
  <2>3. Sound(x, y) /\ y \in Chunks BY <2>1, <2>2 DEF UploadsInv, RowSound
  <2> QED BY <1>8, <2>2, <2>3
<1>12. FilePure'
  <2> SUFFICES ASSUME file # U!NoFile, file.of \in Keeping PROVE Pure(file.of, file.content)' BY <1>6 DEF FilePure
  <2>1. Pure(file.of, file.content) BY DEF UploadsInv, FilePure
  <2>2. spoiled[file.of] \subseteq spoiled'[file.of] BY <1>9 DEF Keeping
  <2> QED BY <2>1, <2>2 DEF Pure
<1> QED BY <1>5, <1>6, <1>7, <1>10, <1>11, <1>12 DEF RowsKeep, ChunkStepped

\* The parts of the invariant that a step on a chunk needs.
LEMMA Stored ==
    ASSUME UploadsInv, NEW v \in Users, NEW b \in Chunks
    PROVE  /\ chunkStore[v][b] \in {U!NoChunk} \cup Bytes /\ temp[v][b] \in {U!NoChunk} \cup Bytes
           /\ chunkStore = [chunkStore EXCEPT ![v][b] = chunkStore[v][b]]
           /\ temp = [temp EXCEPT ![v][b] = temp[v][b]]
           /\ spoiled = [spoiled EXCEPT ![v] = @ \cup {}]
           /\ handlers \in [Handlers -> Working]
<1>1. /\ chunkStore \in [Users -> [Chunks -> {U!NoChunk} \cup Bytes]]
      /\ temp \in [Users -> [Chunks -> {U!NoChunk} \cup Bytes]]
      /\ spoiled \in [Users -> SUBSET Chunks] /\ handlers \in [Handlers -> Working]
  BY DEF UploadsInv, UploadsTyped, RowsTyped
<1>2. chunkStore[v][b] \in {U!NoChunk} \cup Bytes /\ temp[v][b] \in {U!NoChunk} \cup Bytes BY <1>1
<1>3. chunkStore = [chunkStore EXCEPT ![v][b] = chunkStore[v][b]] BY <1>1
<1>4. temp = [temp EXCEPT ![v][b] = temp[v][b]] BY <1>1
<1>5. spoiled = [spoiled EXCEPT ![v] = @ \cup {}] BY <1>1
<1> QED BY <1>1, <1>2, <1>3, <1>4, <1>5

LEMMA OpenTempInv == ASSUME UploadsInv, NEW h \in Handlers, U!OpenTemp(h) PROVE UploadsInv'
<1> DEFINE s == handlers[h]
<1>1. s.pc = "chunk" /\ Head(s.todo) = "open" BY DEF U!OpenTemp, U!At
<1>2. s \in Receiving /\ Carries(s) /\ s.user \in Users /\ s.chunk \in Chunks /\ s.todo = U!PutSteps
  BY <1>1, ReceivingIs
<1>3. PICK v \in Users, b \in Chunks : v = s.user /\ b = s.chunk BY <1>2
<1>4. PICK more \in {{}, {b}} : more = IF \E o \in Handlers \ {h} : U!Writes(o, v, b) THEN {b} ELSE {} OBVIOUS
<1>5. ChunkStep(v, b, chunkStore[v][b], "partial", more) BY <1>3, <1>4, Stored DEF U!OpenTemp, U!Node, ChunkStep
<1>9. PICK w \in Receiving :
        /\ w = [U!Onward(s) EXCEPT !.into = "temp"] /\ Carries(w)
        /\ w.pc = "chunk" /\ w.into = "temp" /\ Head(w.todo) = "write" /\ w.user = s.user /\ w.chunk = s.chunk
  BY <1>2, OpenedIs
<1>10. w.into = "temp" /\ Head(w.todo) = "write" /\ w.user = v /\ w.chunk = b BY <1>3, <1>9
<1>11. handlers' = [handlers EXCEPT ![h] = w] BY <1>9 DEF U!OpenTemp, U!Become
<1>12. "partial" \in Bytes BY DEF Bytes
<1>13. /\ RowsTyped' /\ StaysSound /\ RowSound' /\ FilePure' /\ Keeping' = Keeping
       /\ \A x \in Users, y \in Chunks :
            /\ temp'[x][y] = IF x = v /\ y = b THEN "partial" ELSE temp[x][y]
            /\ y \in spoiled'[x] <=> (y \in spoiled[x] \/ (x = v /\ y \in more))
  <2>1. StoresSound(v, b, chunkStore[v][b], more) BY DEF Sound, StoresSound
  <2>2. chunkStore[v][b] \in {U!NoChunk} \cup Bytes BY Stored
  <2>3. RowsKeep /\ ChunkStepped(v, b, chunkStore[v][b], "partial", more) BY <1>5, <1>12, <2>1, <2>2, ChunkKeeps
  <2> QED BY <2>3 DEF RowsKeep, ChunkStepped
<1>14. \A g \in Handlers : handlers'[g] = IF g = h THEN w ELSE handlers[g] BY <1>11, Stored, <1>3
<1>15. ASSUME NEW x \in Keeping, NEW y \in Chunks \ spoiled'[x], NEW o \in Handlers, U!Writes(o, x, y)'
       PROVE  /\ handlers'[o].into = "temp"
              /\ Head(handlers'[o].todo) = "rename" => temp'[x][y] = handlers'[o].data
              /\ \A g \in Handlers : U!Writes(g, x, y)' => g = o
  <2>1. x \in Users /\ y \in Chunks \ spoiled[x] /\ (x = v /\ y = b => more = {}) BY <1>13 DEF Keeping
  <2>2. CASE o = h
    <3>1. x = v /\ y = b BY <1>10, <1>14, <1>15, <2>2 DEF U!Writes
    <3>2. ~\E g \in Handlers \ {h} : U!Writes(g, v, b) BY <1>4, <2>1, <3>1
    <3>3. \A g \in Handlers \ {h} : ~U!Writes(g, v, b)' BY <1>14, <3>2 DEF U!Writes
    <3> QED BY <1>10, <1>14, <2>2, <3>1, <3>3
  <2>3. CASE o # h
    <3>1. U!Writes(o, x, y) /\ handlers'[o] = handlers[o] BY <1>14, <1>15, <2>3 DEF U!Writes
    <3>2. ~(x = v /\ y = b) BY <1>4, <2>1, <2>3, <3>1
    <3>3. ~U!Writes(h, x, y)' BY <1>10, <1>14, <3>2 DEF U!Writes
    <3>4. \A g \in Handlers : U!Writes(g, x, y)' => U!Writes(g, x, y) BY <1>14, <3>3 DEF U!Writes
    <3> QED BY <1>13, <2>1, <3>1, <3>2, <3>4 DEF UploadsInv, WritesAlone
  <2> QED BY <2>2, <2>3
<1>16. WritesAlone' BY <1>13, <1>15 DEF WritesAlone
<1>17. w \in Working /\ Carries(w) BY <1>9 DEF Working
<1>18. w \in Working' /\ Carries(w)' BY <1>13, <1>17, CarriesStays DEF UploadsInv
<1>19. handlers' = [g \in Handlers |-> handlers'[g]] BY <1>3, <1>11, Stored
<1> QED BY <1>13, <1>14, <1>16, <1>18, <1>19, StepsInv

LEMMA WriteTempInv == ASSUME UploadsInv, NEW h \in Handlers, U!WriteTemp(h) PROVE UploadsInv'
<1> DEFINE s == handlers[h]
           n == U!Onward(s)
<1>1. s.pc = "chunk" /\ Head(s.todo) = "write" BY DEF U!WriteTemp, U!At
<1>2. s \in Receiving /\ Carries(s) /\ s.user \in Users /\ s.chunk \in Chunks /\ s.data \in {"good", "bad"}
      /\ s.todo = <<"write", "rename", "mark">>
  BY <1>1, ReceivingIs
<1>3. PICK v \in Users, b \in Chunks, d \in {"good", "bad"} : v = s.user /\ b = s.chunk /\ d = s.data BY <1>2
<1>4. d \in Bytes /\ d # U!NoChunk BY DEF Bytes, U!NoChunk
<1>5. PICK store \in {U!NoChunk} \cup Bytes : store = IF s.into = "chunk" THEN d ELSE chunkStore[v][b] BY <1>4, Stored
<1>6. PICK tmp \in {U!NoChunk} \cup Bytes : tmp = IF s.into = "temp" THEN d ELSE temp[v][b] BY <1>4, Stored
<1>7. ChunkStep(v, b, store, tmp, {}) /\ handlers' = [handlers EXCEPT ![h] = n]
  BY <1>3, <1>5, <1>6, Stored DEF U!WriteTemp, U!Become, U!Node, U!History, ChunkStep
<1>8. U!Writes(h, v, b) BY <1>1, <1>3 DEF U!Writes
<1>9. v \in Keeping /\ b \notin spoiled[v] => s.into = "temp" BY <1>8 DEF UploadsInv, WritesAlone
<1>10. Tail(s.todo) = <<"rename", "mark">> /\ Len(s.todo) > 1 BY <1>2
<1>11. n = [s EXCEPT !.todo = <<"rename", "mark">>] BY <1>10 DEF U!Onward
<1>12. PICK w : w = n OBVIOUS
<1>13. /\ w \in Receiving /\ w.pc = "chunk" /\ w.user = v /\ w.chunk = b /\ w.data = d /\ w.marked = s.marked
       /\ w.todo = <<"rename", "mark">> /\ w.into = s.into
  <2>1. <<"rename", "mark">> \in Todos BY DEF Todos
  <2> QED BY <1>2, <1>3, <1>11, <1>12, <2>1 DEF Receiving
<1>14. Carries(w)
  <2>1. s # U!Free /\ s.pc = "chunk" /\ s.user = v BY <1>2, <1>3 DEF Receiving, U!Free
  <2>2. <<"rename", "mark">> # <<"mark">> OBVIOUS
  <2> QED BY <1>2, <1>13, <2>1, <2>2 DEF Carries
<1>15. /\ handlers' = [handlers EXCEPT ![h] = w] /\ handlers' = [g \in Handlers |-> handlers'[g]]
       /\ \A g \in Handlers : handlers'[g] = IF g = h THEN w ELSE handlers[g]
  BY <1>3, <1>7, <1>12, Stored
<1>16. /\ RowsTyped' /\ StaysSound /\ RowSound' /\ FilePure' /\ Keeping' = Keeping
       /\ \A x \in Users, y \in Chunks :
            /\ temp'[x][y] = IF x = v /\ y = b THEN tmp ELSE temp[x][y]
            /\ y \in spoiled'[x] <=> (y \in spoiled[x] \/ (x = v /\ y \in {}))
  <2>1. StoresSound(v, b, store, {}) BY <1>4, <1>5, <1>9 DEF Sound, StoresSound
  <2>2. RowsKeep /\ ChunkStepped(v, b, store, tmp, {}) BY <1>7, <2>1, ChunkKeeps
  <2> QED BY <2>2 DEF RowsKeep, ChunkStepped
<1>17. ASSUME NEW x \in Keeping, NEW y \in Chunks \ spoiled'[x], NEW o \in Handlers, U!Writes(o, x, y)'
       PROVE  /\ handlers'[o].into = "temp"
              /\ Head(handlers'[o].todo) = "rename" => temp'[x][y] = handlers'[o].data
              /\ \A g \in Handlers : U!Writes(g, x, y)' => g = o
  <2>1. x \in Users /\ y \in Chunks \ spoiled[x] BY <1>16 DEF Keeping
  <2>2. \A g \in Handlers : U!Writes(g, x, y)' => U!Writes(g, x, y) BY <1>1, <1>3, <1>13, <1>15 DEF U!Writes
  <2>3. handlers[o].into = "temp" /\ (Head(handlers[o].todo) = "rename" => temp[x][y] = handlers[o].data)
        /\ \A g \in Handlers : U!Writes(g, x, y) => g = o
    BY <1>17, <2>1, <2>2 DEF UploadsInv, WritesAlone
  <2>4. CASE o = h
    <3>1. x = v /\ y = b /\ handlers'[o] = w BY <1>13, <1>15, <1>17, <2>4 DEF U!Writes
    <3>2. w.into = "temp" /\ tmp = d BY <1>6, <1>13, <2>3, <2>4
    <3> QED BY <1>13, <1>16, <2>2, <2>3, <3>1, <3>2
  <2>5. CASE o # h
    <3>1. ~(x = v /\ y = b) BY <1>8, <2>3, <2>5
    <3> QED BY <1>15, <1>16, <2>1, <2>2, <2>3, <2>5, <3>1
  <2> QED BY <2>4, <2>5
<1>18. WritesAlone' BY <1>16, <1>17 DEF WritesAlone
<1>19. w \in Working' /\ Carries(w)' BY <1>13, <1>14, <1>16, CarriesStays DEF UploadsInv, Working
<1> QED BY <1>15, <1>16, <1>18, <1>19, StepsInv

LEMMA RenameInv == ASSUME UploadsInv, NEW h \in Handlers, U!Rename(h) PROVE UploadsInv'
<1> DEFINE s == handlers[h]
<1>1. s.pc = "chunk" /\ Head(s.todo) = "rename" BY DEF U!Rename, U!At
<1>2. s \in Receiving /\ Carries(s) /\ s # U!Free /\ s.user \in Users /\ s.chunk \in Chunks
      /\ s.data \in {"good", "bad"} /\ s.todo = <<"rename", "mark">>
  BY <1>1, ReceivingIs
<1>3. PICK v \in Users, b \in Chunks : v = s.user /\ b = s.chunk BY <1>2
<1>4. UNCHANGED <<session, differed, finished, file, owner>> BY DEF U!Rename, U!Node
<1>5. CASE temp[v][b] = U!NoChunk
  <2>1. UNCHANGED <<chunkStore, temp, spoiled>> /\ handlers' = [handlers EXCEPT ![h] = U!Free]
    BY <1>3, <1>5 DEF U!Rename, U!Become
  <2>2. RowsTyped' BY <1>4, <2>1 DEF UploadsInv, UploadsTyped, RowsTyped
  <2>3. FilePure' BY <1>4, <2>1 DEF UploadsInv, FilePure, Keeping, Pure
  <2> QED BY <1>4, <2>1, <2>2, <2>3, FreeCarries, RowStep
<1>6. CASE temp[v][b] # U!NoChunk
  <2>1. PICK store \in {U!NoChunk} \cup Bytes : store = temp[v][b] BY Stored
  <2>2. PICK more \in {{}, {b}} : more = IF store # "good" /\ chunkStore[v][b] = "good" THEN {b} ELSE {} OBVIOUS
  <2>3. PICK w : w = IF U!Matches(s.data) THEN U!Onward(s) ELSE U!Free OBVIOUS
  <2>4. ChunkStep(v, b, store, U!NoChunk, more) BY <1>3, <1>4, <1>6, <2>1, <2>2, Stored DEF U!Rename, ChunkStep
  <2>5. handlers' = [o \in Handlers |-> IF o = h THEN w
                       ELSE IF U!Writes(o, v, b) THEN [handlers[o] EXCEPT !.into = U!Renamed(@)] ELSE handlers[o]]
    BY <1>3, <1>6, <2>3 DEF U!Rename
  <2>6. ASSUME NEW o \in Handlers
        PROVE  /\ o = h => handlers'[o] = w
               /\ o # h /\ ~U!Writes(o, v, b) => handlers'[o] = handlers[o]
               /\ o # h /\ U!Writes(o, v, b) =>
                    handlers[o] \in Receiving /\ \E i \in Whereabouts : handlers'[o] = Redirected(handlers[o], i)
    <3>1. CASE o # h /\ U!Writes(o, v, b)
      <4>1. handlers[o] \in Receiving BY <3>1, ReceivingIs DEF U!Writes
      <4>2. PICK i : i = U!Renamed(handlers[o].into) OBVIOUS
      <4>3. i \in Whereabouts BY <4>2 DEF U!Renamed, Whereabouts
      <4>4. handlers'[o] = [handlers[o] EXCEPT !.into = i] BY <2>5, <3>1, <4>2
      <4> QED BY <3>1, <4>1, <4>3, <4>4 DEF Redirected
    <3>2. CASE ~(o # h /\ U!Writes(o, v, b)) BY <2>5, <3>2
    <3> QED BY <3>1, <3>2
  <2>7. U!Writes(h, v, b) BY <1>1, <1>3 DEF U!Writes
  <2>8. v \in Keeping /\ b \notin spoiled[v] => store = s.data /\ \A g \in Handlers : U!Writes(g, v, b) => g = h
    BY <1>1, <2>1, <2>7 DEF UploadsInv, WritesAlone
  <2>9. /\ RowsTyped' /\ StaysSound /\ RowSound' /\ FilePure' /\ Keeping' = Keeping
        /\ \A x \in Users, y \in Chunks :
             /\ chunkStore'[x][y] = IF x = v /\ y = b THEN store ELSE chunkStore[x][y]
             /\ temp'[x][y] = IF x = v /\ y = b THEN U!NoChunk ELSE temp[x][y]
             /\ y \in spoiled'[x] <=> (y \in spoiled[x] \/ (x = v /\ y \in more))
    <3>1. StoresSound(v, b, store, more) BY <1>6, <2>1, <2>2 DEF Sound, StoresSound
    <3>2. U!NoChunk \in {U!NoChunk} \cup Bytes OBVIOUS
    <3>3. RowsKeep /\ ChunkStepped(v, b, store, U!NoChunk, more) BY <2>4, <3>1, <3>2, ChunkKeeps
    <3> QED BY <3>3 DEF RowsKeep, ChunkStepped
  <2>10. Tail(s.todo) = <<"mark">> /\ Len(s.todo) > 1 BY <1>2
  <2>11. w = U!Free \/ (s.data = "good" /\ w = [s EXCEPT !.todo = <<"mark">>])
    BY <2>3, <2>10 DEF U!Matches, U!Onward
  <2>12. w \in Working' /\ Carries(w)' /\ Still(w)
    <3>1. CASE w = U!Free BY <3>1, FreeCarries DEF Working, Carries
    <3>2. CASE s.data = "good" /\ w = [s EXCEPT !.todo = <<"mark">>]
      <4>1. <<"mark">> \in Todos BY DEF Todos
      <4>2. /\ w \in Receiving /\ w.pc = "chunk" /\ s.pc = "chunk" /\ w.user = v /\ s.user = v /\ w.chunk = b
            /\ w.marked = s.marked /\ w.todo = <<"mark">> /\ s.marked \subseteq Chunks
        BY <1>2, <1>3, <3>2, <4>1 DEF Receiving
      <4>3. v \in Keeping => \A y \in s.marked : Sound(v, y)' BY <1>2, <2>9, <4>2 DEF Carries, StaysSound
      <4>4. v \in Keeping => Sound(v, b)' BY <1>6, <2>1, <2>8, <2>9, <3>2 DEF Sound
      <4>5. Carries(w)' BY <2>9, <4>2, <4>3, <4>4 DEF Carries
      <4>6. w \in Working' /\ Still(w) BY <4>2 DEF Working, Still
      <4> QED BY <4>5, <4>6
    <3> QED BY <2>11, <3>1, <3>2
  <2>13. ASSUME NEW x \in Keeping, NEW y \in Chunks \ spoiled'[x], NEW o \in Handlers, U!Writes(o, x, y)'
         PROVE  /\ handlers'[o].into = "temp"
                /\ Head(handlers'[o].todo) = "rename" => temp'[x][y] = handlers'[o].data
                /\ \A g \in Handlers : U!Writes(g, x, y)' => g = o
    <3>1. x \in Users /\ y \in Chunks \ spoiled[x] BY <2>9 DEF Keeping
    <3>2. ASSUME NEW g \in Handlers, U!Writes(g, x, y)' PROVE g # h /\ U!Writes(g, x, y)
      <4>1. g # h BY <2>6, <2>12, <3>2 DEF U!Writes, Still
      <4>2. CASE U!Writes(g, v, b)
        <5>1. PICK i \in Whereabouts : handlers'[g] = Redirected(handlers[g], i) BY <2>6, <4>1, <4>2
        <5>2. handlers[g] \in Receiving BY <2>6, <4>1, <4>2
        <5>3. handlers'[g].pc = handlers[g].pc /\ handlers'[g].user = handlers[g].user
              /\ handlers'[g].chunk = handlers[g].chunk /\ handlers'[g].todo = handlers[g].todo
          BY <5>1, <5>2 DEF Redirected, Receiving
        <5> QED BY <3>2, <4>1, <5>3 DEF U!Writes
      <4>3. CASE ~U!Writes(g, v, b) BY <2>6, <3>2, <4>1, <4>3 DEF U!Writes
      <4> QED BY <4>1, <4>2, <4>3
    <3>3. o # h /\ U!Writes(o, x, y) BY <2>13, <3>2
    <3>4. ~(x = v /\ y = b) BY <2>8, <3>1, <3>3
    <3>5. ~U!Writes(o, v, b) BY <3>3, <3>4 DEF U!Writes
    <3> QED BY <2>6, <2>9, <3>1, <3>2, <3>3, <3>4, <3>5 DEF UploadsInv, WritesAlone
  <2>14. WritesAlone' BY <2>9, <2>13 DEF WritesAlone
  <2>15. handlers' = [g \in Handlers |-> handlers'[g]] BY <2>5
  <2>16. \A g \in Handlers :
            \/ handlers'[g] \in {handlers[g], w}
            \/ handlers[g] \in Receiving /\ \E i \in Whereabouts : handlers'[g] = Redirected(handlers[g], i)
    BY <2>6
  <2> QED BY <2>9, <2>12, <2>14, <2>15, <2>16, StepsInv
<1> QED BY <1>5, <1>6

LEMMA MarkReceivedInv == ASSUME UploadsInv, NEW h \in Handlers, U!MarkReceived(h) PROVE UploadsInv'
<1> DEFINE s == handlers[h]
           u == s.user
           m == s.marked \cup {s.chunk}
<1>1. s \in Receiving /\ Head(s.todo) = "mark" /\ Carries(s)
  BY ReceivingIs DEF U!MarkReceived, U!At
<1>2. s.todo = <<"mark">> BY <1>1, ReceivingIs DEF U!MarkReceived, U!At
<1>3. Len(s.todo) = 1 BY <1>2
<1>4. /\ session' = [session EXCEPT ![u].marked = m, ![u].over = FALSE]
      /\ handlers' = [handlers EXCEPT ![h] = U!Free]
      /\ UNCHANGED <<chunkStore, temp, differed, finished, spoiled, file, owner>>
  BY <1>3 DEF U!MarkReceived, U!Onward, U!Become, U!Node, U!ChunkDisk, U!History
<1>5. u \in Users /\ m \subseteq Chunks BY <1>1 DEF Receiving
<1>6. RowsTyped'
  <2>1. session' \in [Users -> [status : {"none", "pending", "expired", "completed"},
                               marked : SUBSET Chunks, over : BOOLEAN]]
    <3>1. PICK v \in Users, k \in SUBSET Chunks : v = u /\ k = m BY <1>5
    <3>2. session' = [session EXCEPT ![v].marked = k, ![v].over = FALSE] BY <1>4, <3>1
    <3> HIDE DEF u, m
    <3> QED BY <3>2 DEF UploadsInv, UploadsTyped, RowsTyped
  <2> QED BY <1>4, <2>1 DEF UploadsInv, UploadsTyped, RowsTyped
<1>7. /\ StaysSound /\ Keeping' = Keeping
      /\ \A x, y : Sound(x, y)' <=> Sound(x, y)
      /\ \A x, y : Pure(x, y)' <=> Pure(x, y)
  BY <1>4, NothingTaken
<1>8. u \in Keeping => \A y \in m : Sound(u, y) BY <1>1, <1>2 DEF Carries, Receiving, U!Free
<1>9. RowSound'
  <2> SUFFICES ASSUME NEW x \in Keeping, NEW y \in session'[x].marked PROVE Sound(x, y) BY <1>7 DEF RowSound
  <2>1. session'[x].marked = IF x = u THEN m ELSE session[x].marked
    BY <1>4 DEF UploadsInv, UploadsTyped, RowsTyped, Keeping
  <2> QED BY <1>8, <2>1 DEF UploadsInv, RowSound
<1>10. FilePure' BY <1>4, <1>7 DEF UploadsInv, FilePure, Pure
<1>11. U!Free \in Working' /\ Carries(U!Free)' /\ Still(U!Free) BY FreeCarries DEF Working, Carries
<1> QED BY <1>4, <1>6, <1>7, <1>9, <1>10, <1>11, StepInv

-----------------------------------------------------------------------------
(* Uploads: the file.                                                      *)

\* A step that leaves rows, chunks and histories.
LEMMA FileStep ==
    ASSUME UploadsInv, UNCHANGED <<session, chunkStore, temp, differed, finished, spoiled>>, owner' \in Users \cup {U!Nobody},
           file' \in {U!NoFile} \cup [of : Users, content : Content], FilePure',
           NEW h, NEW s, s \in Working, Carries(s), Still(s),
           handlers' = [handlers EXCEPT ![h] = s] \/ handlers' = handlers
    PROVE  UploadsInv'
<1>1. RowsTyped' BY DEF UploadsInv, UploadsTyped, RowsTyped
<1> QED BY <1>1, RowStep

LEMMA AssembleInv == ASSUME UploadsInv, NEW h \in Handlers, U!Assemble(h) PROVE UploadsInv'
<1> DEFINE s == handlers[h]
           n == IF \E c \in Chunks : chunkStore[s.user][c] = U!NoChunk THEN U!Free
                ELSE [pc |-> "commit", user |-> s.user, content |-> chunkStore[s.user]]
<1>1. s \in [pc : {"assemble"}, user : Users] /\ Carries(s)
  BY DEF U!Assemble, UploadsInv, UploadsTyped, Working, Receiving, U!Free, AllCarry
<1>2. handlers' = [handlers EXCEPT ![h] = n] /\ UNCHANGED <<session, chunkStore, temp, differed, finished, spoiled, file, owner>>
  BY DEF U!Assemble, U!Become, U!Node, U!ChunkDisk, U!History
<1>3. n \in Working /\ Carries(n) /\ Still(n)
  <2>1. CASE \E c \in Chunks : chunkStore[s.user][c] = U!NoChunk BY <2>1, FreeCarries
  <2>2. CASE ~\E c \in Chunks : chunkStore[s.user][c] = U!NoChunk
    <3>1. chunkStore[s.user] \in Content BY <1>1, <2>2 DEF UploadsInv, UploadsTyped, RowsTyped, Content
    <3>2. n = [pc |-> "commit", user |-> s.user, content |-> chunkStore[s.user]] BY <2>2
    <3>3. n \in Working BY <1>1, <3>1, <3>2 DEF Working
    <3>4. s.user \in Keeping => \A c \in Chunks : Sound(s.user, c) BY <1>1 DEF Carries, U!Free
    <3>5. s.user \in Keeping => Pure(s.user, chunkStore[s.user]) BY <3>4 DEF Sound, Pure
    <3>6. n.pc = "commit" /\ n.user = s.user /\ n.content = chunkStore[s.user] BY <3>2
    <3> QED BY <3>3, <3>5, <3>6 DEF Carries, Still
  <2> QED BY <2>1, <2>2
<1>4. file' \in {U!NoFile} \cup [of : Users, content : Content] /\ owner' \in Users \cup {U!Nobody}
  BY <1>2 DEF UploadsInv, UploadsTyped, RowsTyped
<1>5. FilePure' BY <1>2 DEF UploadsInv, FilePure, Keeping, Pure
<1> HIDE DEF n
<1>6. PICK w : w = n OBVIOUS
<1>7. w \in Working /\ Carries(w) /\ Still(w) BY <1>3, <1>6
<1> QED BY <1>2, <1>4, <1>5, <1>6, <1>7, FileStep

\* What a request carries to the node.
LEMMA CommitCarries ==
    ASSUME UploadsInv, NEW h \in Handlers, handlers[h].pc \in {"commit", "create"}
    PROVE  /\ handlers[h] \in [pc : {"commit", "create"}, user : Users, content : Content]
           /\ handlers[h].user \in Keeping => Pure(handlers[h].user, handlers[h].content)
<1>1. handlers[h] \in [pc : {"commit", "create"}, user : Users, content : Content] /\ Carries(handlers[h])
  BY DEF UploadsInv, UploadsTyped, Working, Receiving, U!Free, AllCarry
<1> QED BY <1>1 DEF Carries, U!Free

LEMMA CommitInv == ASSUME UploadsInv, NEW h \in Handlers, U!Commit(h) PROVE UploadsInv'
<1> DEFINE s == handlers[h]
           n == [s EXCEPT !.pc = "create"]
           f == [of |-> s.user, content |-> s.content]
<1>1. s \in [pc : {"commit", "create"}, user : Users, content : Content]
      /\ (s.user \in Keeping => Pure(s.user, s.content)) BY CommitCarries DEF U!Commit
<1>2. file' = f /\ handlers' = [handlers EXCEPT ![h] = n]
      /\ UNCHANGED <<session, chunkStore, temp, differed, finished, spoiled, owner>>
  BY DEF U!Commit, U!Become, U!ChunkDisk, U!History
<1>3. n \in [pc : {"commit", "create"}, user : Users, content : Content]
      /\ n.pc = "create" /\ n.user = s.user /\ n.content = s.content BY <1>1
<1>4. n \in Working /\ Carries(n) /\ Still(n) BY <1>1, <1>3 DEF Working, Carries, Still
<1>5. f \in [of : Users, content : Content] /\ f.of = s.user /\ f.content = s.content BY <1>1
<1>6. FilePure' BY <1>1, <1>2, <1>5 DEF FilePure, Keeping, Pure
<1>7. owner' \in Users \cup {U!Nobody} BY <1>2 DEF UploadsInv, UploadsTyped, RowsTyped
<1> HIDE DEF n
<1>8. PICK w : w = n OBVIOUS
<1> QED BY <1>2, <1>4, <1>5, <1>6, <1>7, <1>8, FileStep

LEMMA CreateRowInv == ASSUME UploadsInv, NEW h \in Handlers, U!CreateRow(h) PROVE UploadsInv'
<1>1. handlers[h] \in [pc : {"commit", "create"}, user : Users, content : Content]
      /\ UNCHANGED <<session, chunkStore, temp, spoiled, differed, file>>
  BY CommitCarries DEF U!CreateRow, U!ChunkDisk
<1>2. PICK u \in Users : u = handlers[h].user BY <1>1
<1>3. CASE owner # U!Nobody
  <2>1. handlers' = [handlers EXCEPT ![h] = U!Free] /\ UNCHANGED <<owner, finished>> BY <1>3 DEF U!CreateRow, U!Become
  <2>2. file' \in {U!NoFile} \cup [of : Users, content : Content] /\ owner' \in Users \cup {U!Nobody}
    BY <1>1, <2>1 DEF UploadsInv, UploadsTyped, RowsTyped
  <2>3. FilePure' BY <1>1, <2>1 DEF UploadsInv, FilePure, Keeping, Pure
  <2> QED BY <1>1, <2>1, <2>2, <2>3, FreeCarries, FileStep
<1>4. CASE owner = U!Nobody
  <2> DEFINE n == [pc |-> "status", user |-> u]
  <2>1. owner' = u /\ finished' = finished \cup {u} /\ handlers' = [handlers EXCEPT ![h] = n]
    BY <1>2, <1>4 DEF U!CreateRow, U!Become
  <2>2. Keeping' \subseteq Keeping BY <1>1, <2>1 DEF Keeping
  <2>3. (\A x, y : Sound(x, y)' <=> Sound(x, y)) /\ (\A x, y : Pure(x, y)' <=> Pure(x, y)) BY <1>1 DEF Sound, Pure
  <2>4. StaysSound BY <1>1, <2>1, <2>3 DEF StaysSound
  <2>5. RowsTyped' BY <1>1, <2>1 DEF UploadsInv, UploadsTyped, RowsTyped
  <2>6. RowSound' BY <1>1, <2>2, <2>3 DEF UploadsInv, RowSound
  <2>7. FilePure' BY <1>1, <2>2, <2>3 DEF UploadsInv, FilePure
  <2>8. n \in Working' /\ Carries(n)' /\ Still(n) BY <2>1 DEF Working, Carries, Keeping, Still
  <2> HIDE DEF n
  <2> QED BY <1>1, <2>1, <2>4, <2>5, <2>6, <2>7, <2>8, StepInv
<1> QED BY <1>3, <1>4

\* The chunks of one user go, who has them no more, and from under its requests.
LEMMA DiscardInv ==
    ASSUME UploadsInv, NEW h \in Handlers, NEW u \in Users, u = handlers[h].user, U!Discard(h),
           u \in differed' \cup finished, differed \subseteq differed', differed' \subseteq Users,
           UNCHANGED <<session, finished, spoiled, owner>>,
           file' \in {U!NoFile} \cup [of : Users, content : Content], FilePure'
    PROVE  UploadsInv'
<1>1. /\ chunkStore \in [Users -> [Chunks -> {U!NoChunk} \cup Bytes]]
      /\ temp \in [Users -> [Chunks -> {U!NoChunk} \cup Bytes]] /\ handlers \in [Handlers -> Working]
  BY DEF UploadsInv, UploadsTyped, RowsTyped
<1> DEFINE none == [c \in Chunks |-> U!NoChunk]
<1>2. chunkStore' = [chunkStore EXCEPT ![u] = none] /\ temp' = [temp EXCEPT ![u] = none] BY DEF U!Discard
<1>3. handlers' = [o \in Handlers |-> IF o = h THEN U!Free
                     ELSE IF handlers[o].pc = "chunk" /\ handlers[o].user = u THEN [handlers[o] EXCEPT !.into = "nothing"]
                     ELSE handlers[o]]
  BY DEF U!Discard
<1>4. none \in [Chunks -> {U!NoChunk} \cup Bytes] OBVIOUS
<1> HIDE DEF none
<1>5. /\ chunkStore' \in [Users -> [Chunks -> {U!NoChunk} \cup Bytes]] /\ temp' \in [Users -> [Chunks -> {U!NoChunk} \cup Bytes]]
      /\ \A x \in Users : x # u => chunkStore'[x] = chunkStore[x] /\ temp'[x] = temp[x]
  BY <1>1, <1>2, <1>4
<1>6. RowsTyped' BY <1>5 DEF UploadsInv, UploadsTyped, RowsTyped
<1>7. Keeping' \subseteq Keeping /\ u \notin Keeping' /\ Keeping \subseteq Users BY DEF Keeping
<1>8. \A x \in Keeping' : \A c : Sound(x, c)' <=> Sound(x, c) BY <1>5, <1>7 DEF Sound
<1>9. StaysSound BY <1>8 DEF StaysSound
<1>10. RowSound' BY <1>7, <1>8 DEF UploadsInv, RowSound
<1>11. ASSUME NEW g \in Handlers
       PROVE  /\ g = h => handlers'[g] = U!Free
              /\ g # h /\ ~(handlers[g].pc = "chunk" /\ handlers[g].user = u) => handlers'[g] = handlers[g]
              /\ g # h /\ handlers[g].pc = "chunk" /\ handlers[g].user = u =>
                    handlers[g] \in Receiving /\ handlers'[g] = Redirected(handlers[g], "nothing")
  BY <1>3, ReceivingIs DEF Redirected
<1>12. ASSUME NEW x \in Keeping', NEW y, NEW g \in Handlers, U!Writes(g, x, y)'
       PROVE  handlers'[g] = handlers[g] /\ U!Writes(g, x, y)
  <2>1. g # h BY <1>11, <1>12 DEF U!Writes, U!Free
  <2>2. CASE handlers[g].pc = "chunk" /\ handlers[g].user = u
    <3>1. handlers'[g].user = u BY <1>11, <2>1, <2>2 DEF Redirected, Receiving
    <3> QED BY <1>7, <1>12, <3>1 DEF U!Writes
  <2>3. CASE ~(handlers[g].pc = "chunk" /\ handlers[g].user = u) BY <1>11, <1>12, <2>1, <2>3 DEF U!Writes
  <2> QED BY <2>2, <2>3
<1>13. \A x \in Keeping' : x \in Keeping /\ spoiled'[x] = spoiled[x] /\ temp'[x] = temp[x] BY <1>5, <1>7
<1>14. WritesAlone' BY <1>12, <1>13 DEF UploadsInv, WritesAlone
<1>15. U!Free \in Working' /\ Carries(U!Free)' BY DEF Working, Carries
<1>16. "nothing" \in Whereabouts BY DEF Whereabouts
<1>17. handlers' = [g \in Handlers |-> handlers'[g]] BY <1>3
<1> QED BY <1>6, <1>9, <1>10, <1>11, <1>14, <1>15, <1>16, <1>17, StepsInv

LEMMA CommitFailsInv == ASSUME UploadsInv, NEW h \in Handlers, U!CommitFails(h) PROVE UploadsInv'
<1> DEFINE s == handlers[h]
           f == [of |-> s.user, content |-> s.content]
<1>1. s \in [pc : {"commit", "create"}, user : Users, content : Content]
      /\ (s.user \in Keeping => Pure(s.user, s.content)) BY CommitCarries DEF U!CommitFails
<1>2. file' \in {file, f} /\ UNCHANGED <<session, finished, spoiled, owner>> BY DEF U!CommitFails
<1>3. f \in [of : Users, content : Content] /\ f.of = s.user /\ f.content = s.content BY <1>1
<1>4. file' \in {U!NoFile} \cup [of : Users, content : Content] BY <1>2, <1>3 DEF UploadsInv, UploadsTyped, RowsTyped
<1>5. \/ UNCHANGED <<chunkStore, temp, differed>> /\ handlers' = [handlers EXCEPT ![h] = U!Free]
      \/ U!Discard(h) /\ differed' = differed \cup {s.user}
  BY DEF U!CommitFails, U!Become, U!ChunkDisk
<1>6. FilePure'
  <2>1. Keeping' \subseteq Keeping BY <1>2, <1>5 DEF Keeping
  <2>2. file # U!NoFile /\ file.of \in Keeping => Pure(file.of, file.content) BY DEF UploadsInv, FilePure
  <2> HIDE DEF f
  <2> QED BY <1>1, <1>2, <1>3, <2>1, <2>2 DEF FilePure, Pure
<1>7. CASE UNCHANGED <<chunkStore, temp, differed>> /\ handlers' = [handlers EXCEPT ![h] = U!Free]
  <2>1. owner' \in Users \cup {U!Nobody} BY <1>2 DEF UploadsInv, UploadsTyped, RowsTyped
  <2> QED BY <1>2, <1>4, <1>6, <1>7, <2>1, FreeCarries, FileStep
<1>8. CASE U!Discard(h) /\ differed' = differed \cup {s.user}
  <2>1. PICK u \in Users : u = s.user BY <1>1
  <2>2. differed \subseteq Users BY DEF UploadsInv, UploadsTyped, RowsTyped
  <2>3. u \in differed' /\ differed \subseteq differed' /\ differed' \subseteq Users BY <1>8, <2>1, <2>2
  <2> QED BY <1>2, <1>4, <1>6, <1>8, <2>1, <2>3, DiscardInv
<1> QED BY <1>5, <1>7, <1>8

LEMMA SetStatusInv == ASSUME UploadsInv, NEW h \in Handlers, U!SetStatus(h) PROVE UploadsInv'
<1> DEFINE s == handlers[h]
           n == [s EXCEPT !.pc = "discard"]
<1>1. s \in [pc : {"status", "discard"}, user : finished] BY DEF U!SetStatus, UploadsInv, UploadsTyped, Working, Receiving, U!Free
<1>2. handlers' = [handlers EXCEPT ![h] = n] /\ UNCHANGED <<chunkStore, temp, differed, finished, spoiled, file, owner>>
  BY DEF U!SetStatus, U!Become, U!Node, U!ChunkDisk, U!History
<1>3. n \in [pc : {"status", "discard"}, user : finished] BY <1>1
<1>4. n \in Working /\ Carries(n) /\ Still(n) BY <1>3 DEF Working, Carries, Still
<1>5. /\ session' \in [Users -> [status : {"none", "pending", "expired", "completed"},
                                  marked : SUBSET Chunks, over : BOOLEAN]]
      /\ \A v \in Users : session'[v].marked = session[v].marked
  <2>1. CASE session' = session BY <2>1 DEF UploadsInv, UploadsTyped, RowsTyped
  <2>2. CASE session' = [session EXCEPT ![s.user].status = "completed"]
    <3>1. PICK u \in finished : u = s.user BY <1>1
    <3>2. session' = [session EXCEPT ![u].status = "completed"] BY <2>2, <3>1
    <3>3. u \in Users /\ "completed" \in {"none", "pending", "expired", "completed"} BY DEF UploadsInv, UploadsTyped, RowsTyped
    <3>4. session \in [Users -> [status : {"none", "pending", "expired", "completed"},
                                  marked : SUBSET Chunks, over : BOOLEAN]]
      BY DEF UploadsInv, UploadsTyped, RowsTyped
    <3>5. /\ [session[u] EXCEPT !.status = "completed"] \in [status : {"none", "pending", "expired", "completed"},
                                                             marked : SUBSET Chunks, over : BOOLEAN]
          /\ [session[u] EXCEPT !.status = "completed"].marked = session[u].marked BY <3>3, <3>4
    <3> QED BY <3>2, <3>3, <3>4, <3>5
  <2> QED BY <2>1, <2>2 DEF U!SetStatus
<1>6. RowsTyped' BY <1>2, <1>5 DEF UploadsInv, UploadsTyped, RowsTyped
<1>7. FilePure' BY <1>2 DEF UploadsInv, FilePure, Keeping, Pure
<1> HIDE DEF n
<1> QED BY <1>2, <1>4, <1>5, <1>6, <1>7, RowStep

LEMMA DiscardChunksInv == ASSUME UploadsInv, NEW h \in Handlers, U!DiscardChunks(h) PROVE UploadsInv'
<1>1. handlers[h] \in [pc : {"status", "discard"}, user : finished]
  BY DEF U!DiscardChunks, UploadsInv, UploadsTyped, Working, Receiving, U!Free
<1>2. U!Discard(h) /\ UNCHANGED <<session, differed, finished, spoiled, file, owner>>
  BY DEF U!DiscardChunks, U!Node, U!History
<1>3. differed \subseteq Users /\ finished \subseteq Users /\ file \in {U!NoFile} \cup [of : Users, content : Content]
  BY DEF UploadsInv, UploadsTyped, RowsTyped
<1>4. PICK u \in Users : u = handlers[h].user /\ u \in finished BY <1>1, <1>3
<1>5. FilePure' BY <1>2 DEF UploadsInv, FilePure, Keeping, Pure
<1> QED BY <1>2, <1>3, <1>4, <1>5, DiscardInv

LEMMA DeleteFileInv == ASSUME UploadsInv, U!DeleteFile PROVE UploadsInv'
<1>1. owner' = U!Nobody /\ UNCHANGED <<session, chunkStore, temp, handlers, differed, finished, spoiled, file>>
  BY DEF U!DeleteFile, U!ChunkDisk, U!History
<1>2. file' \in {U!NoFile} \cup [of : Users, content : Content] BY <1>1 DEF UploadsInv, UploadsTyped, RowsTyped
<1>3. FilePure' BY <1>1 DEF UploadsInv, FilePure, Keeping, Pure
<1> QED BY <1>1, <1>2, <1>3, FreeCarries, FileStep

LEMMA UploadsNextInv == ASSUME UploadsInv, [U!Next]_U!vars PROVE UploadsInv'
<1>1. CASE UNCHANGED U!vars
  <2>1. UNCHANGED <<session, chunkStore, temp, handlers, file, owner, differed, finished, spoiled>> BY <1>1 DEF U!vars
  <2>2. file' \in {U!NoFile} \cup [of : Users, content : Content] /\ owner' \in Users \cup {U!Nobody}
    BY <2>1 DEF UploadsInv, UploadsTyped, RowsTyped
  <2>3. FilePure' BY <2>1 DEF UploadsInv, FilePure, Keeping, Pure
  <2> QED BY <2>1, <2>2, <2>3, FreeCarries, FileStep
<1> QED
  BY <1>1, SessionInv, CompleteUploadInv, UploadChunkDataInv, OpenTempInv, WriteTempInv, RenameInv, MarkReceivedInv, AssembleInv, CommitInv,
     CommitFailsInv, CreateRowInv, SetStatusInv, DiscardChunksInv, DeleteFileInv DEF U!Next

-----------------------------------------------------------------------------
(* Theorems of Migration, Snapshots, Templates and Uploads.                *)

\* The row of a machine names a node that has its domain and its disk, after every
\* step of a migration, whatever answers are lost, unless an operation was carried
\* out after its task had ended or on a node that was not the machine's any more.
THEOREM RowNamesTheMachine == M!Spec => []RowFindsMachine
BY MovesInitInv, MovesNextInv, MovesInvMeans, PTL DEF M!Spec, RowFindsMachine

\* And the machine runs on one node at most.
THEOREM MachineRunsOnce == M!Spec => []RunsOnce
BY MovesInitInv, MovesNextInv, MovesInvMeans, PTL DEF M!Spec, RunsOnce

\* A snapshot that the table offers is one that libvirt has, however the requests
\* interleave, unless its deletion ended with an error.
THEOREM OfferedIsHeld == S!Spec => []ReadyMeansHeld
BY SnapsInitInv, SnapsNextInv, SnapsInvMeans, PTL DEF S!Spec, ReadyMeansHeld

\* A machine that the table calls full is backed by no template (the comment of
\* MakeDisksIndependent), unless libvirt refused its new definition.
THEOREM FullIsAlone == T!Spec => []FullMeansAlone
BY TemplatesInvInit, TemplatesInvNext, TemplatesInvMeans, PTL DEF T!Spec, FullMeansAlone

\* A template that is offered has its file (PrepareExecutor.Run, DeleteExecutor.Run),
\* unless its removal is at work or ended badly.
THEOREM OfferedHasFile == T!Spec => []ReadyHasDisk
BY TemplatesInvInit, TemplatesInvNext, TemplatesInvMeans, PTL DEF T!Spec, ReadyHasDisk

\* What a session's bitmap marks is stored, until the session is done with.
THEOREM MarkIsStored == U!Spec => []MarkedMeansStored
BY UploadsInitInv, UploadsNextInv, UploadsInvMeans, PTL DEF U!Spec, MarkedMeansStored

\* The file on the node is made of chunks that were accepted.
THEOREM FileIsMadeOfGood == U!Spec => []MadeOfGood
BY UploadsInitInv, UploadsNextInv, UploadsInvMeans, PTL DEF U!Spec, MadeOfGood
=============================================================================
