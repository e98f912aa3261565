------------------------- MODULE VMLifecycleProofs -------------------------
(***************************************************************************)
(* For any handlers, requests, lost answers and scans: a row stands for    *)
(* its own machine, and a deletion that was checked spares the running.    *)
(* For any disks, pools and requests: a machine that is off boots from the *)
(* files that hold all its guest wrote.                                    *)
(***************************************************************************)
EXTENDS MCVMLifecycle, SequenceTheorems, TLAPS

-----------------------------------------------------------------------------
(* The types.                                                              *)

Pcs == {"name", "lock", "active", "probe", "mark", "enqueue", "scan", "insert", "restore", "setlock"}
Todos == {<<>>, <<"enqueue">>, <<"mark", "enqueue">>, <<"probe", "mark", "enqueue">>,
          <<"active", "probe", "mark", "enqueue">>, <<"active", "mark", "enqueue">>, <<"insert">>}
Numbers == Nat \ {0}
DomainType == [of : Nat, on : BOOLEAN]
ReqType == [pc : Pcs, todo : Todos, kind : Kinds, no : Numbers, vm : Numbers, found : DomainType,
            unchecked : BOOLEAN, cleared : BOOLEAN, locked : BOOLEAN]
TaskType == [no : Numbers, kind : Kinds, vm : Numbers, st : {"pending", "running", "answered"},
             unchecked : BOOLEAN]
RowType == [id : Numbers, of : Nat, present : BOOLEAN, trashed : BOOLEAN, locked : BOOLEAN,
            status : {"unknown", "running", "stopped"}]

\* Where a request is tells what it has still to do.
Place(q) ==
    \/ q.pc = "name" /\ q.kind \in MachineKinds /\ q.todo = <<"enqueue">>
    \/ q.pc = "scan" /\ q.kind = "adopt" /\ q.todo = <<"insert">>
    \/ q.pc = "insert" /\ q.kind = "adopt" /\ q.todo = <<>>
    \/ q.pc = "lock" /\ q.kind \in {"delete", "keep"} /\ q.todo = <<"active", "probe", "mark", "enqueue">>
    \/ q.pc = "lock" /\ q.kind = "force" /\ q.todo = <<"active", "mark", "enqueue">>
    \/ q.pc = "active" /\ q.kind \in {"delete", "keep"} /\ q.todo = <<"probe", "mark", "enqueue">>
    \/ q.pc = "active" /\ q.kind = "force" /\ q.todo = <<"mark", "enqueue">>
    \/ q.pc = "active" /\ q.kind = "purge" /\ q.todo = <<"enqueue">>
    \/ q.pc = "probe" /\ q.kind \in PowerKinds /\ q.todo = <<"enqueue">>
    \/ q.pc = "probe" /\ q.kind \in {"delete", "keep"} /\ q.todo = <<"mark", "enqueue">>
    \/ q.pc = "mark" /\ q.kind \in DeleteKinds /\ q.todo = <<"enqueue">>
    \/ q.pc = "enqueue" /\ q.kind # "adopt" /\ q.todo = <<>>
    \/ q.pc \in {"restore", "setlock"} /\ q.kind \notin BirthKinds \cup {"delete", "keep"} /\ q.todo = <<>>

Busy(r) == req[r] \in ReqType /\ Place(req[r])

Typed ==
    /\ row = NoRow \/ row \in RowType
    /\ domain \in DomainType /\ scan \in DomainType
    /\ tasks \in Seq(TaskType) /\ ops \subseteq TaskType
    /\ DOMAIN req = Requests /\ \A r \in Requests : req[r] = Idle \/ Busy(r)
    /\ calls \in Nat /\ lost \in Nat /\ overlap \in BOOLEAN /\ stray \in BOOLEAN

-----------------------------------------------------------------------------
(* Numbers. What is under way has the number of its request: each one only *)
(* once, but for an operation and its task, which are of one kind.         *)

Active(r) == req[r] # Idle
Numbered ==
    /\ \A r \in Requests : Active(r) => req[r].no <= calls
    /\ \A i \in DOMAIN tasks : tasks[i].no <= calls
    /\ \A o \in ops : o.no <= calls
    /\ \A r, q \in Requests : Active(r) /\ Active(q) /\ req[r].no = req[q].no => r = q
    /\ \A r \in Requests : Active(r) =>
        /\ \A i \in DOMAIN tasks : tasks[i].no # req[r].no
        /\ \A o \in ops : o.no # req[r].no
    /\ \A i, j \in DOMAIN tasks : tasks[i].no = tasks[j].no => i = j
    /\ \A o, p \in ops : o.no = p.no => o = p
    /\ \A o \in ops, i \in DOMAIN tasks : tasks[i].no = o.no =>
        /\ tasks[i].st = "running"
        /\ tasks[i].kind = o.kind /\ tasks[i].vm = o.vm /\ tasks[i].unchecked = o.unchecked
    /\ lost = 0 => \A o \in ops : \E i \in DOMAIN tasks : tasks[i].no = o.no

\* Tasks of one resource begin in the order of their rows.
Ordered ==
    \A i, j \in DOMAIN tasks :
        i < j /\ SameResource(tasks[j], tasks[i]) => tasks[j].st = "pending"

\* A machine that has had a row is not being brought into being.
Born(v) ==
    /\ v <= calls
    /\ \A r \in Requests : Active(r) /\ req[r].kind \in BirthKinds => req[r].no # v
    /\ \A i \in DOMAIN tasks : tasks[i].kind \in MachineKinds => tasks[i].no # v
Known ==
    /\ Exists => Born(row.id)
    /\ \A r \in Requests : Active(r) =>
        IF req[r].kind \in BirthKinds THEN req[r].vm = req[r].no ELSE Born(req[r].vm)
    /\ \A i \in DOMAIN tasks : tasks[i].kind \notin MachineKinds => Born(tasks[i].vm)

-----------------------------------------------------------------------------
(* Births. If they do not overlap there is one at a time, and no row.      *)

BirthReq(r) == Active(r) /\ req[r].kind \in BirthKinds /\ req[r].pc \in {"enqueue", "insert"}
IsBirth(t) == t.kind \in MachineKinds
Births ==
    ~overlap =>
        /\ \A r \in Requests : BirthReq(r) => ~BirthUnderWay(r) /\ (req[r].pc = "enqueue" => ~Exists)
        /\ \A i \in DOMAIN tasks : IsBirth(tasks[i]) => ~Exists
        /\ \A o \in ops : IsBirth(o) => ~Exists
        /\ \A i, j \in DOMAIN tasks : IsBirth(tasks[i]) /\ IsBirth(tasks[j]) => i = j
        /\ \A o, p \in ops : IsBirth(o) /\ IsBirth(p) => o.no = p.no
        /\ \A i \in DOMAIN tasks, o \in ops : IsBirth(tasks[i]) /\ IsBirth(o) => tasks[i].no = o.no
        /\ domain # NoDomain =>
            /\ Exists => row.of = domain.of
            /\ \A r \in Requests : BirthReq(r) /\ req[r].pc = "insert" => domain.of = req[r].found.of
            /\ \A i \in DOMAIN tasks :
                IsBirth(tasks[i]) /\ tasks[i].st = "answered" => domain.of = tasks[i].no

-----------------------------------------------------------------------------
(* Deletions that are not forced, and behind whose check nothing started.  *)

Plain(t) == t.kind \in {"delete", "keep"} /\ ~t.unchecked
Quiet(v) == Exists /\ row.id = v => ~domain.on
Starts(t, v) == t.kind = "start" /\ t.vm = v
Undisturbed ==
    lost = 0 /\ ~stray =>
        /\ \A r \in Requests :
            Active(r) /\ Plain(req[r]) /\ req[r].pc \in {"probe", "mark", "enqueue"} =>
                /\ req[r].cleared
                /\ \A i \in DOMAIN tasks : ~Starts(tasks[i], req[r].vm)
                /\ req[r].pc # "probe" => Quiet(req[r].vm)
        /\ \A i \in DOMAIN tasks :
            Plain(tasks[i]) /\ tasks[i].st # "answered" =>
                /\ \A j \in DOMAIN tasks : Starts(tasks[j], tasks[i].vm) => i < j
                /\ Quiet(tasks[i].vm)

IInv == Typed /\ Numbered /\ Ordered /\ Known /\ Births /\ Undisturbed

-----------------------------------------------------------------------------
(* Sequences.                                                              *)

\* An element of the second of two sequences that are joined.
LEMMA Second ==
    ASSUME NEW S, NEW a \in Seq(S), NEW b \in Seq(S), NEW j \in Len(a) + 1 .. Len(a) + Len(b)
    PROVE  (a \o b)[j] = b[j - Len(a)]
OBVIOUS

\* What is left of a sequence keeps its order.
Past(i, j) == IF j < i THEN j ELSE j + 1
LEMMA Removed ==
    ASSUME NEW S, NEW s \in Seq(S), NEW i \in DOMAIN s
    PROVE  /\ RemoveAt(s, i) \in Seq(S)
           /\ Len(RemoveAt(s, i)) = Len(s) - 1
           /\ \A j \in DOMAIN RemoveAt(s, i) : /\ Past(i, j) \in DOMAIN s
                                               /\ Past(i, j) # i
                                               /\ RemoveAt(s, i)[j] = s[Past(i, j)]
           /\ \A k \in DOMAIN s \ {i} : \E j \in DOMAIN RemoveAt(s, i) : Past(i, j) = k
<1>1. i \in 1 .. Len(s) /\ Len(s) \in Nat OBVIOUS
<1> DEFINE a == SubSeq(s, 1, i - 1)
           b == SubSeq(s, i + 1, Len(s))
<1>2. a \in Seq(S) /\ Len(a) = i - 1 /\ \A j \in 1 .. i - 1 : a[j] = s[j] BY <1>1
<1>3. b \in Seq(S) /\ Len(b) = Len(s) - i /\ \A j \in 1 .. Len(s) - i : b[j] = s[i + j] BY <1>1
<1>4. RemoveAt(s, i) = a \o b BY DEF RemoveAt
<1> HIDE DEF a, b
<1>5. Len(a \o b) = Len(s) - 1 /\ a \o b \in Seq(S) BY <1>1, <1>2, <1>3
<1>6. ASSUME NEW j \in 1 .. Len(s) - 1 PROVE (a \o b)[j] = s[Past(i, j)]
  <2>1. CASE j < i BY <1>1, <1>2, <1>3, <2>1 DEF Past
  <2>2. CASE ~(j < i)
    <3>1. j \in Len(a) + 1 .. Len(a) + Len(b) BY <1>1, <1>2, <1>3, <2>2
    <3>2. (a \o b)[j] = b[j - Len(a)] BY <1>2, <1>3, <3>1, Second
    <3> QED BY <1>1, <1>2, <1>3, <2>2, <3>2 DEF Past
  <2> QED BY <2>1, <2>2
<1>7. DOMAIN (a \o b) = 1 .. Len(s) - 1 BY <1>1, <1>5
<1>8. \A j \in 1 .. Len(s) - 1 : Past(i, j) \in DOMAIN s /\ Past(i, j) # i BY <1>1 DEF Past
<1>9. ASSUME NEW k \in DOMAIN s \ {i} PROVE \E j \in 1 .. Len(s) - 1 : Past(i, j) = k
  <2>1. CASE k < i BY <1>1, <2>1 DEF Past
  <2>2. CASE ~(k < i)
    <3>1. k - 1 \in 1 .. Len(s) - 1 /\ Past(i, k - 1) = k BY <1>1, <2>2 DEF Past
    <3> QED BY <3>1
  <2> QED BY <2>1, <2>2
<1> QED BY <1>4, <1>5, <1>6, <1>7, <1>8, <1>9

-----------------------------------------------------------------------------
(* The places of a request.                                                *)

\* Where a request begins. What a schedule asks for begins with its last step.
LEMMA FirstPlace ==
    ASSUME NEW k \in Kinds, NEW w \in Ways(k)
    PROVE  LET q == [pc |-> Head(w), todo |-> Tail(w), kind |-> k]
           IN q.pc \in Pcs /\ q.todo \in Todos /\ Place(q) /\ q.pc \notin {"insert", "mark"}
              /\ (q.pc = "enqueue" => w = ScheduleSteps /\ k \notin BirthKinds)
              /\ (k \in {"delete", "keep"} => q.pc = "lock" \/ w = ScheduleSteps)
<1> DEFINE q == [pc |-> Head(w), todo |-> Tail(w), kind |-> k]
<1> USE DEF MachineKinds, PowerKinds, BirthKinds, DeleteKinds
<1>0. CASE w # Steps(k)
  <2>1. k \in {"start", "keep"} /\ w = <<"enqueue">> BY <1>0 DEF Ways, Schedulable, ScheduleSteps
  <2>2. q.pc = "enqueue" /\ q.todo = <<>> BY <2>1
  <2> QED BY <2>1, <2>2 DEF Pcs, Todos, Place, ScheduleSteps
<1>1. CASE w = Steps(k) /\ k \in MachineKinds
  <2>1. w = <<"name", "enqueue">> BY <1>1 DEF Steps, CreateSteps
  <2>2. q.pc = "name" /\ q.todo = <<"enqueue">> BY <2>1
  <2> QED BY <1>1, <2>2 DEF Pcs, Todos, Place
<1>2. CASE w = Steps(k) /\ k \in PowerKinds
  <2>1. w = <<"probe", "enqueue">> BY <1>2 DEF Steps, PowerSteps
  <2>2. q.pc = "probe" /\ q.todo = <<"enqueue">> BY <2>1
  <2> QED BY <1>2, <2>2 DEF Pcs, Todos, Place
<1>3. CASE w = Steps(k) /\ k \in {"delete", "keep"}
  <2>1. w = <<"lock", "active", "probe", "mark", "enqueue">> BY <1>3 DEF Steps, DeleteSteps
  <2>2. q.pc = "lock" /\ q.todo = <<"active", "probe", "mark", "enqueue">> BY <2>1
  <2> QED BY <1>3, <2>2 DEF Pcs, Todos, Place
<1>4. CASE w = Steps(k) /\ k = "force"
  <2>1. w = <<"lock", "active", "mark", "enqueue">> BY <1>4 DEF Steps, ForceDeleteSteps
  <2>2. q.pc = "lock" /\ q.todo = <<"active", "mark", "enqueue">> BY <2>1
  <2> QED BY <1>4, <2>2 DEF Pcs, Todos, Place
<1>5. CASE w = Steps(k) /\ k = "purge"
  <2>1. w = <<"active", "enqueue">> BY <1>5 DEF Steps, PurgeSteps
  <2>2. q.pc = "active" /\ q.todo = <<"enqueue">> BY <2>1
  <2> QED BY <1>5, <2>2 DEF Pcs, Todos, Place
<1>6. CASE w = Steps(k) /\ k = "adopt"
  <2>1. w = <<"scan", "insert">> BY <1>6 DEF Steps, AdoptSteps
  <2>2. q.pc = "scan" /\ q.todo = <<"insert">> BY <2>1
  <2> QED BY <1>6, <2>2 DEF Pcs, Todos, Place
<1>7. CASE w = Steps(k) /\ k = "restore"
  <2>1. w = <<"restore">> BY <1>7 DEF Steps, RestoreSteps
  <2>2. q.pc = "restore" /\ q.todo = <<>> BY <2>1
  <2> QED BY <1>7, <2>2 DEF Pcs, Todos, Place
<1>8. CASE w = Steps(k) /\ k \notin BirthKinds \cup PowerKinds \cup DeleteKinds \cup {"purge", "restore"}
  <2>1. w = <<"setlock">> BY <1>8 DEF Steps, SetLockSteps
  <2>2. q.pc = "setlock" /\ q.todo = <<>> BY <2>1
  <2> QED BY <1>8, <2>2 DEF Pcs, Todos, Place
<1> QED BY <1>0, <1>1, <1>2, <1>3, <1>4, <1>5, <1>6, <1>7, <1>8

\* Where it goes on.
Onto(q, p) ==
    \/ p = Idle
    \/ /\ p \in ReqType /\ Place(p)
       /\ p.kind = q.kind /\ p.no = q.no /\ p.vm = q.vm /\ p.found = q.found
       /\ p.unchecked = q.unchecked /\ p.cleared = q.cleared
       /\ p.pc \in {"enqueue", "insert"} /\ p.kind \in BirthKinds => q.pc \in {"name", "scan"}
       /\ p.kind \in {"delete", "keep"} =>
            \/ q.pc = "lock" /\ p.pc = "active"
            \/ q.pc = "active" /\ p.pc = "probe"
            \/ q.pc = "probe" /\ p.pc = "mark"
            \/ q.pc = "mark" /\ p.pc = "enqueue"
LEMMA NextPlace == ASSUME NEW q \in ReqType, Place(q) PROVE Onto(q, Advanced(q))
<1> USE DEF MachineKinds, PowerKinds, BirthKinds, DeleteKinds
<1>1. CASE q.todo = <<>> BY <1>1 DEF Advanced, Onto
<1>2. CASE q.todo # <<>>
  <2> DEFINE p == Advanced(q)
  <2>1. p = [q EXCEPT !.pc = Head(q.todo), !.todo = Tail(q.todo)] BY <1>2 DEF Advanced
  <2>2. /\ p.kind = q.kind /\ p.no = q.no /\ p.vm = q.vm /\ p.found = q.found
        /\ p.unchecked = q.unchecked /\ p.cleared = q.cleared
        /\ p.pc = Head(q.todo) /\ p.todo = Tail(q.todo)
        /\ p.pc \in Pcs /\ p.todo \in Todos => p \in ReqType
    BY <2>1 DEF ReqType
  <2> HIDE DEF p
  <2>3. CASE q.todo = <<"enqueue">>
    <3>1. p.pc = "enqueue" /\ p.todo = <<>> BY <2>2, <2>3
    <3> QED BY <3>1, <2>2, <2>3 DEF Place, Onto, Pcs, Todos, p
  <2>4. CASE q.todo = <<"insert">>
    <3>1. p.pc = "insert" /\ p.todo = <<>> BY <2>2, <2>4
    <3> QED BY <3>1, <2>2, <2>4 DEF Place, Onto, Pcs, Todos, p
  <2>5. CASE q.todo = <<"mark", "enqueue">>
    <3>1. p.pc = "mark" /\ p.todo = <<"enqueue">> BY <2>2, <2>5
    <3> QED BY <3>1, <2>2, <2>5 DEF Place, Onto, Pcs, Todos, p
  <2>6. CASE q.todo = <<"probe", "mark", "enqueue">>
    <3>1. p.pc = "probe" /\ p.todo = <<"mark", "enqueue">> BY <2>2, <2>6
    <3> QED BY <3>1, <2>2, <2>6 DEF Place, Onto, Pcs, Todos, p
  <2>7. CASE q.todo = <<"active", "probe", "mark", "enqueue">>
    <3>1. p.pc = "active" /\ p.todo = <<"probe", "mark", "enqueue">> BY <2>2, <2>7
    <3> QED BY <3>1, <2>2, <2>7 DEF Place, Onto, Pcs, Todos, p
  <2>8. CASE q.todo = <<"active", "mark", "enqueue">>
    <3>1. p.pc = "active" /\ p.todo = <<"mark", "enqueue">> BY <2>2, <2>8
    <3> QED BY <3>1, <2>2, <2>8 DEF Place, Onto, Pcs, Todos, p
  <2> QED BY <1>2, <2>3, <2>4, <2>5, <2>6, <2>7, <2>8 DEF Place
<1> QED BY <1>1, <1>2

-----------------------------------------------------------------------------
(* The types are invariant.                                                *)

LEMMA InitInv == ASSUME Init PROVE IInv
<1>1. Typed
  <2>1. tasks \in Seq(TaskType) BY EmptySeq DEF Init
  <2>2. domain \in DomainType /\ scan \in DomainType BY DEF Init, NoDomain, NotSeen, Nobody, DomainType
  <2> QED BY <2>1, <2>2 DEF Init, Typed
<1>2. Numbered /\ Ordered /\ Known /\ Births /\ Undisturbed
  BY DEF Init, Numbered, Ordered, Known, Births, Undisturbed, Active, Exists, BirthReq
<1> QED BY <1>1, <1>2 DEF IInv

\* A request at one of its steps is under way.
LEMMA Working ==
    ASSUME Typed, NEW r \in Requests
    PROVE  /\ Active(r) => Busy(r)
           /\ req[r].pc \in Pcs => Active(r)
BY DEF Typed, Active, Idle, Pcs

\* Numbers are naturals.
LEMMA Naturals ==
    ASSUME Typed
    PROVE  /\ calls \in Nat
           /\ \A q \in Requests : Active(q) => req[q].no \in Nat /\ req[q].vm \in Nat
           /\ \A i \in DOMAIN tasks : tasks[i].no \in Nat /\ tasks[i].vm \in Nat
           /\ \A o \in ops : o.no \in Nat /\ o.vm \in Nat
           /\ Exists => row.id \in Nat
<1>1. \A q \in Requests : Active(q) => req[q] \in ReqType BY Working DEF Busy
<1>2. \A i \in DOMAIN tasks : tasks[i] \in TaskType BY DEF Typed
<1> QED BY <1>1, <1>2 DEF Typed, ReqType, TaskType, RowType, Numbers, Exists

\* A row is never NoRow.
LEMMA RowIsThere == ASSUME NEW x \in RowType PROVE x # NoRow
BY DEF RowType, NoRow, Nobody, Numbers

\* One task changes its state.
LEMMA Changed ==
    ASSUME Typed, NEW i \in DOMAIN tasks, NEW s \in {"pending", "running", "answered"}
    PROVE  LET x == [tasks EXCEPT ![i].st = s]
           IN /\ x \in Seq(TaskType) /\ Len(x) = Len(tasks) /\ DOMAIN x = DOMAIN tasks
              /\ \A j \in DOMAIN tasks : x[j] = IF j = i THEN [tasks[i] EXCEPT !.st = s] ELSE tasks[j]
<1>1. tasks \in Seq(TaskType) /\ i \in 1 .. Len(tasks) BY DEF Typed
<1>2. tasks[i] \in TaskType BY <1>1
<1>3. [tasks[i] EXCEPT !.st = s] \in TaskType BY <1>2 DEF TaskType
<1> DEFINE e == [tasks[i] EXCEPT !.st = s]
           x == [tasks EXCEPT ![i] = e]
<1> HIDE DEF e
<1>4. /\ x \in Seq(TaskType) /\ Len(x) = Len(tasks)
      /\ \A j \in 1 .. Len(tasks) : x[j] = IF j = i THEN e ELSE tasks[j]
  BY <1>1, <1>3, ExceptSeq DEF e
<1>5. DOMAIN x = 1 .. Len(tasks) /\ DOMAIN tasks = 1 .. Len(tasks) BY <1>1, <1>4
<1> QED BY <1>4, <1>5 DEF e

LEMMA Marked ==
    ASSUME Typed, NEW o \in TaskType
    PROVE  LET x == [i \in DOMAIN tasks |-> Answered(tasks[i], o)]
           IN /\ x \in Seq(TaskType) /\ DOMAIN x = DOMAIN tasks
              /\ \A i \in DOMAIN tasks : x[i] = Answered(tasks[i], o)
<1>1. tasks \in Seq(TaskType) /\ DOMAIN tasks = 1 .. Len(tasks) /\ Len(tasks) \in Nat BY DEF Typed
<1>2. \A i \in 1 .. Len(tasks) : Answered(tasks[i], o) \in TaskType
  <2> SUFFICES ASSUME NEW i \in 1 .. Len(tasks) PROVE Answered(tasks[i], o) \in TaskType OBVIOUS
  <2>1. tasks[i] \in TaskType BY <1>1
  <2> QED BY <2>1 DEF Answered, TaskType
<1>3. [i \in 1 .. Len(tasks) |-> Answered(tasks[i], o)] \in [1 .. Len(tasks) -> TaskType] BY <1>2
<1>4. [i \in 1 .. Len(tasks) |-> Answered(tasks[i], o)] \in Seq(TaskType) BY <1>1, <1>3, SeqDef
<1> QED BY <1>1, <1>4

LEMMA Raced ==
    ASSUME NEW q \in ReqType
    PROVE  LET p == [q EXCEPT !.unchecked = TRUE]
           IN /\ p \in ReqType /\ p.pc = q.pc /\ p.todo = q.todo /\ p.kind = q.kind /\ p.no = q.no
              /\ p.vm = q.vm /\ p.found = q.found /\ p.cleared = q.cleared /\ p.unchecked
BY DEF ReqType

-----------------------------------------------------------------------------
(* Steps that change one request, or nothing but columns of the row.       *)

SameMachine == row' = row \/ (Exists /\ row' \in RowType /\ row'.id = row.id /\ row'.of = row.of)

OnlyMoves(r) ==
    /\ DOMAIN req' = Requests /\ \A q \in Requests \ {r} : req'[q] = req[q]
    /\ \/ req'[r] = Idle
       \/ /\ req'[r] \in ReqType /\ Place(req'[r])
          /\ req'[r].kind = req[r].kind /\ req'[r].no = req[r].no
          /\ req'[r].vm = req[r].vm /\ req'[r].unchecked = req[r].unchecked
MayBear(r) ==
    BirthReq(r)' /\ ~overlap' =>
        /\ ~BirthUnderWay(r) /\ (req'[r].pc = "enqueue" => ~Exists)
        /\ req'[r].pc = "insert" /\ domain # NoDomain => domain.of = req'[r].found.of
MayKill(r) ==
    Active(r)' /\ Plain(req'[r]) /\ req'[r].pc \in {"probe", "mark", "enqueue"} /\ lost = 0 /\ ~stray =>
        /\ req'[r].cleared
        /\ \A i \in DOMAIN tasks : ~Starts(tasks[i], req'[r].vm)
        /\ req'[r].pc # "probe" => Quiet(req'[r].vm)
Advance(r) ==
    /\ Active(r) /\ OnlyMoves(r) /\ MayBear(r) /\ MayKill(r) /\ SameMachine
    /\ overlap' \in BOOLEAN /\ (overlap => overlap')
    /\ UNCHANGED <<domain, tasks, ops, scan, calls, lost, stray>>

LEMMA SameRow ==
    ASSUME Typed, SameMachine
    PROVE  /\ row' = NoRow \/ row' \in RowType
           /\ Exists' = Exists
           /\ Exists => row'.id = row.id /\ row'.of = row.of
BY RowIsThere DEF SameMachine, Typed, Exists

LEMMA AdvanceKeeps == ASSUME IInv, NEW r \in Requests, Advance(r) PROVE IInv'
<1>1. Typed BY DEF IInv
<1>2. /\ row' = NoRow \/ row' \in RowType
      /\ Exists' = Exists
      /\ Exists => row'.id = row.id /\ row'.of = row.of
  BY <1>1, SameRow DEF Advance
<1>3. \A q \in Requests : (Active(q))' =>
        /\ Active(q)
        /\ req'[q].kind = req[q].kind /\ req'[q].no = req[q].no
        /\ req'[q].vm = req[q].vm /\ req'[q].unchecked = req[q].unchecked
  BY DEF Advance, OnlyMoves, Active
<1>4. Typed'
  BY <1>1, <1>2 DEF Advance, OnlyMoves, Typed, Busy
<1>5. Numbered'
  BY <1>3 DEF IInv, Numbered, Advance
<1>6. Ordered'
  BY DEF IInv, Ordered, Advance, SameResource
<1>7. Known'
  <2>1. ASSUME NEW v, Born(v) PROVE Born(v)'
    BY <2>1, <1>3 DEF Born, Advance
  <2> QED BY <2>1, <1>2, <1>3 DEF IInv, Known, Advance
<1>8. Births'
  <2> SUFFICES ASSUME ~overlap' PROVE Births' BY DEF Births
  <2>1. ~overlap BY DEF Advance
  <2>2. ASSUME NEW q \in Requests, BirthReq(q)'
        PROVE  ~BirthUnderWay(q)' /\ (req'[q].pc = "enqueue" => ~Exists')
    <3>1. CASE q = r
      <4>1. ~BirthUnderWay(r) /\ (req'[r].pc = "enqueue" => ~Exists) BY <2>2, <3>1 DEF Advance, MayBear
      <4> QED BY <4>1, <3>1, <1>2 DEF BirthUnderWay, Advance, OnlyMoves
    <3>2. CASE q # r
      <4>1. BirthReq(q) BY <2>2, <3>2 DEF BirthReq, Active, Advance, OnlyMoves
      <4>2. ~BirthUnderWay(q) /\ (req[q].pc = "enqueue" => ~Exists) BY <4>1, <2>1 DEF IInv, Births
      <4>3. ~(BirthReq(r))'
        <5> SUFFICES ASSUME BirthReq(r)' PROVE FALSE OBVIOUS
        <5>1. ~BirthUnderWay(r) BY DEF Advance, MayBear
        <5> QED BY <5>1, <4>1, <3>2 DEF BirthUnderWay, BirthReq, Active
      <4>4. ~BirthUnderWay(q)' BY <4>2, <4>3, <1>2 DEF BirthUnderWay, BirthReq, Active, Advance, OnlyMoves
      <4>5. req'[q] = req[q] BY <3>2 DEF Advance, OnlyMoves
      <4> QED BY <4>2, <4>4, <4>5, <1>2
    <3> QED BY <3>1, <3>2
  <2>3. ASSUME NEW q \in Requests, BirthReq(q)', req'[q].pc = "insert", domain' # NoDomain
        PROVE  domain'.of = req'[q].found.of
    <3>1. CASE q = r BY <2>3, <3>1 DEF Advance, MayBear
    <3>2. CASE q # r
      <4>1. BirthReq(q) /\ req'[q] = req[q]
        BY <2>3, <3>2 DEF BirthReq, Active, Advance, OnlyMoves
      <4> QED BY <4>1, <2>1, <2>3 DEF IInv, Births, Advance
    <3> QED BY <3>1, <3>2
  <2>4. /\ \A i \in DOMAIN tasks : IsBirth(tasks[i]) => ~Exists
        /\ \A o \in ops : IsBirth(o) => ~Exists
        /\ \A i, j \in DOMAIN tasks : IsBirth(tasks[i]) /\ IsBirth(tasks[j]) => i = j
        /\ \A o, p \in ops : IsBirth(o) /\ IsBirth(p) => o.no = p.no
        /\ \A i \in DOMAIN tasks, o \in ops : IsBirth(tasks[i]) /\ IsBirth(o) => tasks[i].no = o.no
        /\ domain # NoDomain =>
            /\ Exists => row.of = domain.of
            /\ \A i \in DOMAIN tasks :
                IsBirth(tasks[i]) /\ tasks[i].st = "answered" => domain.of = tasks[i].no
    BY <2>1 DEF IInv, Births
  <2>5. UNCHANGED <<tasks, ops, domain>> BY DEF Advance
  <2> QED BY <1>2, <2>2, <2>3, <2>4, <2>5 DEF Births
<1>9. Undisturbed'
  <2> SUFFICES ASSUME lost' = 0, ~stray' PROVE Undisturbed' BY DEF Undisturbed
  <2>1. lost = 0 /\ ~stray /\ UNCHANGED <<tasks, domain>> BY DEF Advance
  <2>2. \A v : (Quiet(v))' = Quiet(v) BY <1>2, <2>1 DEF Quiet
  <2>3. ASSUME NEW q \in Requests, Active(q)', Plain(req[q])', req'[q].pc \in {"probe", "mark", "enqueue"}
        PROVE  /\ req'[q].cleared
               /\ \A i \in DOMAIN tasks : ~Starts(tasks[i], req'[q].vm)
               /\ req'[q].pc # "probe" => Quiet(req'[q].vm)
    <3>1. CASE q = r
      <4>1. MayKill(r) BY DEF Advance
      <4> QED BY <4>1, <3>1, <2>1, <2>3 DEF MayKill, Plain
    <3>2. CASE q # r
      <4>1. req'[q] = req[q] BY <3>2 DEF Advance, OnlyMoves
      <4>2. Active(q) /\ Plain(req[q]) BY <4>1, <2>3 DEF Active, Plain
      <4> QED BY <4>1, <4>2, <2>1, <2>3 DEF IInv, Undisturbed
    <3> QED BY <3>1, <3>2
  <2>4. \A i \in DOMAIN tasks :
            Plain(tasks[i]) /\ tasks[i].st # "answered" =>
                /\ \A j \in DOMAIN tasks : Starts(tasks[j], tasks[i].vm) => i < j
                /\ Quiet(tasks[i].vm)
    BY <2>1 DEF IInv, Undisturbed
  <2> QED BY <2>1, <2>2, <2>3, <2>4 DEF Undisturbed, Plain, Starts
<1> QED BY <1>4, <1>5, <1>6, <1>7, <1>8, <1>9 DEF IInv

LEMMA ColumnsKeep ==
    ASSUME IInv, SameMachine, scan' \in DomainType,
           UNCHANGED <<domain, tasks, ops, req, calls, lost, overlap, stray>>
    PROVE  IInv'
<1>1. Typed BY DEF IInv
<1>2. /\ row' = NoRow \/ row' \in RowType
      /\ Exists' = Exists
      /\ Exists => row'.id = row.id /\ row'.of = row.of
  BY <1>1, SameRow
<1>3. Typed' BY <1>1, <1>2 DEF Typed, Busy
<1>4. Numbered' BY DEF IInv, Numbered, Active
<1>5. Ordered' BY DEF IInv, Ordered, SameResource
<1>6. Known'
  <2>1. \A v : Born(v)' = Born(v) BY DEF Born, Active
  <2> QED BY <2>1, <1>2 DEF IInv, Known, Active
<1>7. Births'
  <2>1. \A r \in Requests : BirthReq(r)' = BirthReq(r) /\ BirthUnderWay(r)' = BirthUnderWay(r)
    BY DEF BirthReq, BirthUnderWay, Active
  <2> QED BY <2>1, <1>2 DEF IInv, Births
<1>8. Undisturbed'
  <2>1. \A v : Quiet(v)' = Quiet(v) BY <1>2 DEF Quiet
  <2> QED BY <2>1 DEF IInv, Undisturbed, Active, Plain, Starts
<1> QED BY <1>3, <1>4, <1>5, <1>6, <1>7, <1>8 DEF IInv

-----------------------------------------------------------------------------
(* The steps of a request between its arrival and its end.                 *)

LEMMA Moved ==
    ASSUME Typed, NEW r \in Requests, NEW p, req' = [req EXCEPT ![r] = p],
           \/ p = Idle
           \/ /\ p \in ReqType /\ Place(p) /\ p.kind = req[r].kind /\ p.no = req[r].no
              /\ p.vm = req[r].vm /\ p.unchecked = req[r].unchecked
    PROVE  OnlyMoves(r) /\ req'[r] = p
<1>1. DOMAIN req = Requests BY DEF Typed
<1>2. DOMAIN req' = Requests /\ req'[r] = p /\ \A q \in Requests \ {r} : req'[q] = req[q] BY <1>1
<1> QED BY <1>2 DEF OnlyMoves

\* A request that is done or refused bears and kills nothing.
LEMMA Ended ==
    ASSUME NEW r \in Requests, req'[r] = Idle
    PROVE  MayBear(r) /\ MayKill(r)
BY DEF MayBear, MayKill, BirthReq, Active

LEMMA Onward ==
    ASSUME Typed, NEW r \in Requests, Active(r), NEW ok, OnwardIf(r, ok)
    PROVE  /\ OnlyMoves(r)
           /\ req'[r] = Idle \/ (ok /\ Onto(req[r], req'[r]))
<1>1. Busy(r) BY Working
<1>2. Onto(req[r], Advanced(req[r])) BY <1>1, NextPlace DEF Busy
<1> DEFINE p == IF ok THEN Advanced(req[r]) ELSE Idle
<1>3. req' = [req EXCEPT ![r] = p] BY DEF OnwardIf
<1>4. p = Idle \/ (ok /\ Onto(req[r], p)) BY <1>2
<1> HIDE DEF p
<1>5. OnlyMoves(r) /\ req'[r] = p BY <1>3, <1>4, Moved DEF Onto
<1> QED BY <1>4, <1>5

\* Only two steps lead into a birth, only two into a deletion.
LEMMA Leads ==
    ASSUME Typed, NEW r \in Requests, req'[r] = Idle \/ Onto(req[r], req'[r])
    PROVE  /\ req[r].pc \notin {"name", "scan"} => MayBear(r)
           /\ req[r].kind \notin {"delete", "keep"} => MayKill(r)
           /\ req[r].pc = "lock" => MayKill(r)
<1>1. CASE req'[r] = Idle BY <1>1, Ended
<1>2. CASE Onto(req[r], req'[r]) /\ req'[r] # Idle
  BY <1>2 DEF Onto, MayBear, MayKill, BirthReq, Plain
<1> QED BY <1>1, <1>2

LEMMA NameAdvances == ASSUME IInv, NEW r \in Requests, CheckName(r) PROVE Advance(r)
<1>1. Typed BY DEF IInv
<1>2. Active(r) /\ Busy(r) BY <1>1, Working DEF CheckName, At, Pcs
<1>3. req[r].kind \in MachineKinds BY <1>2 DEF Busy, Place, CheckName, At
<1>4. OnlyMoves(r) /\ (req'[r] = Idle \/ (~NameTaken /\ Onto(req[r], req'[r])))
  BY <1>1, <1>2, Onward DEF CheckName
<1>5. MayKill(r) BY <1>1, <1>3, <1>4, Leads DEF MachineKinds
<1>6. MayBear(r)
  <2>1. CASE req'[r] = Idle BY <2>1, Ended
  <2>2. CASE ~NameTaken /\ Onto(req[r], req'[r]) /\ req'[r] # Idle
    <3>1. Place(req'[r]) /\ req'[r].kind = req[r].kind BY <2>2 DEF Onto
    <3>2. req'[r].pc # "insert" BY <1>3, <3>1 DEF Place, MachineKinds
    <3> QED BY <3>2, <2>2 DEF MayBear, CheckName, NameTaken
  <2> QED BY <1>4, <2>1, <2>2
<1>7. overlap' \in BOOLEAN /\ (overlap => overlap') BY <1>1 DEF CheckName, Typed
<1> QED BY <1>2, <1>4, <1>5, <1>6, <1>7 DEF Advance, CheckName, SameMachine

LEMMA LockAdvances == ASSUME IInv, NEW r \in Requests, CheckLock(r) PROVE Advance(r)
<1>1. Typed BY DEF IInv
<1>2. Active(r) BY <1>1, Working DEF CheckLock, At, Pcs
<1>3. OnlyMoves(r) /\ (req'[r] = Idle \/ Onto(req[r], req'[r]))
  BY <1>1, <1>2, Onward DEF CheckLock
<1>4. MayBear(r) /\ MayKill(r) BY <1>1, <1>3, Leads DEF CheckLock, At
<1> QED BY <1>1, <1>2, <1>3, <1>4 DEF Advance, CheckLock, SameMachine, Typed

LEMMA ProbeAdvances == ASSUME IInv, NEW r \in Requests, Probe(r) PROVE Advance(r)
<1>1. Typed BY DEF IInv
<1>2. Active(r) /\ Busy(r) BY <1>1, Working DEF Probe, At, Pcs
<1>3. OnlyMoves(r)
      /\ (req'[r] = Idle \/ (domain # NoDomain /\ Allowed(req[r].kind) /\ Onto(req[r], req'[r])))
  BY <1>1, <1>2, Onward DEF Probe
<1>4. MayBear(r) BY <1>1, <1>3, Leads DEF Probe, At
<1>5. MayKill(r)
  <2>1. CASE req'[r] = Idle BY <2>1, Ended
  <2>2. CASE req[r].kind \notin {"delete", "keep"} BY <1>1, <1>3, <2>2, Leads
  <2>3. CASE req'[r] # Idle /\ req[r].kind \in {"delete", "keep"}
    <3>1. Allowed(req[r].kind) /\ Onto(req[r], req'[r]) BY <1>3, <2>3
    <3>2. ~domain.on BY <3>1, <2>3 DEF Allowed
    <3>3. /\ req'[r].vm = req[r].vm /\ req'[r].kind = req[r].kind
          /\ req'[r].cleared = req[r].cleared /\ req'[r].unchecked = req[r].unchecked
      BY <3>1, <2>3 DEF Onto
    <3> SUFFICES ASSUME Plain(req'[r]), lost = 0, ~stray
                 PROVE  /\ req'[r].cleared
                        /\ \A i \in DOMAIN tasks : ~Starts(tasks[i], req'[r].vm)
                        /\ Quiet(req'[r].vm)
      BY DEF MayKill
    <3>4. Plain(req[r]) BY <3>3 DEF Plain
    <3>5. req[r].cleared /\ \A i \in DOMAIN tasks : ~Starts(tasks[i], req[r].vm)
      BY <1>2, <3>4 DEF IInv, Undisturbed, Probe, At
    <3> QED BY <3>2, <3>3, <3>5 DEF Quiet
  <2> QED BY <2>1, <2>2, <2>3
<1> QED BY <1>1, <1>2, <1>3, <1>4, <1>5 DEF Advance, Probe, SameMachine, Typed

LEMMA MarkAdvances == ASSUME IInv, NEW r \in Requests, Mark(r) PROVE Advance(r)
<1>1. Typed BY DEF IInv
<1>2. Active(r) /\ Busy(r) BY <1>1, Working DEF Mark, At, Pcs
<1>3. OnlyMoves(r) /\ (req'[r] = Idle \/ Onto(req[r], req'[r]))
  BY <1>1, <1>2, Onward DEF Mark
<1>4. MayBear(r) BY <1>1, <1>3, Leads DEF Mark, At
<1>5. MayKill(r)
  <2>1. CASE req'[r] = Idle BY <2>1, Ended
  <2>2. CASE req[r].kind \notin {"delete", "keep"} BY <1>1, <1>3, <2>2, Leads
  <2>3. CASE req'[r] # Idle /\ req[r].kind \in {"delete", "keep"}
    <3>1. Onto(req[r], req'[r]) BY <1>3, <2>3
    <3>2. /\ req'[r].vm = req[r].vm /\ req'[r].kind = req[r].kind
          /\ req'[r].cleared = req[r].cleared /\ req'[r].unchecked = req[r].unchecked
      BY <3>1, <2>3 DEF Onto
    <3> SUFFICES ASSUME Plain(req'[r]), lost = 0, ~stray
                 PROVE  /\ req'[r].cleared
                        /\ \A i \in DOMAIN tasks : ~Starts(tasks[i], req'[r].vm)
                        /\ Quiet(req'[r].vm)
      BY DEF MayKill
    <3>3. Plain(req[r]) BY <3>2 DEF Plain
    <3>4. req[r].cleared /\ (\A i \in DOMAIN tasks : ~Starts(tasks[i], req[r].vm)) /\ Quiet(req[r].vm)
      BY <1>2, <3>3 DEF IInv, Undisturbed, Mark, At
    <3> QED BY <3>2, <3>4
  <2> QED BY <2>1, <2>2, <2>3
<1>6. SameMachine
  BY <1>1 DEF Mark, SameMachine, Typed, RowType, Exists
<1> QED BY <1>1, <1>2, <1>3, <1>4, <1>5, <1>6 DEF Advance, Mark, Typed

LEMMA ActiveTodo ==
    ASSUME NEW q \in ReqType, Place(q), q.pc = "active"
    PROVE  Advanced(q) # Idle
<1>1. q.todo \in {<<"probe", "mark", "enqueue">>, <<"mark", "enqueue">>, <<"enqueue">>} BY DEF Place
<1>2. q.todo # <<>> /\ Head(q.todo) \in {"probe", "mark", "enqueue"} BY <1>1
<1>3. Advanced(q) = [q EXCEPT !.pc = Head(q.todo), !.todo = Tail(q.todo)] BY <1>2 DEF Advanced
<1>4. Advanced(q).pc = Head(q.todo) BY <1>3 DEF ReqType
<1> QED BY <1>2, <1>4 DEF Idle

LEMMA ActiveAdvances == ASSUME IInv, NEW r \in Requests, CheckActive(r) PROVE Advance(r)
<1>1. Typed BY DEF IInv
<1>2. Active(r) /\ Busy(r) BY <1>1, Working DEF CheckActive, At, Pcs
<1>3. Onto(req[r], Advanced(req[r])) BY <1>2, NextPlace DEF Busy
<1>4. CASE Refuse(r)
  <2>1. OnlyMoves(r) /\ req'[r] = Idle BY <1>1, <1>4, Moved DEF Refuse
  <2> QED BY <1>1, <1>2, <2>1, Ended DEF Advance, CheckActive, SameMachine, Typed
<1>5. CASE /\ req' = [req EXCEPT ![r] = [Advanced(req[r]) EXCEPT !.cleared = TRUE]]
           /\ \A i \in DOMAIN tasks : ~IsOfMachine(tasks[i], req[r].vm)
  <2> DEFINE a == Advanced(req[r])
             p == [a EXCEPT !.cleared = TRUE]
  <2>1. a # Idle BY <1>2, ActiveTodo DEF CheckActive, At, Busy
  <2>2. /\ a \in ReqType /\ Place(a) /\ a.kind = req[r].kind /\ a.no = req[r].no
        /\ a.vm = req[r].vm /\ a.unchecked = req[r].unchecked
        /\ a.pc \in {"enqueue", "insert"} /\ a.kind \in BirthKinds => req[r].pc \in {"name", "scan"}
        /\ a.kind \in {"delete", "keep"} => a.pc = "probe"
    BY <1>3, <2>1 DEF Onto, CheckActive, At
  <2> HIDE DEF a
  <2>3. /\ p \in ReqType /\ p.pc = a.pc /\ p.todo = a.todo /\ p.kind = a.kind /\ p.no = a.no
        /\ p.vm = a.vm /\ p.unchecked = a.unchecked /\ p.cleared
    BY <2>2 DEF ReqType
  <2> HIDE DEF p
  <2>4. Place(p) BY <2>2, <2>3 DEF Place
  <2>5. OnlyMoves(r) /\ req'[r] = p
    <3>1. req' = [req EXCEPT ![r] = p] BY <1>5 DEF p, a
    <3>2. /\ p \in ReqType /\ Place(p) /\ p.kind = req[r].kind /\ p.no = req[r].no
          /\ p.vm = req[r].vm /\ p.unchecked = req[r].unchecked
      BY <2>2, <2>3, <2>4
    <3> QED BY <1>1, <3>1, <3>2, Moved
  <2>6. MayBear(r) BY <2>2, <2>3, <2>5 DEF MayBear, BirthReq, CheckActive, At
  <2>7. MayKill(r)
    <3>1. \A i \in DOMAIN tasks : ~Starts(tasks[i], req[r].vm)
      BY <1>5 DEF IsOfMachine, Starts, MachineKinds
    <3> QED BY <2>2, <2>3, <2>5, <3>1 DEF MayKill, Plain
  <2> QED BY <1>1, <1>2, <2>5, <2>6, <2>7 DEF Advance, CheckActive, SameMachine, Typed
<1> QED BY <1>4, <1>5 DEF CheckActive

LEMMA RestoreAdvances == ASSUME IInv, NEW r \in Requests, Restore(r) \/ SetLock(r) PROVE Advance(r)
<1>1. Typed BY DEF IInv
<1>2. Active(r) BY <1>1, Working DEF Restore, SetLock, At, Pcs
<1>3. OnlyMoves(r) /\ req'[r] = Idle BY <1>1, Moved DEF Restore, SetLock, Refuse
<1>4. SameMachine BY <1>1 DEF Restore, SetLock, SameMachine, Typed, RowType, Exists
<1> QED BY <1>1, <1>2, <1>3, <1>4, Ended DEF Advance, Restore, SetLock, Typed

LEMMA ScanAdvances == ASSUME IInv, NEW r \in Requests, AdoptScan(r) PROVE Advance(r)
<1>1. Typed BY DEF IInv
<1>2. Active(r) /\ Busy(r) BY <1>1, Working DEF AdoptScan, At, Pcs
<1>3. req[r].kind = "adopt" /\ req[r].todo = <<"insert">> BY <1>2 DEF Busy, Place, AdoptScan, At
<1>4. overlap' \in BOOLEAN /\ (overlap => overlap') BY <1>1 DEF AdoptScan, Typed
<1>5. CASE req' = [req EXCEPT ![r] = Idle]
  <2>1. OnlyMoves(r) /\ req'[r] = Idle BY <1>1, <1>5, Moved
  <2> QED BY <1>1, <1>2, <1>4, <2>1, Ended DEF Advance, AdoptScan, SameMachine
<1>6. CASE /\ domain # NoDomain
           /\ req' = [req EXCEPT ![r] = [Advanced(req[r]) EXCEPT !.found = domain]]
  <2> DEFINE a == Advanced(req[r])
             p == [a EXCEPT !.found = domain]
  <2>1. a = [req[r] EXCEPT !.pc = "insert", !.todo = <<>>]
    <3>1. Head(<<"insert">>) = "insert" /\ Tail(<<"insert">>) = <<>> /\ <<"insert">> # <<>> OBVIOUS
    <3> QED BY <1>3, <3>1 DEF Advanced
  <2>2. domain \in DomainType /\ req[r] \in ReqType BY <1>1, <1>2 DEF Typed, Busy
  <2>3. /\ p \in ReqType /\ p.pc = "insert" /\ p.todo = <<>> /\ p.kind = req[r].kind
        /\ p.no = req[r].no /\ p.vm = req[r].vm /\ p.unchecked = req[r].unchecked /\ p.found = domain
    BY <2>1, <2>2 DEF ReqType, Pcs, Todos
  <2> HIDE DEF p, a
  <2>4. Place(p) BY <1>3, <2>3 DEF Place
  <2>5. OnlyMoves(r) /\ req'[r] = p BY <1>1, <1>6, <2>3, <2>4, Moved DEF p, a
  <2>6. MayBear(r) BY <1>6, <2>3, <2>5 DEF MayBear, AdoptScan
  <2>7. MayKill(r) BY <1>3, <2>3, <2>5 DEF MayKill, Plain
  <2> QED BY <1>1, <1>2, <1>4, <2>5, <2>6, <2>7 DEF Advance, AdoptScan, SameMachine
<1> QED BY <1>5, <1>6 DEF AdoptScan

-----------------------------------------------------------------------------
(* A request arrives.                                                      *)

LEMMA SamePlace ==
    ASSUME NEW p, NEW q, p.pc = q.pc, p.todo = q.todo, p.kind = q.kind, Place(q)
    PROVE  Place(p)
BY DEF Place

LEMMA Arrival ==
    ASSUME IInv, NEW r \in Requests, Arrive(r)
    PROVE  /\ ~Active(r) /\ calls' = calls + 1
           /\ DOMAIN req' = Requests /\ \A q \in Requests \ {r} : req'[q] = req[q]
           /\ Busy(r)' /\ Active(r)' /\ req'[r].no = calls + 1
           /\ IF req'[r].kind \in BirthKinds THEN req'[r].vm = calls + 1
              ELSE Exists /\ req'[r].vm = row.id
           /\ req'[r].pc \notin {"insert", "mark"}
           /\ req'[r].pc = "enqueue" => req'[r].kind \notin BirthKinds
           /\ req'[r].kind \in {"delete", "keep"} => req'[r].pc = "lock" \/ req'[r].unchecked
<1> USE DEF Arrive
<1>1. Typed BY DEF IInv
<1>2. PICK k \in Kinds : \E w \in Ways(k) :
        /\ Load(k)
        /\ req' = [req EXCEPT ![r] =
            [pc |-> Head(w), todo |-> Tail(w), kind |-> k, no |-> calls + 1,
             vm |-> IF k \in BirthKinds THEN calls + 1 ELSE row.id, found |-> NoDomain,
             unchecked |-> w = ScheduleSteps, cleared |-> FALSE,
             locked |-> k \notin BirthKinds /\ row.locked]]
  OBVIOUS
<1>2a. PICK w \in Ways(k) :
        /\ Load(k)
        /\ req' = [req EXCEPT ![r] =
            [pc |-> Head(w), todo |-> Tail(w), kind |-> k, no |-> calls + 1,
             vm |-> IF k \in BirthKinds THEN calls + 1 ELSE row.id, found |-> NoDomain,
             unchecked |-> w = ScheduleSteps, cleared |-> FALSE,
             locked |-> k \notin BirthKinds /\ row.locked]]
  BY <1>2
<1> DEFINE v == IF k \in BirthKinds THEN calls + 1 ELSE row.id
           l == k \notin BirthKinds /\ row.locked
           h == Head(w)
           t == Tail(w)
           u == w = ScheduleSteps
           p == [pc |-> h, todo |-> t, kind |-> k, no |-> calls + 1, vm |-> v,
                 found |-> NoDomain, unchecked |-> u, cleared |-> FALSE, locked |-> l]
           f == [pc |-> h, todo |-> t, kind |-> k]
<1>3. f.pc \in Pcs /\ f.todo \in Todos /\ Place(f) /\ f.pc \notin {"insert", "mark"}
      /\ (f.pc = "enqueue" => k \notin BirthKinds)
      /\ (k \in {"delete", "keep"} => f.pc = "lock" \/ u)
  BY FirstPlace
<1>4. k \notin BirthKinds => Exists /\ row \in RowType BY <1>1, <1>2a DEF Load, Typed, Exists
<1>5. v \in Numbers BY <1>1, <1>4 DEF Typed, RowType, Numbers
<1>6. l \in BOOLEAN BY <1>4 DEF RowType
<1>7. req' = [req EXCEPT ![r] = p] BY <1>2a
<1>8. calls + 1 \in Numbers BY <1>1 DEF Typed, Numbers
<1>8a. u \in BOOLEAN /\ NoDomain \in DomainType BY DEF DomainType, NoDomain, Nobody
<1> HIDE DEF h, t, v, l, u
<1>9. p \in ReqType BY <1>3, <1>5, <1>6, <1>8, <1>8a DEF ReqType
<1>10. Place(p) BY <1>3, SamePlace
<1>11. DOMAIN req = Requests BY <1>1 DEF Typed
<1>12. /\ p.pc = f.pc /\ p.kind = k /\ p.no = calls + 1 /\ p.vm = v /\ p.unchecked = u OBVIOUS
<1> HIDE DEF p, f
<1>13. DOMAIN req' = Requests /\ req'[r] = p /\ \A q \in Requests \ {r} : req'[q] = req[q]
  BY <1>7, <1>11
<1>14. Busy(r)' BY <1>9, <1>10, <1>13 DEF Busy
<1>15. Active(r)' BY <1>9, <1>13 DEF Active, ReqType, Pcs, Idle
<1>16. IF req'[r].kind \in BirthKinds THEN req'[r].vm = calls + 1 ELSE Exists /\ req'[r].vm = row.id
  BY <1>4, <1>12, <1>13 DEF v
<1> QED BY <1>3, <1>12, <1>13, <1>14, <1>15, <1>16 DEF Active

\* What Known asks of the next state, for a machine of this one.
BornNext(v) ==
    /\ v <= calls'
    /\ \A r \in Requests : Active(r)' /\ req'[r].kind \in BirthKinds => req'[r].no # v
    /\ \A i \in DOMAIN tasks' : tasks'[i].kind \in MachineKinds => tasks'[i].no # v
LEMMA KnownNext ==
    ASSUME Exists' => BornNext(row'.id),
           \A r \in Requests : Active(r)' =>
              IF req'[r].kind \in BirthKinds THEN req'[r].vm = req'[r].no ELSE BornNext(req'[r].vm),
           \A i \in DOMAIN tasks' : tasks'[i].kind \notin MachineKinds => BornNext(tasks'[i].vm)
    PROVE  Known'
BY DEF Known, Born, BornNext

LEMMA ArriveKeeps == ASSUME IInv, NEW r \in Requests, Arrive(r) PROVE IInv'
<1> DEFINE old(q) == q # r /\ req'[q] = req[q] /\ Active(q)
<1>1. Typed BY DEF IInv
<1>2. UNCHANGED <<row, domain, tasks, ops, scan, lost, overlap, stray>> BY DEF Arrive
<1>3. /\ calls \in Nat /\ calls' = calls + 1 /\ ~Active(r) /\ req'[r].no = calls + 1
      /\ IF req'[r].kind \in BirthKinds THEN req'[r].vm = calls + 1
         ELSE Exists /\ req'[r].vm = row.id
  BY <1>1, Arrival DEF Typed
<1>4. ASSUME NEW q \in Requests, Active(q)' PROVE q = r \/ old(q)
  BY <1>4, Arrival DEF Active
<1>5. \A q \in Requests : Active(q) => old(q) /\ Active(q)'
  BY <1>3, Arrival DEF Active
<1>6. Typed'
  <2>1. /\ DOMAIN req' = Requests /\ Busy(r)'
        /\ \A q \in Requests \ {r} : req'[q] = req[q]
    BY Arrival
  <2>2. ASSUME NEW q \in Requests PROVE req'[q] = Idle \/ Busy(q)'
    <3>1. CASE q = r BY <2>1, <3>1
    <3>2. CASE q # r BY <1>1, <2>1, <3>2 DEF Typed, Busy
    <3> QED BY <3>1, <3>2
  <2>3. calls' \in Nat BY <1>3
  <2> QED BY <1>1, <1>2, <2>1, <2>2, <2>3 DEF Typed
<1>7. /\ \A q \in Requests : Active(q) => req[q].no \in Nat /\ req[q].vm \in Nat
      /\ \A i \in DOMAIN tasks : tasks[i].no \in Nat /\ tasks[i].vm \in Nat
      /\ \A o \in ops : o.no \in Nat
      /\ Exists => row.id \in Nat
  BY <1>1, Naturals
<1>8. Numbered'
  <2>1. /\ \A q \in Requests : Active(q) => req[q].no <= calls
        /\ \A i \in DOMAIN tasks : tasks[i].no <= calls
        /\ \A o \in ops : o.no <= calls
    BY DEF IInv, Numbered
  <2>2. /\ \A q \in Requests : Active(q) => req[q].no <= calls' /\ req[q].no # req'[r].no
        /\ \A i \in DOMAIN tasks : tasks[i].no <= calls' /\ tasks[i].no # req'[r].no
        /\ \A o \in ops : o.no <= calls' /\ o.no # req'[r].no
        /\ req'[r].no <= calls'
    BY <1>3, <1>7, <2>1
  <2>3. \A q \in Requests : Active(q)' => req'[q].no <= calls' BY <1>4, <2>2
  <2>4. \A q, x \in Requests : Active(q)' /\ Active(x)' /\ req'[q].no = req'[x].no => q = x
    BY <1>4, <2>2 DEF IInv, Numbered
  <2>5. \A q \in Requests : Active(q)' =>
            /\ \A i \in DOMAIN tasks : tasks[i].no # req'[q].no
            /\ \A o \in ops : o.no # req'[q].no
    BY <1>4, <2>2 DEF IInv, Numbered
  <2>6. /\ \A i, j \in DOMAIN tasks : tasks[i].no = tasks[j].no => i = j
        /\ \A o, p \in ops : o.no = p.no => o = p
        /\ \A o \in ops, i \in DOMAIN tasks : tasks[i].no = o.no =>
            /\ tasks[i].st = "running"
            /\ tasks[i].kind = o.kind /\ tasks[i].vm = o.vm /\ tasks[i].unchecked = o.unchecked
        /\ lost = 0 => \A o \in ops : \E i \in DOMAIN tasks : tasks[i].no = o.no
    BY DEF IInv, Numbered
  <2> QED BY <1>2, <2>2, <2>3, <2>4, <2>5, <2>6 DEF Numbered
<1>9. Ordered' BY <1>2 DEF IInv, Ordered, SameResource
<1>10. Known'
  <2>1. ASSUME NEW v \in Nat, Born(v) PROVE BornNext(v)
    <3>1. v <= calls' /\ v # req'[r].no BY <1>3, <2>1 DEF Born
    <3>2. \A q \in Requests : Active(q)' /\ req'[q].kind \in BirthKinds => req'[q].no # v
      BY <1>4, <2>1, <3>1 DEF Born
    <3> QED BY <1>2, <2>1, <3>1, <3>2 DEF Born, BornNext
  <2>2. Exists => BornNext(row.id) BY <1>7, <2>1 DEF IInv, Known
  <2>3. ASSUME NEW q \in Requests, Active(q)'
        PROVE  IF req'[q].kind \in BirthKinds THEN req'[q].vm = req'[q].no ELSE BornNext(req'[q].vm)
    <3>1. CASE q = r
      <4>1. CASE req'[q].kind \in BirthKinds BY <1>3, <3>1, <4>1
      <4>2. CASE req'[q].kind \notin BirthKinds BY <1>2, <1>3, <2>2, <3>1, <4>2
      <4> QED BY <4>1, <4>2
    <3>2. CASE old(q)
      <4>1. CASE req[q].kind \in BirthKinds BY <3>2, <4>1 DEF IInv, Known
      <4>2. CASE req[q].kind \notin BirthKinds
        <5>1. Born(req[q].vm) BY <3>2, <4>2 DEF IInv, Known
        <5> QED BY <1>7, <2>1, <3>2, <4>2, <5>1
      <4> QED BY <4>1, <4>2
    <3> QED BY <1>4, <2>3, <3>1, <3>2
  <2>4. \A i \in DOMAIN tasks : tasks[i].kind \notin MachineKinds => BornNext(tasks[i].vm)
    BY <1>7, <2>1 DEF IInv, Known
  <2> QED BY <1>2, <2>2, <2>3, <2>4, KnownNext DEF Exists
<1>11. Births'
  <2>1. ~BirthReq(r)' BY Arrival DEF BirthReq
  <2>2. \A q \in Requests : BirthReq(q)' => BirthReq(q) /\ req'[q] = req[q]
    BY <1>4, <2>1 DEF BirthReq
  <2>3. \A q \in Requests : BirthUnderWay(q)' => BirthUnderWay(q)
    BY <1>2, <2>2 DEF BirthUnderWay, BirthReq, Active
  <2> QED BY <1>2, <2>2, <2>3 DEF IInv, Births, Exists
<1>12. Undisturbed'
  <2>1. ASSUME NEW q \in Requests, Active(q)', Plain(req[q])', req'[q].pc \in {"probe", "mark", "enqueue"}
        PROVE  old(q) /\ Plain(req[q])
    BY <1>4, <2>1, Arrival DEF Plain
  <2> QED BY <1>2, <2>1 DEF IInv, Undisturbed, Plain, Starts, Quiet, Exists
<1> QED BY <1>6, <1>8, <1>9, <1>10, <1>11, <1>12 DEF IInv

-----------------------------------------------------------------------------
(* A request enqueues its task.                                            *)

\* What an enqueue does: the request leaves, its task comes last.
Leaves(r) ==
    /\ DOMAIN req' = Requests /\ req'[r] = Idle
    /\ \A q \in Requests \ {r} :
        /\ Active(q)' => Active(q)
        /\ Active(q) =>
            /\ req'[q] \in ReqType
            /\ req'[q].pc = req[q].pc /\ req'[q].todo = req[q].todo /\ req'[q].kind = req[q].kind
            /\ req'[q].no = req[q].no /\ req'[q].vm = req[q].vm /\ req'[q].found = req[q].found
            /\ req'[q].cleared = req[q].cleared
            /\ req[q].unchecked \/ (req[r].kind = "start" /\ req[q].cleared) => req'[q].unchecked
        /\ ~Active(q) => req'[q] = Idle
Grows(t) ==
    /\ DOMAIN tasks = 1 .. Len(tasks) /\ Len(tasks) \in Nat
    /\ \/ UNCHANGED tasks
       \/ /\ DOMAIN tasks' = 1 .. Len(tasks) + 1
          /\ \A i \in 1 .. Len(tasks) : tasks'[i] = tasks[i]
          /\ tasks'[Len(tasks) + 1] = t

LEMMA EnqueueDoes ==
    ASSUME Typed, NEW r \in Requests, Enqueue(r)
    PROVE  /\ Active(r) /\ Busy(r) /\ req[r].pc = "enqueue" /\ req[r].kind # "adopt"
           /\ Leaves(r) /\ tasks' \in Seq(TaskType) /\ Grows(TaskOf(req[r]))
           /\ UNCHANGED <<row, domain, disk, ops, scan, calls, lost, overlap, stray>>
<1>1. Active(r) /\ Busy(r) BY Working DEF Enqueue, At, Pcs
<1>2. req[r].kind # "adopt" /\ req[r].pc = "enqueue"
  BY <1>1 DEF Busy, Place, Enqueue, At, MachineKinds, BirthKinds, PowerKinds, DeleteKinds
<1>3. TaskOf(req[r]) \in TaskType BY <1>1 DEF TaskOf, TaskType, Busy, ReqType
<1>4. tasks \in Seq(TaskType) /\ DOMAIN tasks = 1 .. Len(tasks) /\ Len(tasks) \in Nat BY DEF Typed
<1>5. tasks' = tasks \/ tasks' = Append(tasks, TaskOf(req[r])) BY DEF Enqueue
<1>6. tasks' \in Seq(TaskType) /\ Grows(TaskOf(req[r]))
  <2> DEFINE t == TaskOf(req[r])
  <2> HIDE DEF t
  <2>1. CASE tasks' = tasks BY <1>4, <2>1 DEF Grows
  <2>2. CASE tasks' = Append(tasks, t)
    <3>1. /\ Append(tasks, t) \in Seq(TaskType) /\ Len(Append(tasks, t)) = Len(tasks) + 1
          /\ \A i \in 1 .. Len(tasks) : Append(tasks, t)[i] = tasks[i]
          /\ Append(tasks, t)[Len(tasks) + 1] = t
      BY <1>3, <1>4, AppendProperties DEF t
    <3>2. DOMAIN Append(tasks, t) = 1 .. Len(tasks) + 1 BY <1>4, <3>1
    <3> QED BY <1>4, <2>2, <3>1, <3>2 DEF Grows, t
  <2> QED BY <1>5, <2>1, <2>2 DEF t
<1>7. Leaves(r)
  <2>1. req' = [q \in Requests |->
            IF q = r THEN Idle
            ELSE IF req[r].kind = "start" /\ req[q] # Idle /\ req[q].cleared
                 THEN [req[q] EXCEPT !.unchecked = TRUE] ELSE req[q]]
    BY DEF Enqueue
  <2>2. DOMAIN req' = Requests /\ req'[r] = Idle BY <2>1
  <2>3. ASSUME NEW q \in Requests \ {r}, Active(q)
        PROVE  /\ req'[q] \in ReqType
               /\ req'[q].pc = req[q].pc /\ req'[q].todo = req[q].todo /\ req'[q].kind = req[q].kind
               /\ req'[q].no = req[q].no /\ req'[q].vm = req[q].vm /\ req'[q].found = req[q].found
               /\ req'[q].cleared = req[q].cleared
               /\ req[q].unchecked \/ (req[r].kind = "start" /\ req[q].cleared) => req'[q].unchecked
    <3>1. req[q] \in ReqType BY <2>3, Working DEF Busy
    <3>2. CASE req'[q] = req[q] /\ ~(req[r].kind = "start" /\ req[q].cleared) BY <3>1, <3>2
    <3>3. CASE req'[q] = [req[q] EXCEPT !.unchecked = TRUE] BY <3>1, <3>3, Raced
    <3> QED BY <2>1, <2>3, <3>2, <3>3 DEF Active
  <2>4. ASSUME NEW q \in Requests \ {r}, ~Active(q) PROVE req'[q] = Idle
    BY <2>1, <2>4 DEF Active
  <2>5. \A q \in Requests \ {r} : Active(q)' => Active(q) BY <2>4 DEF Active
  <2> QED BY <2>2, <2>3, <2>4, <2>5 DEF Leaves
<1> QED BY <1>1, <1>2, <1>6, <1>7 DEF Enqueue

LEMMA EnqueueKeeps == ASSUME IInv, NEW r \in Requests, Enqueue(r) PROVE IInv'
<1> DEFINE n == Len(tasks)
           t == TaskOf(req[r])
           old(i) == i \in DOMAIN tasks /\ i \in DOMAIN tasks' /\ tasks'[i] = tasks[i]
           new(i) == i = n + 1 /\ i \notin DOMAIN tasks /\ tasks'[i] = t
<1>1. Typed BY DEF IInv
<1>2. /\ Active(r) /\ Busy(r) /\ req[r].pc = "enqueue" /\ req[r].kind # "adopt"
      /\ Leaves(r) /\ tasks' \in Seq(TaskType) /\ Grows(t)
      /\ UNCHANGED <<row, domain, disk, ops, scan, calls, lost, overlap, stray>>
  BY <1>1, EnqueueDoes
<1>3. t.no = req[r].no /\ t.kind = req[r].kind /\ t.vm = req[r].vm /\ t.st = "pending"
      /\ t.unchecked = req[r].unchecked
  BY DEF TaskOf
<1> HIDE DEF t
<1>4. /\ \A i \in DOMAIN tasks : old(i)
      /\ \A i \in DOMAIN tasks' : old(i) \/ new(i)
      /\ \A i, j : new(i) /\ new(j) => i = j
      /\ \A i, j : old(i) /\ new(j) => i < j
      /\ DOMAIN tasks \subseteq Nat
  BY <1>2 DEF Grows
<1> HIDE DEF old, new
<1>5. /\ \A i : old(i) => i \in DOMAIN tasks /\ tasks'[i] = tasks[i]
      /\ \A i : new(i) => tasks'[i] = t
  BY DEF old, new
<1>6. \A q \in Requests : Active(q)' =>
        /\ Active(q) /\ q # r /\ req'[q].pc = req[q].pc
        /\ req'[q].kind = req[q].kind /\ req'[q].no = req[q].no
        /\ req'[q].vm = req[q].vm /\ req'[q].found = req[q].found
        /\ req'[q].cleared = req[q].cleared
        /\ req[q].unchecked \/ (req[r].kind = "start" /\ req[q].cleared) => req'[q].unchecked
  BY <1>2 DEF Leaves, Active
<1>7. Typed'
  <2>1. ASSUME NEW q \in Requests PROVE req'[q] = Idle \/ Busy(q)'
    <3>1. CASE q = r BY <1>2, <3>1 DEF Leaves
    <3>2. CASE q # r /\ ~Active(q) BY <1>2, <3>2 DEF Leaves
    <3>3. CASE q # r /\ Active(q)
      <4>1. /\ req'[q] \in ReqType /\ req'[q].pc = req[q].pc /\ req'[q].todo = req[q].todo
            /\ req'[q].kind = req[q].kind
        BY <1>2, <3>3 DEF Leaves
      <4>2. Place(req[q]) BY <1>1, <3>3, Working DEF Busy
      <4>3. Place(req'[q]) BY <4>1, <4>2 DEF Place
      <4> QED BY <4>1, <4>3 DEF Busy
    <3> QED BY <3>1, <3>2, <3>3
  <2>2. DOMAIN req' = Requests BY <1>2 DEF Leaves
  <2> QED BY <1>1, <1>2, <2>1, <2>2 DEF Typed
<1>8. Numbered'
  <2>1. /\ \A q \in Requests : Active(q) => req[q].no <= calls
        /\ \A i \in DOMAIN tasks : tasks[i].no <= calls
        /\ \A o \in ops : o.no <= calls
        /\ \A x, q \in Requests : Active(x) /\ Active(q) /\ req[x].no = req[q].no => x = q
        /\ \A q \in Requests : Active(q) =>
            /\ \A i \in DOMAIN tasks : tasks[i].no # req[q].no
            /\ \A o \in ops : o.no # req[q].no
        /\ \A i, j \in DOMAIN tasks : tasks[i].no = tasks[j].no => i = j
        /\ \A o, p \in ops : o.no = p.no => o = p
        /\ \A o \in ops, i \in DOMAIN tasks : tasks[i].no = o.no =>
            /\ tasks[i].st = "running"
            /\ tasks[i].kind = o.kind /\ tasks[i].vm = o.vm /\ tasks[i].unchecked = o.unchecked
        /\ lost = 0 => \A o \in ops : \E i \in DOMAIN tasks : tasks[i].no = o.no
    BY DEF IInv, Numbered
  <2>2. t.no <= calls BY <1>2, <1>3, <2>1
  <2>3. \A q \in Requests : Active(q)' => req'[q].no <= calls BY <1>6, <2>1
  <2>4. \A x, q \in Requests : Active(x)' /\ Active(q)' /\ req'[x].no = req'[q].no => x = q
    BY <1>6, <2>1
  <2>5. \A q \in Requests : Active(q)' => req'[q].no # t.no BY <1>2, <1>3, <1>6, <2>1
  <2>6. \A q \in Requests : Active(q)' =>
            /\ \A i \in DOMAIN tasks' : tasks'[i].no # req'[q].no
            /\ \A o \in ops : o.no # req'[q].no
    BY <1>4, <1>5, <1>6, <2>1, <2>5
  <2>7. /\ \A i \in DOMAIN tasks : tasks[i].no # t.no
        /\ \A o \in ops : o.no # t.no
    BY <1>2, <1>3, <2>1
  <2>8. /\ \A i \in DOMAIN tasks' : tasks'[i].no <= calls
        /\ \A i, j \in DOMAIN tasks' : tasks'[i].no = tasks'[j].no => i = j
        /\ \A o \in ops, i \in DOMAIN tasks' : tasks'[i].no = o.no =>
            /\ tasks'[i].st = "running"
            /\ tasks'[i].kind = o.kind /\ tasks'[i].vm = o.vm /\ tasks'[i].unchecked = o.unchecked
    BY <1>4, <1>5, <2>1, <2>2, <2>7
  <2>9. lost = 0 => \A o \in ops : \E i \in DOMAIN tasks' : tasks'[i].no = o.no
    BY <1>4, <2>1 DEF old
  <2> QED BY <1>2, <2>1, <2>3, <2>4, <2>6, <2>8, <2>9 DEF Numbered
<1>9. Ordered'
  <2> SUFFICES ASSUME NEW i \in DOMAIN tasks', NEW j \in DOMAIN tasks',
                      i < j, SameResource(tasks'[j], tasks'[i])
               PROVE  tasks'[j].st = "pending"
    BY DEF Ordered, SameResource, IsOfMachine
  <2>1. CASE new(j) BY <1>3, <1>5, <2>1
  <2>2. CASE old(j) /\ old(i) BY <1>5, <2>2 DEF IInv, Ordered
  <2>3. CASE old(j) /\ new(i)
    <3>1. j < i /\ i \in Nat /\ j \in Nat BY <1>2, <1>4, <1>5, <2>3 DEF Grows, new
    <3> QED BY <3>1
  <2> QED BY <1>4, <2>1, <2>2, <2>3
<1>10. Known'
  <2>1. ASSUME NEW v, Born(v) PROVE BornNext(v)
    <3>1. t.kind \in MachineKinds => t.no # v BY <1>2, <1>3, <2>1 DEF Born, BirthKinds
    <3> QED BY <1>2, <1>4, <1>5, <1>6, <2>1, <3>1 DEF Born, BornNext
  <2>2. Exists' => BornNext(row'.id) BY <1>2, <2>1 DEF IInv, Known, Exists
  <2>3. \A q \in Requests : Active(q)' =>
            IF req'[q].kind \in BirthKinds THEN req'[q].vm = req'[q].no ELSE BornNext(req'[q].vm)
    BY <1>6, <2>1 DEF IInv, Known
  <2>4. t.kind \notin MachineKinds => BornNext(t.vm)
    <3>1. t.kind \notin MachineKinds => t.kind \notin BirthKinds BY <1>2, <1>3 DEF BirthKinds
    <3> QED BY <1>2, <1>3, <2>1, <3>1 DEF IInv, Known
  <2>5. \A i \in DOMAIN tasks' : tasks'[i].kind \notin MachineKinds => BornNext(tasks'[i].vm)
    BY <1>4, <1>5, <2>1, <2>4 DEF IInv, Known
  <2> QED BY <2>2, <2>3, <2>5, KnownNext
<1>11. Births'
  <2> SUFFICES ASSUME ~overlap' PROVE Births' BY DEF Births
  <2>1. /\ \A q \in Requests : BirthReq(q) => ~BirthUnderWay(q) /\ (req[q].pc = "enqueue" => ~Exists)
        /\ \A i \in DOMAIN tasks : IsBirth(tasks[i]) => ~Exists
        /\ \A o \in ops : IsBirth(o) => ~Exists
        /\ \A i, j \in DOMAIN tasks : IsBirth(tasks[i]) /\ IsBirth(tasks[j]) => i = j
        /\ \A o, p \in ops : IsBirth(o) /\ IsBirth(p) => o.no = p.no
        /\ \A i \in DOMAIN tasks, o \in ops : IsBirth(tasks[i]) /\ IsBirth(o) => tasks[i].no = o.no
        /\ domain # NoDomain =>
            /\ Exists => row.of = domain.of
            /\ \A q \in Requests : BirthReq(q) /\ req[q].pc = "insert" => domain.of = req[q].found.of
            /\ \A i \in DOMAIN tasks :
                IsBirth(tasks[i]) /\ tasks[i].st = "answered" => domain.of = tasks[i].no
    BY <1>2 DEF IInv, Births
  <2>2. IsBirth(t) => /\ BirthReq(r)
                      /\ ~Exists
                      /\ \A i \in DOMAIN tasks : ~IsBirth(tasks[i])
                      /\ \A o \in ops : ~IsBirth(o)
                      /\ \A q \in Requests \ {r} : ~BirthReq(q)
    <3> SUFFICES ASSUME IsBirth(t) PROVE BirthReq(r) /\ ~BirthUnderWay(r) /\ ~Exists
      BY DEF BirthUnderWay, IsBirth, BirthReq, Active
    <3>1. BirthReq(r) BY <1>2, <1>3 DEF IsBirth, BirthReq, BirthKinds
    <3> QED BY <1>2, <2>1, <3>1
  <2>3. \A q \in Requests : BirthReq(q)' => BirthReq(q) /\ q # r BY <1>6 DEF BirthReq
  <2>4. \A q \in Requests : BirthReq(q)' => ~IsBirth(t) BY <2>2, <2>3
  <2>5. \A q \in Requests : BirthReq(q)' => ~(BirthUnderWay(q)') /\ (req'[q].pc = "enqueue" => ~Exists')
    <3> SUFFICES ASSUME NEW q \in Requests, BirthReq(q)', BirthUnderWay(q)' PROVE FALSE
      BY <1>2, <1>6, <2>1, <2>3 DEF Exists, BirthReq
    <3>1. ~BirthUnderWay(q) /\ ~IsBirth(t) BY <2>1, <2>3, <2>4
    <3>2. \A o \in Requests \ {q} : ~BirthReq(o) BY <3>1 DEF BirthUnderWay, BirthReq, Active
    <3>3. \A o \in Requests \ {q} : ~(BirthReq(o)') BY <2>3, <3>2
    <3>4. \A i \in DOMAIN tasks' : ~IsBirth(tasks'[i])
      BY <1>4, <1>5, <3>1 DEF BirthUnderWay, IsBirth
    <3> QED BY <1>2, <3>1, <3>3, <3>4 DEF BirthUnderWay, BirthReq, IsBirth, Active
  <2>6. /\ \A i \in DOMAIN tasks' : IsBirth(tasks'[i]) => ~Exists
        /\ \A i, j \in DOMAIN tasks' : IsBirth(tasks'[i]) /\ IsBirth(tasks'[j]) => i = j
        /\ \A i \in DOMAIN tasks', o \in ops : IsBirth(tasks'[i]) /\ IsBirth(o) => tasks'[i].no = o.no
    BY <1>4, <1>5, <2>1, <2>2
  <2>7. domain # NoDomain => \A i \in DOMAIN tasks' :
            IsBirth(tasks'[i]) /\ tasks'[i].st = "answered" => domain.of = tasks'[i].no
    BY <1>3, <1>4, <1>5, <2>1
  <2>8. domain # NoDomain =>
            \A q \in Requests : BirthReq(q)' /\ req'[q].pc = "insert" => domain.of = req'[q].found.of
    BY <1>6, <2>1, <2>3 DEF BirthReq
  <2> QED BY <1>2, <2>1, <2>5, <2>6, <2>7, <2>8 DEF Births, Exists
<1>12. Undisturbed'
  <2> SUFFICES ASSUME lost' = 0, ~stray' PROVE Undisturbed' BY DEF Undisturbed
  <2>1. lost = 0 /\ ~stray BY <1>2
  <2>2. \A v : Quiet(v)' = Quiet(v) BY <1>2 DEF Quiet, Exists
  <2>3. ASSUME NEW q \in Requests, Active(q)', Plain(req[q])', req'[q].pc \in {"probe", "mark", "enqueue"}
        PROVE  /\ req'[q].cleared
               /\ \A i \in DOMAIN tasks' : ~Starts(tasks'[i], req'[q].vm)
               /\ req'[q].pc # "probe" => Quiet(req'[q].vm)
    <3>1. /\ Active(q) /\ req'[q].pc = req[q].pc /\ req'[q].kind = req[q].kind
          /\ req'[q].vm = req[q].vm /\ req'[q].cleared = req[q].cleared
          /\ req[q].unchecked \/ (req[r].kind = "start" /\ req[q].cleared) => req'[q].unchecked
      BY <1>6, <2>3
    <3>2. Plain(req[q]) /\ ~(req[r].kind = "start" /\ req[q].cleared) BY <2>3, <3>1 DEF Plain
    <3>3. /\ req[q].cleared
          /\ \A i \in DOMAIN tasks : ~Starts(tasks[i], req[q].vm)
          /\ req[q].pc # "probe" => Quiet(req[q].vm)
      BY <2>1, <2>3, <3>1, <3>2 DEF IInv, Undisturbed
    <3>4. ~Starts(t, req[q].vm) BY <1>3, <3>2, <3>3 DEF Starts
    <3> QED BY <1>4, <1>5, <3>1, <3>3, <3>4
  <2>4. ASSUME NEW i \in DOMAIN tasks', Plain(tasks'[i]), tasks'[i].st # "answered"
        PROVE  /\ \A j \in DOMAIN tasks' : Starts(tasks'[j], tasks'[i].vm) => i < j
               /\ Quiet(tasks'[i].vm)
    <3>1. CASE old(i)
      <4>1. /\ \A j \in DOMAIN tasks : Starts(tasks[j], tasks[i].vm) => i < j
            /\ Quiet(tasks[i].vm)
        BY <1>5, <2>1, <2>4, <3>1 DEF IInv, Undisturbed
      <4> QED BY <1>4, <1>5, <3>1, <4>1
    <3>2. CASE new(i)
      <4>1. tasks'[i] = t BY <1>5, <3>2
      <4>2. Plain(req[r]) BY <1>3, <2>4, <4>1 DEF Plain
      <4>3. /\ \A j \in DOMAIN tasks : ~Starts(tasks[j], t.vm)
            /\ Quiet(t.vm)
        BY <1>2, <1>3, <2>1, <4>2 DEF IInv, Undisturbed
      <4>4. ~Starts(t, t.vm) BY <2>4, <4>1 DEF Starts, Plain
      <4> QED BY <1>4, <1>5, <4>1, <4>3, <4>4
    <3> QED BY <1>4, <3>1, <3>2
  <2> QED BY <2>2, <2>3, <2>4 DEF Undisturbed, Plain, Starts
<1> QED BY <1>7, <1>8, <1>9, <1>10, <1>11, <1>12 DEF IInv

-----------------------------------------------------------------------------
(* A domain is adopted.                                                    *)

LEMMA InsertIsRow ==
    ASSUME Typed, NEW id \in Numbers, NEW of \in Nat, NEW s \in {"unknown", "running", "stopped"},
           InsertRow(id, of, s)
    PROVE  /\ row' \in RowType
           /\ Exists => row' = row
           /\ ~Exists => row'.id = id /\ row'.of = of
BY DEF InsertRow, NewRow, RowType, Typed, Exists

LEMMA AdoptKeeps == ASSUME IInv, NEW r \in Requests, AdoptInsert(r) PROVE IInv'
<1>1. Typed BY DEF IInv
<1>2. UNCHANGED <<domain, disk, tasks, ops, scan, calls, lost, overlap, stray>> BY DEF AdoptInsert
<1>3. Active(r) /\ Busy(r) /\ req[r].pc = "insert" BY <1>1, Working DEF AdoptInsert, At, Pcs
<1>4. req[r].kind = "adopt" BY <1>3 DEF Busy, Place
<1>5. /\ row' \in RowType
      /\ Exists => row' = row
      /\ ~Exists => row'.id = req[r].vm /\ row'.of = req[r].found.of
  <2>1. StatusOf(req[r].found) \in {"unknown", "running", "stopped"} BY DEF StatusOf
  <2>2. req[r].vm \in Numbers /\ req[r].found.of \in Nat BY <1>3 DEF Busy, ReqType, DomainType
  <2> QED BY <1>1, <2>1, <2>2, InsertIsRow DEF AdoptInsert
<1>6. Exists' BY <1>5, RowIsThere DEF Exists
<1>7. DOMAIN req' = Requests /\ req'[r] = Idle /\ \A q \in Requests \ {r} : req'[q] = req[q]
  BY <1>1 DEF AdoptInsert, Refuse, Typed
<1>8. \A q \in Requests : Active(q)' => Active(q) /\ q # r /\ req'[q] = req[q]
  BY <1>7 DEF Active
<1>9. Typed'
  <2>1. \A q \in Requests : req'[q] = Idle \/ Busy(q)' BY <1>1, <1>7 DEF Typed, Busy
  <2> QED BY <1>1, <1>2, <1>5, <1>7, <2>1 DEF Typed
<1>10. Numbered' BY <1>2, <1>8 DEF IInv, Numbered
<1>11. Ordered' BY <1>2 DEF IInv, Ordered, SameResource
<1>12. Known'
  <2>1. ASSUME NEW v, Born(v) PROVE BornNext(v) BY <1>2, <1>8, <2>1 DEF Born, BornNext
  <2>2. req[r].vm = req[r].no BY <1>3, <1>4 DEF IInv, Known, BirthKinds
  <2>3. BornNext(req[r].no) BY <1>2, <1>3, <1>8 DEF IInv, Numbered, BornNext
  <2>4. BornNext(row'.id)
    <3>1. CASE Exists BY <1>5, <2>1, <3>1 DEF IInv, Known
    <3>2. CASE ~Exists BY <1>5, <2>2, <2>3, <3>2
    <3> QED BY <3>1, <3>2
  <2>5. \A q \in Requests : Active(q)' =>
            IF req'[q].kind \in BirthKinds THEN req'[q].vm = req'[q].no ELSE BornNext(req'[q].vm)
    BY <1>8, <2>1 DEF IInv, Known
  <2>6. \A i \in DOMAIN tasks' : tasks'[i].kind \notin MachineKinds => BornNext(tasks'[i].vm)
    BY <1>2, <2>1 DEF IInv, Known
  <2> QED BY <2>4, <2>5, <2>6, KnownNext
<1>13. Births'
  <2> SUFFICES ASSUME ~overlap' PROVE Births' BY DEF Births
  <2>1. BirthReq(r) BY <1>3, <1>4 DEF BirthReq, BirthKinds
  <2>2. ~overlap BY <1>2
  <2>3. ~BirthUnderWay(r) BY <2>1, <2>2 DEF IInv, Births
  <2>4. /\ \A q \in Requests : ~(BirthReq(q)')
        /\ \A i \in DOMAIN tasks' : ~IsBirth(tasks'[i])
        /\ \A o \in ops' : ~IsBirth(o)
    BY <1>2, <1>8, <2>3 DEF BirthUnderWay, BirthReq, IsBirth, Active
  <2>5. domain' # NoDomain => row'.of = domain'.of
    BY <1>2, <1>3, <1>5, <2>1, <2>2, <2>3 DEF IInv, Births
  <2> QED BY <2>4, <2>5 DEF Births
<1>14. Undisturbed'
  <2> SUFFICES ASSUME lost' = 0, ~stray' PROVE Undisturbed' BY DEF Undisturbed
  <2>1. lost = 0 /\ ~stray BY <1>2
  <2>2. ASSUME NEW v, Born(v), Quiet(v) PROVE Quiet(v)'
    <3>1. req[r].vm # v BY <1>3, <1>4, <2>2 DEF IInv, Known, Born, BirthKinds
    <3> QED BY <1>2, <1>5, <2>2, <3>1 DEF Quiet
  <2> DEFINE quiet(v) == Exists' /\ row'.id = v => ~domain'.on
  <2>3. \A v : Born(v) /\ Quiet(v) => quiet(v) BY <2>2 DEF Quiet
  <2>4. ASSUME NEW q \in Requests, Active(q)', Plain(req[q])', req'[q].pc \in {"probe", "mark", "enqueue"}
        PROVE  /\ req'[q].cleared
               /\ \A i \in DOMAIN tasks' : ~Starts(tasks'[i], req'[q].vm)
               /\ req'[q].pc # "probe" => quiet(req'[q].vm)
    <3>1. Active(q) /\ req'[q] = req[q] /\ Plain(req[q]) BY <1>8, <2>4 DEF Plain
    <3>2. Born(req[q].vm) BY <3>1 DEF IInv, Known, Plain, BirthKinds, MachineKinds
    <3> HIDE DEF quiet
    <3> QED BY <1>2, <2>1, <2>3, <2>4, <3>1, <3>2 DEF IInv, Undisturbed
  <2>5. ASSUME NEW i \in DOMAIN tasks', Plain(tasks'[i]), tasks'[i].st # "answered"
        PROVE  /\ \A j \in DOMAIN tasks' : Starts(tasks'[j], tasks'[i].vm) => i < j
               /\ quiet(tasks'[i].vm)
    <3>1. Born(tasks[i].vm) BY <1>2, <2>5 DEF IInv, Known, Plain, MachineKinds
    <3> HIDE DEF quiet
    <3> QED BY <1>2, <2>1, <2>3, <2>5, <3>1 DEF IInv, Undisturbed
  <2> QED BY <2>4, <2>5 DEF Undisturbed, Plain, Starts, Quiet
<1> QED BY <1>9, <1>10, <1>11, <1>12, <1>13, <1>14 DEF IInv

-----------------------------------------------------------------------------
(* A task begins.                                                          *)

LEMMA DispatchKeeps == ASSUME IInv, NEW i \in DOMAIN tasks, Dispatch(i) PROVE IInv'
<1>1. Typed BY DEF IInv
<1>2. UNCHANGED <<row, domain, disk, req, scan, calls, lost, overlap, stray>> BY DEF Dispatch
<1>3. tasks[i] \in TaskType /\ DOMAIN tasks \subseteq Nat BY <1>1 DEF Typed
<1>4. /\ tasks' \in Seq(TaskType) /\ DOMAIN tasks' = DOMAIN tasks
      /\ \A j \in DOMAIN tasks \ {i} : tasks'[j] = tasks[j]
      /\ tasks'[i] = [tasks[i] EXCEPT !.st = "running"]
  BY <1>1, Changed DEF Dispatch
<1>5. /\ tasks'[i].no = tasks[i].no /\ tasks'[i].kind = tasks[i].kind /\ tasks'[i].vm = tasks[i].vm
      /\ tasks'[i].unchecked = tasks[i].unchecked /\ tasks'[i].st = "running"
  BY <1>3, <1>4 DEF TaskType
<1>6. \A j \in DOMAIN tasks :
        /\ tasks'[j].no = tasks[j].no /\ tasks'[j].kind = tasks[j].kind /\ tasks'[j].vm = tasks[j].vm
        /\ tasks'[j].unchecked = tasks[j].unchecked
        /\ tasks'[j].st = "answered" <=> tasks[j].st = "answered"
  BY <1>4, <1>5 DEF Dispatch
<1>7. ops' = ops \cup {tasks[i]} /\ tasks[i].st = "pending" BY DEF Dispatch
<1>8. Typed' BY <1>1, <1>2, <1>3, <1>4, <1>7 DEF Typed, Busy
<1>9. Numbered'
  <2>1. /\ \A q \in Requests : Active(q) => req[q].no <= calls
        /\ \A j \in DOMAIN tasks : tasks[j].no <= calls
        /\ \A o \in ops : o.no <= calls
        /\ \A x, q \in Requests : Active(x) /\ Active(q) /\ req[x].no = req[q].no => x = q
        /\ \A q \in Requests : Active(q) =>
            /\ \A j \in DOMAIN tasks : tasks[j].no # req[q].no
            /\ \A o \in ops : o.no # req[q].no
        /\ \A k, j \in DOMAIN tasks : tasks[k].no = tasks[j].no => k = j
        /\ \A o, p \in ops : o.no = p.no => o = p
        /\ \A o \in ops, j \in DOMAIN tasks : tasks[j].no = o.no =>
            /\ tasks[j].st = "running"
            /\ tasks[j].kind = o.kind /\ tasks[j].vm = o.vm /\ tasks[j].unchecked = o.unchecked
        /\ lost = 0 => \A o \in ops : \E j \in DOMAIN tasks : tasks[j].no = o.no
    BY DEF IInv, Numbered
  <2>2. \A o \in ops : o.no # tasks[i].no BY <1>7, <2>1
  <2>3. \A o, p \in ops' : o.no = p.no => o = p BY <1>7, <2>1, <2>2
  <2>4. \A o \in ops', j \in DOMAIN tasks' : tasks'[j].no = o.no =>
            /\ tasks'[j].st = "running"
            /\ tasks'[j].kind = o.kind /\ tasks'[j].vm = o.vm /\ tasks'[j].unchecked = o.unchecked
    <3> SUFFICES ASSUME NEW o \in ops', NEW j \in DOMAIN tasks, tasks'[j].no = o.no
                 PROVE  /\ tasks'[j].st = "running"
                        /\ tasks'[j].kind = o.kind /\ tasks'[j].vm = o.vm /\ tasks'[j].unchecked = o.unchecked
      BY <1>4
    <3>1. CASE o = tasks[i]
      <4>1. j = i BY <1>6, <2>1, <3>1
      <4> QED BY <1>5, <3>1, <4>1
    <3>2. CASE o \in ops
      <4>1. tasks[j].no = o.no /\ j # i BY <1>6, <2>2, <3>2
      <4> QED BY <1>4, <2>1, <3>2, <4>1
    <3> QED BY <1>7, <3>1, <3>2
  <2>5. lost = 0 => \A o \in ops' : \E j \in DOMAIN tasks' : tasks'[j].no = o.no
    BY <1>4, <1>6, <1>7, <2>1
  <2>6. \A k, j \in DOMAIN tasks' : tasks'[k].no = tasks'[j].no => k = j BY <1>4, <1>6, <2>1
  <2>7. /\ \A j \in DOMAIN tasks' : tasks'[j].no <= calls
        /\ \A o \in ops' : o.no <= calls
    BY <1>4, <1>6, <1>7, <2>1
  <2>8. \A q \in Requests : Active(q) =>
            /\ \A j \in DOMAIN tasks' : tasks'[j].no # req[q].no
            /\ \A o \in ops' : o.no # req[q].no
    BY <1>4, <1>6, <1>7, <2>1
  <2> QED BY <1>2, <2>1, <2>3, <2>4, <2>5, <2>6, <2>7, <2>8 DEF Numbered, Active
<1>10. Ordered'
  <2> SUFFICES ASSUME NEW k \in DOMAIN tasks, NEW j \in DOMAIN tasks,
                      k < j, SameResource(tasks'[j], tasks'[k])
               PROVE  tasks'[j].st = "pending"
    BY <1>4 DEF Ordered, SameResource, IsOfMachine
  <2>1. SameResource(tasks[j], tasks[k]) BY <1>6 DEF SameResource, IsOfMachine
  <2>2. j # i
    <3>1. j = i => k \in 1 .. i - 1 BY <1>1 DEF Typed
    <3> QED BY <2>1, <3>1 DEF Dispatch
  <2> QED BY <1>4, <2>1, <2>2 DEF IInv, Ordered
<1>11. Known'
  <2>1. ASSUME NEW v, Born(v) PROVE BornNext(v)
    BY <1>2, <1>4, <1>6, <2>1 DEF Born, BornNext, Active
  <2>2. Exists' => BornNext(row'.id) BY <1>2, <2>1 DEF IInv, Known, Exists
  <2>3. \A q \in Requests : Active(q)' =>
            IF req'[q].kind \in BirthKinds THEN req'[q].vm = req'[q].no ELSE BornNext(req'[q].vm)
    <3>1. \A q \in Requests : Active(q) =>
              IF req[q].kind \in BirthKinds THEN req[q].vm = req[q].no ELSE Born(req[q].vm)
      BY DEF IInv, Known
    <3>2. req' = req /\ \A q \in Requests : Active(q)' <=> Active(q) BY <1>2 DEF Active
    <3> SUFFICES ASSUME NEW q \in Requests, Active(q)
                 PROVE  IF req[q].kind \in BirthKinds THEN req[q].vm = req[q].no ELSE BornNext(req[q].vm)
      BY <3>2
    <3>3. CASE req[q].kind \in BirthKinds BY <3>1, <3>3
    <3>4. CASE req[q].kind \notin BirthKinds
      <4>1. Born(req[q].vm) BY <3>1, <3>4
      <4> QED BY <2>1, <3>4, <4>1
    <3> QED BY <3>3, <3>4
  <2>4. \A j \in DOMAIN tasks' : tasks'[j].kind \notin MachineKinds => BornNext(tasks'[j].vm)
    BY <1>4, <1>6, <2>1 DEF IInv, Known
  <2> QED BY <2>2, <2>3, <2>4, KnownNext
<1>12. Births'
  <2> SUFFICES ASSUME ~overlap' PROVE Births' BY DEF Births
  <2>1. /\ \A q \in Requests : BirthReq(q) => ~BirthUnderWay(q) /\ (req[q].pc = "enqueue" => ~Exists)
        /\ \A j \in DOMAIN tasks : IsBirth(tasks[j]) => ~Exists
        /\ \A o \in ops : IsBirth(o) => ~Exists
        /\ \A k, j \in DOMAIN tasks : IsBirth(tasks[k]) /\ IsBirth(tasks[j]) => k = j
        /\ \A o, p \in ops : IsBirth(o) /\ IsBirth(p) => o.no = p.no
        /\ \A j \in DOMAIN tasks, o \in ops : IsBirth(tasks[j]) /\ IsBirth(o) => tasks[j].no = o.no
        /\ domain # NoDomain =>
            /\ Exists => row.of = domain.of
            /\ \A q \in Requests : BirthReq(q) /\ req[q].pc = "insert" => domain.of = req[q].found.of
            /\ \A j \in DOMAIN tasks :
                IsBirth(tasks[j]) /\ tasks[j].st = "answered" => domain.of = tasks[j].no
    BY <1>2 DEF IInv, Births
  <2>2. \A j \in DOMAIN tasks : IsBirth(tasks'[j]) <=> IsBirth(tasks[j]) BY <1>6 DEF IsBirth
  <2>3. \A q \in Requests : (BirthReq(q)' <=> BirthReq(q)) /\ (BirthUnderWay(q)' => BirthUnderWay(q))
    BY <1>2, <1>4, <1>6, <1>7 DEF BirthReq, BirthUnderWay, Active
  <2>4. /\ \A o \in ops' : IsBirth(o) => ~Exists
        /\ \A o, p \in ops' : IsBirth(o) /\ IsBirth(p) => o.no = p.no
        /\ \A j \in DOMAIN tasks', o \in ops' : IsBirth(tasks'[j]) /\ IsBirth(o) => tasks'[j].no = o.no
    BY <1>4, <1>6, <1>7, <2>1, <2>2
  <2>5. /\ \A j \in DOMAIN tasks' : IsBirth(tasks'[j]) => ~Exists
        /\ \A k, j \in DOMAIN tasks' : IsBirth(tasks'[k]) /\ IsBirth(tasks'[j]) => k = j
        /\ domain # NoDomain => \A j \in DOMAIN tasks' :
              IsBirth(tasks'[j]) /\ tasks'[j].st = "answered" => domain.of = tasks'[j].no
    BY <1>4, <1>6, <2>1, <2>2
  <2> QED BY <1>2, <2>1, <2>3, <2>4, <2>5 DEF Births, Exists
<1>13. Undisturbed'
  <2> SUFFICES ASSUME lost' = 0, ~stray' PROVE Undisturbed' BY DEF Undisturbed
  <2>1. lost = 0 /\ ~stray BY <1>2
  <2>2. \A v : \A j \in DOMAIN tasks :
            (Plain(tasks'[j]) <=> Plain(tasks[j])) /\ (Starts(tasks'[j], v) <=> Starts(tasks[j], v))
    BY <1>6 DEF Plain, Starts
  <2>3. ASSUME NEW q \in Requests, Active(q), Plain(req[q]), req[q].pc \in {"probe", "mark", "enqueue"}
        PROVE  /\ req[q].cleared
               /\ \A j \in DOMAIN tasks' : ~Starts(tasks'[j], req[q].vm)
               /\ req[q].pc # "probe" => Quiet(req[q].vm)
    BY <1>4, <2>1, <2>2, <2>3 DEF IInv, Undisturbed
  <2>4. ASSUME NEW k \in DOMAIN tasks', Plain(tasks'[k]), tasks'[k].st # "answered"
        PROVE  /\ \A j \in DOMAIN tasks' : Starts(tasks'[j], tasks'[k].vm) => k < j
               /\ Quiet(tasks'[k].vm)
    BY <1>4, <1>6, <2>1, <2>2, <2>4 DEF IInv, Undisturbed
  <2> QED BY <1>2, <2>3, <2>4 DEF Undisturbed, Plain, Starts, Quiet, Active, Exists
<1> QED BY <1>8, <1>9, <1>10, <1>11, <1>12, <1>13 DEF IInv

-----------------------------------------------------------------------------
(* A task leaves the queue.                                                *)

Drops(i) == tasks' = RemoveAt(tasks, i)

LEMMA Dropped ==
    ASSUME Typed, NEW i \in DOMAIN tasks, Drops(i)
    PROVE  /\ tasks' \in Seq(TaskType)
           /\ \A j \in DOMAIN tasks' :
                Past(i, j) \in DOMAIN tasks /\ Past(i, j) # i /\ tasks'[j] = tasks[Past(i, j)]
           /\ \A k \in DOMAIN tasks \ {i} : \E j \in DOMAIN tasks' : tasks'[j] = tasks[k]
           /\ \A j, k \in DOMAIN tasks' :
                /\ j < k => Past(i, j) < Past(i, k)
                /\ Past(i, j) < Past(i, k) => j < k
                /\ Past(i, j) = Past(i, k) => j = k
<1>1. tasks \in Seq(TaskType) BY DEF Typed
<1>2. /\ tasks' \in Seq(TaskType)
      /\ \A j \in DOMAIN tasks' : /\ Past(i, j) \in DOMAIN tasks
                                  /\ Past(i, j) # i
                                  /\ tasks'[j] = tasks[Past(i, j)]
      /\ \A k \in DOMAIN tasks \ {i} : \E j \in DOMAIN tasks' : Past(i, j) = k
  BY <1>1, Removed DEF Drops
<1>3. DOMAIN tasks' \subseteq Nat /\ i \in Nat BY <1>1, <1>2
<1>4. ASSUME NEW j \in DOMAIN tasks', NEW k \in DOMAIN tasks'
      PROVE  /\ j < k => Past(i, j) < Past(i, k)
             /\ Past(i, j) < Past(i, k) => j < k
             /\ Past(i, j) = Past(i, k) => j = k
  <2>1. j \in Nat /\ k \in Nat BY <1>3
  <2> QED BY <1>3, <2>1 DEF Past
<1>5. \A k \in DOMAIN tasks \ {i} : \E j \in DOMAIN tasks' : tasks'[j] = tasks[k] BY <1>2
<1> QED BY <1>2, <1>4, <1>5

LEMMA DropNumbered ==
    ASSUME IInv, NEW i \in DOMAIN tasks, Drops(i), UNCHANGED <<req, calls>>, ops' \subseteq ops,
           lost' = 0 => lost = 0 /\ \A o \in ops' : o.no # tasks[i].no
    PROVE  Numbered'
<1>1. /\ \A j \in DOMAIN tasks' : Past(i, j) \in DOMAIN tasks /\ tasks'[j] = tasks[Past(i, j)]
      /\ \A k \in DOMAIN tasks \ {i} : \E j \in DOMAIN tasks' : tasks'[j] = tasks[k]
      /\ \A j, k \in DOMAIN tasks' : Past(i, j) = Past(i, k) => j = k
  BY Dropped DEF IInv
<1>2. /\ \A q \in Requests : Active(q) => req[q].no <= calls
      /\ \A j \in DOMAIN tasks : tasks[j].no <= calls
      /\ \A o \in ops : o.no <= calls
      /\ \A x, q \in Requests : Active(x) /\ Active(q) /\ req[x].no = req[q].no => x = q
      /\ \A q \in Requests : Active(q) =>
          /\ \A j \in DOMAIN tasks : tasks[j].no # req[q].no
          /\ \A o \in ops : o.no # req[q].no
      /\ \A k, j \in DOMAIN tasks : tasks[k].no = tasks[j].no => k = j
      /\ \A o, p \in ops : o.no = p.no => o = p
      /\ \A o \in ops, j \in DOMAIN tasks : tasks[j].no = o.no =>
          /\ tasks[j].st = "running"
          /\ tasks[j].kind = o.kind /\ tasks[j].vm = o.vm /\ tasks[j].unchecked = o.unchecked
      /\ lost = 0 => \A o \in ops : \E j \in DOMAIN tasks : tasks[j].no = o.no
  BY DEF IInv, Numbered
<1>3. lost' = 0 => \A o \in ops' : \E j \in DOMAIN tasks' : tasks'[j].no = o.no
  <2> SUFFICES ASSUME lost' = 0, NEW o \in ops' PROVE \E j \in DOMAIN tasks' : tasks'[j].no = o.no
    OBVIOUS
  <2>1. PICK k \in DOMAIN tasks : tasks[k].no = o.no BY <1>2
  <2>2. k # i BY <2>1
  <2>3. PICK j \in DOMAIN tasks' : tasks'[j] = tasks[k] BY <1>1, <2>2
  <2> QED BY <2>1, <2>3
<1>4. /\ \A j \in DOMAIN tasks' : tasks'[j].no <= calls
      /\ \A q \in Requests : Active(q) => \A j \in DOMAIN tasks' : tasks'[j].no # req[q].no
      /\ \A k, j \in DOMAIN tasks' : tasks'[k].no = tasks'[j].no => k = j
      /\ \A o \in ops', j \in DOMAIN tasks' : tasks'[j].no = o.no =>
          /\ tasks'[j].st = "running"
          /\ tasks'[j].kind = o.kind /\ tasks'[j].vm = o.vm /\ tasks'[j].unchecked = o.unchecked
  BY <1>1, <1>2
<1>5. UNCHANGED <<req, calls>> OBVIOUS
<1> QED BY <1>2, <1>3, <1>4, <1>5 DEF Numbered, Active

LEMMA DropOrdered == ASSUME IInv, NEW i \in DOMAIN tasks, Drops(i) PROVE Ordered'
<1> SUFFICES ASSUME NEW j \in DOMAIN tasks', NEW k \in DOMAIN tasks',
                    j < k, SameResource(tasks'[k], tasks'[j])
             PROVE  tasks'[k].st = "pending"
  BY DEF Ordered, SameResource, IsOfMachine
<1>1. /\ Past(i, j) \in DOMAIN tasks /\ tasks'[j] = tasks[Past(i, j)]
      /\ Past(i, k) \in DOMAIN tasks /\ tasks'[k] = tasks[Past(i, k)]
      /\ Past(i, j) < Past(i, k)
  BY Dropped DEF IInv
<1> QED BY <1>1 DEF IInv, Ordered

LEMMA DropBorn ==
    ASSUME IInv, NEW i \in DOMAIN tasks, Drops(i), UNCHANGED <<req, calls>>, NEW v, Born(v)
    PROVE  BornNext(v)
<1>1. \A j \in DOMAIN tasks' : Past(i, j) \in DOMAIN tasks /\ tasks'[j] = tasks[Past(i, j)]
  BY Dropped DEF IInv
<1> QED BY <1>1 DEF Born, BornNext, Active

LEMMA DropKnown ==
    ASSUME IInv, NEW i \in DOMAIN tasks, Drops(i), UNCHANGED <<req, calls>>,
           Exists' => BornNext(row'.id)
    PROVE  Known'
<1>1. \A j \in DOMAIN tasks' : Past(i, j) \in DOMAIN tasks /\ tasks'[j] = tasks[Past(i, j)]
  BY Dropped DEF IInv
<1>2. \A v : Born(v) => BornNext(v) BY DropBorn
<1>3. ASSUME NEW q \in Requests, Active(q)'
      PROVE  IF req'[q].kind \in BirthKinds THEN req'[q].vm = req'[q].no ELSE BornNext(req'[q].vm)
  <2>1. Active(q) /\ req' = req BY <1>3 DEF Active
  <2>2. CASE req[q].kind \in BirthKinds BY <2>1, <2>2 DEF IInv, Known
  <2>3. CASE req[q].kind \notin BirthKinds
    <3>1. Born(req[q].vm) BY <2>1, <2>3 DEF IInv, Known
    <3> QED BY <1>2, <2>1, <2>3, <3>1
  <2> QED BY <2>2, <2>3
<1>4. ASSUME NEW j \in DOMAIN tasks', tasks'[j].kind \notin MachineKinds
      PROVE  BornNext(tasks'[j].vm)
  <2>1. Born(tasks'[j].vm) BY <1>1, <1>4 DEF IInv, Known
  <2> QED BY <1>2, <2>1
<1> QED BY <1>3, <1>4, KnownNext

LEMMA DropBirths ==
    ASSUME IInv, NEW i \in DOMAIN tasks, Drops(i), UNCHANGED <<req, overlap, domain>>,
           ops' \subseteq ops, Exists' => Exists /\ row'.of = row.of
    PROVE  Births'
<1> SUFFICES ASSUME ~overlap' PROVE Births' BY DEF Births
<1>1. /\ \A j \in DOMAIN tasks' : Past(i, j) \in DOMAIN tasks /\ tasks'[j] = tasks[Past(i, j)]
      /\ \A j, k \in DOMAIN tasks' : Past(i, j) = Past(i, k) => j = k
  BY Dropped DEF IInv
<1>2. /\ \A q \in Requests : BirthReq(q) => ~BirthUnderWay(q) /\ (req[q].pc = "enqueue" => ~Exists)
      /\ \A j \in DOMAIN tasks : IsBirth(tasks[j]) => ~Exists
      /\ \A o \in ops : IsBirth(o) => ~Exists
      /\ \A k, j \in DOMAIN tasks : IsBirth(tasks[k]) /\ IsBirth(tasks[j]) => k = j
      /\ \A o, p \in ops : IsBirth(o) /\ IsBirth(p) => o.no = p.no
      /\ \A j \in DOMAIN tasks, o \in ops : IsBirth(tasks[j]) /\ IsBirth(o) => tasks[j].no = o.no
      /\ domain # NoDomain =>
          /\ Exists => row.of = domain.of
          /\ \A q \in Requests : BirthReq(q) /\ req[q].pc = "insert" => domain.of = req[q].found.of
          /\ \A j \in DOMAIN tasks :
              IsBirth(tasks[j]) /\ tasks[j].st = "answered" => domain.of = tasks[j].no
  BY DEF IInv, Births
<1>3. UNCHANGED <<req, overlap, domain>> OBVIOUS
<1>4. \A q \in Requests : (BirthReq(q)' <=> BirthReq(q)) /\ (BirthUnderWay(q)' => BirthUnderWay(q))
  BY <1>1, <1>3 DEF BirthReq, BirthUnderWay, Active
<1>5. /\ \A j \in DOMAIN tasks' : IsBirth(tasks'[j]) => ~Exists
      /\ \A k, j \in DOMAIN tasks' : IsBirth(tasks'[k]) /\ IsBirth(tasks'[j]) => k = j
      /\ \A j \in DOMAIN tasks', o \in ops' : IsBirth(tasks'[j]) /\ IsBirth(o) => tasks'[j].no = o.no
      /\ domain # NoDomain => \A j \in DOMAIN tasks' :
            IsBirth(tasks'[j]) /\ tasks'[j].st = "answered" => domain.of = tasks'[j].no
  BY <1>1, <1>2
<1> QED BY <1>2, <1>3, <1>4, <1>5 DEF Births

QuietNext(v) == Exists' /\ row'.id = v => ~domain'.on
LEMMA DropUndisturbed ==
    ASSUME IInv, NEW i \in DOMAIN tasks, Drops(i), UNCHANGED <<req, lost>>, stray => stray',
           ~stray' => \A v : Born(v) /\ Quiet(v) => QuietNext(v)
    PROVE  Undisturbed'
<1> SUFFICES ASSUME lost' = 0, ~stray' PROVE Undisturbed' BY DEF Undisturbed
<1>1. /\ \A j \in DOMAIN tasks' : Past(i, j) \in DOMAIN tasks /\ tasks'[j] = tasks[Past(i, j)]
      /\ \A j, k \in DOMAIN tasks' : Past(i, j) < Past(i, k) => j < k
  BY Dropped DEF IInv
<1>2. lost = 0 /\ ~stray OBVIOUS
<1>3. \A v : Born(v) /\ Quiet(v) => QuietNext(v) OBVIOUS
<1>4. req' = req OBVIOUS
<1>5. ASSUME NEW q \in Requests, Active(q), Plain(req[q]), req[q].pc \in {"probe", "mark", "enqueue"}
      PROVE  /\ req[q].cleared
             /\ \A j \in DOMAIN tasks' : ~Starts(tasks'[j], req[q].vm)
             /\ req[q].pc # "probe" => QuietNext(req[q].vm)
  <2>1. Born(req[q].vm) BY <1>5 DEF IInv, Known, Plain, BirthKinds, MachineKinds
  <2> QED BY <1>1, <1>2, <1>3, <1>5, <2>1 DEF IInv, Undisturbed
<1>6. ASSUME NEW j \in DOMAIN tasks', Plain(tasks'[j]), tasks'[j].st # "answered"
      PROVE  /\ \A k \in DOMAIN tasks' : Starts(tasks'[k], tasks'[j].vm) => j < k
             /\ QuietNext(tasks'[j].vm)
  <2>1. Past(i, j) \in DOMAIN tasks /\ tasks'[j] = tasks[Past(i, j)] BY <1>1
  <2>2. Born(tasks'[j].vm) BY <1>6, <2>1 DEF IInv, Known, Plain, MachineKinds
  <2>3. /\ \A k \in DOMAIN tasks : Starts(tasks[k], tasks'[j].vm) => Past(i, j) < k
        /\ Quiet(tasks'[j].vm)
    BY <1>2, <1>6, <2>1 DEF IInv, Undisturbed
  <2> QED BY <1>1, <1>3, <2>2, <2>3
<1> QED BY <1>4, <1>5, <1>6 DEF Undisturbed, Plain, Starts, Quiet, QuietNext, Active

LEMMA LoseKeeps == ASSUME IInv, NEW i \in DOMAIN tasks, LoseAnswer(i) PROVE IInv'
<1>1. Typed BY DEF IInv
<1>2. /\ Drops(i) /\ lost' = lost + 1
      /\ UNCHANGED <<row, domain, disk, ops, req, scan, calls, overlap, stray>>
  BY DEF LoseAnswer, Drops
<1>3. lost \in Nat BY <1>1 DEF Typed
<1>4. lost' \in Nat /\ lost' # 0 BY <1>2, <1>3
<1>5. Typed' BY <1>1, <1>2, <1>4, Dropped DEF Typed, Busy
<1>6. Numbered' BY <1>2, <1>4, DropNumbered
<1>7. Ordered' BY <1>2, DropOrdered
<1>8. Known'
  <2>1. Exists' => BornNext(row'.id) BY <1>2, DropBorn DEF IInv, Known, Exists
  <2> QED BY <1>2, <2>1, DropKnown
<1>9. Births' BY <1>2, DropBirths DEF Exists
<1>10. Undisturbed' BY <1>4 DEF Undisturbed
<1> QED BY <1>5, <1>6, <1>7, <1>8, <1>9, <1>10 DEF IInv

LEMMA FinishKeeps == ASSUME IInv, NEW i \in DOMAIN tasks, Finish(i) PROVE IInv'
<1> DEFINE t == tasks[i]
<1>1. Typed BY DEF IInv
<1>2. /\ Drops(i) /\ t.st = "answered"
      /\ FinishCreate(t) \/ FinishPower(t) \/ FinishDelete(t)
      /\ UNCHANGED <<domain, disk, ops, req, scan, calls, lost, overlap, stray>>
  BY DEF Finish, Drops
<1>3. t \in TaskType BY <1>1 DEF Typed
<1> HIDE DEF t
<1>4. \A o \in ops : o.no # t.no BY <1>2 DEF IInv, Numbered, t
<1>5. Numbered' BY <1>2, <1>4, DropNumbered DEF t
<1>6. Ordered' BY <1>2, DropOrdered
<1>7. \A v : Born(v) => BornNext(v) BY <1>2, DropBorn
<1>8. Typed /\ tasks' \in Seq(TaskType) BY <1>1, <1>2, Dropped
<1>9. CASE FinishCreate(t)
  <2>1. t.kind \in MachineKinds /\ InsertRow(t.no, t.no, "stopped") BY <1>9 DEF FinishCreate
  <2>2. t.no \in Numbers /\ t.no \in Nat BY <1>3 DEF TaskType, Numbers
  <2>3. /\ row' \in RowType
        /\ Exists => row' = row
        /\ ~Exists => row'.id = t.no /\ row'.of = t.no
    BY <1>1, <2>1, <2>2, InsertIsRow
  <2>4. Exists' BY <2>3, RowIsThere DEF Exists
  <2>5. Typed' BY <1>2, <1>8, <2>3 DEF Typed, Busy
  <2>6. BornNext(t.no)
    <3>1. /\ \A j \in DOMAIN tasks' :
                Past(i, j) \in DOMAIN tasks /\ Past(i, j) # i /\ tasks'[j] = tasks[Past(i, j)]
      BY <1>1, <1>2, Dropped
    <3>2. /\ t.no <= calls
          /\ \A q \in Requests : Active(q) => t.no # req[q].no
          /\ \A j \in DOMAIN tasks : tasks[j].no = t.no => j = i
      BY DEF IInv, Numbered, t
    <3> QED BY <1>2, <3>1, <3>2 DEF BornNext, Active
  <2>7. Known'
    <3>1. BornNext(row'.id)
      <4>1. CASE Exists BY <1>7, <2>3, <4>1 DEF IInv, Known
      <4>2. CASE ~Exists BY <2>3, <2>6, <4>2
      <4> QED BY <4>1, <4>2
    <3> QED BY <1>2, <3>1, DropKnown
  <2>8. Births'
    <3> SUFFICES ASSUME ~overlap' PROVE Births' BY DEF Births
    <3>1. ~overlap BY <1>2
    <3>2. \A j \in DOMAIN tasks' :
                Past(i, j) \in DOMAIN tasks /\ Past(i, j) # i /\ tasks'[j] = tasks[Past(i, j)]
      BY <1>1, <1>2, Dropped
    <3>3. IsBirth(tasks[i]) BY <2>1 DEF IsBirth, t
    <3>4. \A q \in Requests : ~BirthReq(q)
      <4>1. \A q \in Requests : BirthUnderWay(q) BY <3>3 DEF BirthUnderWay, IsBirth
      <4> QED BY <3>1, <4>1 DEF IInv, Births
    <3>5. \A o \in ops : ~IsBirth(o) BY <1>4, <3>1, <3>3 DEF IInv, Births, t
    <3>6. \A j \in DOMAIN tasks : IsBirth(tasks[j]) => j = i BY <3>1, <3>3 DEF IInv, Births
    <3>7. ~Exists BY <3>1, <3>3 DEF IInv, Births
    <3>8. domain # NoDomain => row'.of = domain.of
      BY <1>2, <2>3, <3>1, <3>3, <3>7 DEF IInv, Births, t
    <3>9. \A q \in Requests : ~(BirthReq(q)') BY <1>2, <3>4 DEF BirthReq, Active
    <3>10. \A j \in DOMAIN tasks' : ~IsBirth(tasks'[j]) BY <3>2, <3>6
    <3> QED BY <1>2, <3>5, <3>8, <3>9, <3>10 DEF Births
  <2>9. \A v : Born(v) /\ Quiet(v) => QuietNext(v)
    <3> SUFFICES ASSUME NEW v, Born(v), Quiet(v) PROVE QuietNext(v) OBVIOUS
    <3>1. t.no # v BY <2>1 DEF Born, t
    <3> QED BY <1>2, <2>3, <3>1 DEF Quiet, QuietNext
  <2>10. Undisturbed' BY <1>2, <2>9, DropUndisturbed
  <2> QED BY <1>5, <1>6, <2>5, <2>7, <2>8, <2>10 DEF IInv
<1>10. CASE FinishPower(t) \/ FinishDelete(t)
  <2>1. row' = NoRow \/ SameMachine
    <3>1. CASE FinishPower(t)
      BY <1>1, <1>10, <3>1 DEF FinishPower, SameMachine, Mine, Typed, RowType, Exists
    <3>2. CASE FinishDelete(t)
      BY <1>1, <1>10, <3>2 DEF FinishDelete, SameMachine, Mine, Typed, RowType, Exists
    <3> QED BY <1>10, <3>1, <3>2
  <2>2. /\ row' = NoRow \/ row' \in RowType
        /\ Exists' => Exists /\ row'.id = row.id /\ row'.of = row.of
    <3>1. CASE row' = NoRow BY <3>1 DEF Exists
    <3>2. CASE SameMachine BY <1>1, <3>2, SameRow
    <3> QED BY <2>1, <3>1, <3>2
  <2>3. Typed' BY <1>2, <1>8, <2>2 DEF Typed, Busy
  <2>4. Known'
    <3>1. Exists' => BornNext(row'.id) BY <1>7, <2>2 DEF IInv, Known
    <3> QED BY <1>2, <3>1, DropKnown
  <2>5. Births' BY <1>2, <2>2, DropBirths
  <2>6. \A v : Born(v) /\ Quiet(v) => QuietNext(v) BY <1>2, <2>2 DEF Quiet, QuietNext
  <2>7. Undisturbed' BY <1>2, <2>6, DropUndisturbed
  <2> QED BY <1>5, <1>6, <2>3, <2>4, <2>5, <2>7 DEF IInv
<1> QED BY <1>2, <1>9, <1>10

-----------------------------------------------------------------------------
(* The node works.                                                         *)

\* What it does to the domain.
LEMMA Effects ==
    ASSUME Typed, NEW o \in ops, ~Refuses(o), Perform(o)
    PROVE  /\ domain' \in DomainType
           /\ o.kind \in MachineKinds => domain'.of = o.no
           /\ o.kind \notin MachineKinds /\ domain' # NoDomain =>
                domain # NoDomain /\ domain'.of = domain.of
           /\ domain'.on => o.kind = "start"
<1>1. o \in TaskType /\ domain \in DomainType BY DEF Typed
<1>2. CASE o.kind \in MachineKinds /\ VMCreate(o)
  BY <1>1, <1>2 DEF VMCreate, DomainType, TaskType, Numbers
<1>3. CASE o.kind \in PowerKinds /\ PowerOp(o)
  <2>1. domain # NoDomain /\ o.kind \notin MachineKinds
    BY <1>3 DEF Refuses, PowerKinds, MachineKinds
  <2>2. domain' = [domain EXCEPT !.on = o.kind = "start"] BY <1>3 DEF PowerOp
  <2>3. domain' \in DomainType /\ domain'.of = domain.of /\ domain'.on = (o.kind = "start")
    BY <1>1, <2>2 DEF DomainType
  <2> QED BY <2>1, <2>3
<1>4. CASE o.kind \in DeleteKinds \cup {"purge"} /\ VMDelete(o)
  <2>1. domain' = NoDomain /\ o.kind \notin MachineKinds
    BY <1>4 DEF VMDelete, DeleteKinds, MachineKinds
  <2> QED BY <2>1 DEF NoDomain, Nobody, DomainType
<1> QED BY <1>2, <1>3, <1>4 DEF Perform

LEMMA PerformKeeps ==
    ASSUME IInv, NEW o \in ops, ~Refuses(o), Perform(o), ops' = ops \ {o},
           tasks' = [i \in DOMAIN tasks |-> Answered(tasks[i], o)],
           stray' = (stray \/ (o.kind \notin MachineKinds /\ ~Mine(o))),
           UNCHANGED <<row, req, scan, calls, lost, overlap>>
    PROVE  IInv'
<1>1. Typed BY DEF IInv
<1>2. o \in TaskType BY <1>1 DEF Typed
<1>3. /\ tasks' \in Seq(TaskType) /\ DOMAIN tasks' = DOMAIN tasks
      /\ \A j \in DOMAIN tasks : tasks'[j] = Answered(tasks[j], o)
  BY <1>1, <1>2, Marked
<1>4. \A j \in DOMAIN tasks : tasks[j] \in TaskType BY <1>1 DEF Typed
<1>5. \A j \in DOMAIN tasks :
        /\ tasks'[j].no = tasks[j].no /\ tasks'[j].kind = tasks[j].kind /\ tasks'[j].vm = tasks[j].vm
        /\ tasks'[j].unchecked = tasks[j].unchecked
        /\ tasks[j].no = o.no => tasks'[j].st = "answered"
        /\ tasks[j].no # o.no => tasks'[j].st = tasks[j].st
  BY <1>3, <1>4 DEF Answered, TaskType
<1>6. \A p \in ops' : p \in ops /\ p.no # o.no BY DEF IInv, Numbered
<1>7. UNCHANGED <<row, req, scan, calls, lost, overlap>> OBVIOUS
<1>8. /\ domain' \in DomainType
      /\ o.kind \in MachineKinds => domain'.of = o.no
      /\ o.kind \notin MachineKinds /\ domain' # NoDomain =>
            domain # NoDomain /\ domain'.of = domain.of
      /\ domain'.on => o.kind = "start"
  BY <1>1, Effects
<1>9. Typed'
  <2>1. stray' \in BOOLEAN BY <1>1 DEF Typed
  <2> QED BY <1>1, <1>3, <1>6, <1>7, <1>8, <2>1 DEF Typed, Busy
<1>10. /\ \A j \in DOMAIN tasks : tasks[j].no = o.no =>
            tasks[j].st = "running" /\ tasks[j].kind = o.kind /\ tasks[j].vm = o.vm
       /\ lost = 0 => \E j \in DOMAIN tasks : tasks[j].no = o.no
  BY DEF IInv, Numbered
<1>11. Numbered'
  <2>1. /\ \A q \in Requests : Active(q) => req[q].no <= calls
        /\ \A j \in DOMAIN tasks : tasks[j].no <= calls
        /\ \A p \in ops : p.no <= calls
        /\ \A x, q \in Requests : Active(x) /\ Active(q) /\ req[x].no = req[q].no => x = q
        /\ \A q \in Requests : Active(q) =>
            /\ \A j \in DOMAIN tasks : tasks[j].no # req[q].no
            /\ \A p \in ops : p.no # req[q].no
        /\ \A k, j \in DOMAIN tasks : tasks[k].no = tasks[j].no => k = j
        /\ \A p, x \in ops : p.no = x.no => p = x
        /\ \A p \in ops, j \in DOMAIN tasks : tasks[j].no = p.no =>
            /\ tasks[j].st = "running"
            /\ tasks[j].kind = p.kind /\ tasks[j].vm = p.vm /\ tasks[j].unchecked = p.unchecked
        /\ lost = 0 => \A p \in ops : \E j \in DOMAIN tasks : tasks[j].no = p.no
    BY DEF IInv, Numbered
  <2>2. /\ \A j \in DOMAIN tasks' : tasks'[j].no <= calls
        /\ \A k, j \in DOMAIN tasks' : tasks'[k].no = tasks'[j].no => k = j
        /\ \A q \in Requests : Active(q) => \A j \in DOMAIN tasks' : tasks'[j].no # req[q].no
    BY <1>3, <1>5, <2>1
  <2>3. \A p \in ops', j \in DOMAIN tasks' : tasks'[j].no = p.no =>
            /\ tasks'[j].st = "running"
            /\ tasks'[j].kind = p.kind /\ tasks'[j].vm = p.vm /\ tasks'[j].unchecked = p.unchecked
    BY <1>3, <1>5, <1>6, <2>1
  <2>4. lost = 0 => \A p \in ops' : \E j \in DOMAIN tasks' : tasks'[j].no = p.no
    BY <1>3, <1>5, <1>6, <2>1
  <2> QED BY <1>6, <1>7, <2>1, <2>2, <2>3, <2>4 DEF Numbered, Active
<1>12. Ordered'
  <2> SUFFICES ASSUME NEW k \in DOMAIN tasks, NEW j \in DOMAIN tasks,
                      k < j, SameResource(tasks'[j], tasks'[k])
               PROVE  tasks'[j].st = "pending"
    BY <1>3 DEF Ordered, SameResource, IsOfMachine
  <2>1. SameResource(tasks[j], tasks[k]) BY <1>5 DEF SameResource, IsOfMachine
  <2>2. tasks[j].st = "pending" BY <2>1 DEF IInv, Ordered
  <2> QED BY <1>5, <1>10, <2>2
<1>13. Known'
  <2>1. ASSUME NEW v, Born(v) PROVE BornNext(v)
    BY <1>3, <1>5, <1>7, <2>1 DEF Born, BornNext, Active
  <2>2. Exists' => BornNext(row'.id) BY <1>7, <2>1 DEF IInv, Known, Exists
  <2>3. ASSUME NEW q \in Requests, Active(q)'
        PROVE  IF req'[q].kind \in BirthKinds THEN req'[q].vm = req'[q].no ELSE BornNext(req'[q].vm)
    <3>1. Active(q) /\ req' = req BY <1>7, <2>3 DEF Active
    <3>2. CASE req[q].kind \in BirthKinds BY <3>1, <3>2 DEF IInv, Known
    <3>3. CASE req[q].kind \notin BirthKinds
      <4>1. Born(req[q].vm) BY <3>1, <3>3 DEF IInv, Known
      <4> QED BY <2>1, <3>1, <3>3, <4>1
    <3> QED BY <3>2, <3>3
  <2>4. \A j \in DOMAIN tasks' : tasks'[j].kind \notin MachineKinds => BornNext(tasks'[j].vm)
    BY <1>3, <1>5, <2>1 DEF IInv, Known
  <2> QED BY <2>2, <2>3, <2>4, KnownNext
<1>14. Births'
  <2> SUFFICES ASSUME ~overlap' PROVE Births' BY DEF Births
  <2>1. /\ \A q \in Requests : BirthReq(q) => ~BirthUnderWay(q) /\ (req[q].pc = "enqueue" => ~Exists)
        /\ \A j \in DOMAIN tasks : IsBirth(tasks[j]) => ~Exists
        /\ \A p \in ops : IsBirth(p) => ~Exists
        /\ \A k, j \in DOMAIN tasks : IsBirth(tasks[k]) /\ IsBirth(tasks[j]) => k = j
        /\ \A p, x \in ops : IsBirth(p) /\ IsBirth(x) => p.no = x.no
        /\ \A j \in DOMAIN tasks, p \in ops : IsBirth(tasks[j]) /\ IsBirth(p) => tasks[j].no = p.no
        /\ domain # NoDomain =>
            /\ Exists => row.of = domain.of
            /\ \A q \in Requests : BirthReq(q) /\ req[q].pc = "insert" => domain.of = req[q].found.of
            /\ \A j \in DOMAIN tasks :
                IsBirth(tasks[j]) /\ tasks[j].st = "answered" => domain.of = tasks[j].no
    BY <1>7 DEF IInv, Births
  <2>2. \A j \in DOMAIN tasks : IsBirth(tasks'[j]) <=> IsBirth(tasks[j]) BY <1>5 DEF IsBirth
  <2>3. \A q \in Requests : (BirthReq(q)' <=> BirthReq(q)) /\ (BirthUnderWay(q)' => BirthUnderWay(q))
    BY <1>3, <1>5, <1>6, <1>7 DEF BirthReq, BirthUnderWay, Active
  <2>4. /\ \A j \in DOMAIN tasks' : IsBirth(tasks'[j]) => ~Exists
        /\ \A k, j \in DOMAIN tasks' : IsBirth(tasks'[k]) /\ IsBirth(tasks'[j]) => k = j
        /\ \A j \in DOMAIN tasks', p \in ops' : IsBirth(tasks'[j]) /\ IsBirth(p) => tasks'[j].no = p.no
        /\ \A p \in ops' : IsBirth(p) => ~Exists
        /\ \A p, x \in ops' : IsBirth(p) /\ IsBirth(x) => p.no = x.no
    BY <1>3, <1>5, <1>6, <2>1, <2>2
  <2>5. CASE IsBirth(o)
    <3>1. ~Exists /\ \A q \in Requests : ~BirthReq(q) BY <2>1, <2>5 DEF BirthUnderWay, IsBirth
    <3>2. \A j \in DOMAIN tasks' : IsBirth(tasks'[j]) => domain'.of = tasks'[j].no
      BY <1>3, <1>5, <1>8, <2>1, <2>2, <2>5 DEF IsBirth
    <3> QED BY <1>7, <2>1, <2>3, <2>4, <3>1, <3>2 DEF Births, Exists
  <2>6. CASE ~IsBirth(o)
    <3>1. \A j \in DOMAIN tasks : IsBirth(tasks[j]) => tasks'[j].st = tasks[j].st
      BY <1>5, <1>10, <2>6 DEF IsBirth
    <3>2. domain' # NoDomain => domain # NoDomain /\ domain'.of = domain.of
      BY <1>8, <2>6 DEF IsBirth
    <3>3. domain' # NoDomain => \A j \in DOMAIN tasks' :
                IsBirth(tasks'[j]) /\ tasks'[j].st = "answered" => domain'.of = tasks'[j].no
      BY <1>3, <1>5, <2>1, <2>2, <3>1, <3>2
    <3>4. domain' # NoDomain =>
            /\ Exists => row.of = domain'.of
            /\ \A q \in Requests : BirthReq(q) /\ req[q].pc = "insert" => domain'.of = req[q].found.of
      BY <2>1, <3>2
    <3> QED BY <1>7, <2>1, <2>3, <2>4, <3>3, <3>4 DEF Births, Exists
  <2> QED BY <2>5, <2>6
<1>15. Undisturbed'
  <2> SUFFICES ASSUME lost' = 0, ~stray' PROVE Undisturbed' BY DEF Undisturbed
  <2>1. lost = 0 /\ ~stray /\ (o.kind \notin MachineKinds => Mine(o)) BY <1>7
  <2>2. \A v : \A j \in DOMAIN tasks :
            (Plain(tasks'[j]) <=> Plain(tasks[j])) /\ (Starts(tasks'[j], v) <=> Starts(tasks[j], v))
    BY <1>5 DEF Plain, Starts
  <2>3. PICK k \in DOMAIN tasks : tasks[k].no = o.no BY <1>10, <2>1
  <2>4. tasks[k].st = "running" /\ tasks[k].kind = o.kind /\ tasks[k].vm = o.vm BY <1>10, <2>3
  <2>5. ASSUME NEW v, ~QuietNext(v) PROVE Starts(tasks[k], v)
    <3>1. o.kind = "start" /\ Exists /\ row.id = v BY <1>7, <1>8, <2>5 DEF QuietNext, Exists
    <3>2. o.vm = v BY <2>1, <3>1 DEF Mine, MachineKinds
    <3> QED BY <2>4, <3>1, <3>2 DEF Starts
  <2>6. ASSUME NEW q \in Requests, Active(q), Plain(req[q]), req[q].pc \in {"probe", "mark", "enqueue"}
        PROVE  /\ req[q].cleared
               /\ \A j \in DOMAIN tasks' : ~Starts(tasks'[j], req[q].vm)
               /\ QuietNext(req[q].vm)
    <3>1. req[q].cleared /\ \A j \in DOMAIN tasks : ~Starts(tasks[j], req[q].vm)
      BY <2>1, <2>6 DEF IInv, Undisturbed
    <3> QED BY <1>3, <2>2, <2>5, <3>1
  <2>7. ASSUME NEW i \in DOMAIN tasks', Plain(tasks'[i]), tasks'[i].st # "answered"
        PROVE  /\ \A j \in DOMAIN tasks' : Starts(tasks'[j], tasks'[i].vm) => i < j
               /\ QuietNext(tasks'[i].vm)
    <3>1. i \in DOMAIN tasks /\ Plain(tasks[i]) /\ tasks[i].st # "answered" /\ tasks'[i].vm = tasks[i].vm
      BY <1>3, <1>5, <1>10, <2>2, <2>7
    <3>2. \A j \in DOMAIN tasks : Starts(tasks[j], tasks[i].vm) => i < j
      BY <2>1, <3>1 DEF IInv, Undisturbed
    <3>3. ~Starts(tasks[k], tasks[i].vm)
      <4> SUFFICES ASSUME Starts(tasks[k], tasks[i].vm) PROVE FALSE OBVIOUS
      <4>1. i < k BY <3>2
      <4>2. SameResource(tasks[k], tasks[i])
        BY <3>1 DEF SameResource, IsOfMachine, Starts, Plain, MachineKinds
      <4> QED BY <2>4, <3>1, <4>1, <4>2 DEF IInv, Ordered
    <3> QED BY <1>3, <2>2, <2>5, <3>1, <3>2, <3>3
  <2> QED BY <1>7, <2>6, <2>7 DEF Undisturbed, Plain, Starts, Quiet, QuietNext, Active
<1> QED BY <1>9, <1>11, <1>12, <1>13, <1>14, <1>15 DEF IInv

\* The node refuses: the task fails, or is gone already.
LEMMA RefusalKeeps ==
    ASSUME IInv, NEW o \in ops, ops' = ops \ {o},
           UNCHANGED <<row, domain, req, scan, calls, lost, overlap>>,
           stray' \in BOOLEAN, stray => stray',
           \/ \E i \in DOMAIN tasks : tasks[i].no = o.no /\ Drops(i)
           \/ UNCHANGED tasks
    PROVE  IInv'
<1>1. Typed BY DEF IInv
<1>2. UNCHANGED <<row, domain, req, scan, calls, lost, overlap>> OBVIOUS
<1>3. \A p \in ops' : p \in ops /\ p.no # o.no BY DEF IInv, Numbered
<1>4. CASE \E i \in DOMAIN tasks : tasks[i].no = o.no /\ Drops(i)
  <2>1. PICK i \in DOMAIN tasks : tasks[i].no = o.no /\ Drops(i) BY <1>4
  <2>2. Typed' BY <1>1, <1>2, <1>3, <2>1, Dropped DEF Typed, Busy
  <2>3. Numbered' BY <1>2, <1>3, <2>1, DropNumbered
  <2>4. Ordered' BY <2>1, DropOrdered
  <2>5. Known'
    <3>1. Exists' => BornNext(row'.id) BY <1>2, <2>1, DropBorn DEF IInv, Known, Exists
    <3> QED BY <1>2, <2>1, <3>1, DropKnown
  <2>6. Births' BY <1>2, <1>3, <2>1, DropBirths DEF Exists
  <2>7. \A v : Quiet(v) => QuietNext(v) BY <1>2 DEF Quiet, QuietNext, Exists
  <2>8. Undisturbed' BY <1>2, <2>1, <2>7, DropUndisturbed
  <2> QED BY <2>2, <2>3, <2>4, <2>5, <2>6, <2>8 DEF IInv
<1>5. CASE UNCHANGED tasks
  <2>1. Typed' BY <1>1, <1>2, <1>3, <1>5 DEF Typed, Busy
  <2>2. Numbered' BY <1>2, <1>3, <1>5 DEF IInv, Numbered, Active
  <2>3. Ordered' BY <1>5 DEF IInv, Ordered, SameResource
  <2>4. Known'
    <3>1. \A v : Born(v)' = Born(v) BY <1>2, <1>5 DEF Born, Active
    <3> QED BY <1>2, <1>5, <3>1 DEF IInv, Known, Active, Exists
  <2>5. Births'
    <3>1. \A q \in Requests : (BirthReq(q)' <=> BirthReq(q)) /\ (BirthUnderWay(q)' => BirthUnderWay(q))
      BY <1>2, <1>3, <1>5 DEF BirthReq, BirthUnderWay, Active
    <3> QED BY <1>2, <1>3, <1>5, <3>1 DEF IInv, Births, Exists
  <2>6. Undisturbed' BY <1>2, <1>5 DEF IInv, Undisturbed, Active, Plain, Starts, Quiet, Exists
  <2> QED BY <2>1, <2>2, <2>3, <2>4, <2>5, <2>6 DEF IInv
<1> QED BY <1>4, <1>5

LEMMA WorkKeeps == ASSUME IInv, NEW o \in ops, Work(o) PROVE IInv'
<1>1. /\ ops' = ops \ {o} /\ stray' = (stray \/ (o.kind \notin MachineKinds /\ ~Mine(o)))
      /\ UNCHANGED <<row, req, scan, calls, lost, overlap>>
  BY DEF Work
<1>2. CASE ~Refuses(o) /\ Perform(o) /\ tasks' = [i \in DOMAIN tasks |-> Answered(tasks[i], o)]
  BY <1>1, <1>2, PerformKeeps
<1>3. CASE /\ UNCHANGED <<domain, disk>>
           /\ \/ \E i \in DOMAIN tasks : tasks[i].no = o.no /\ Drops(i)
              \/ UNCHANGED tasks
  <2>1. stray' \in BOOLEAN /\ (stray => stray') BY <1>1 DEF IInv, Typed
  <2> QED BY <1>1, <1>3, <2>1, RefusalKeeps
<1> QED BY <1>2, <1>3 DEF Work, Drops

-----------------------------------------------------------------------------
(* The theorems.                                                           *)

LEMMA NextInv == ASSUME IInv, [Next]_vars PROVE IInv'
<1>1. Typed BY DEF IInv
<1>2. ASSUME NEW r \in Requests, Arrive(r) PROVE IInv' BY <1>2, ArriveKeeps
<1>3. ASSUME NEW r \in Requests, Request(r) PROVE IInv'
  <2>1. CASE Enqueue(r) BY <2>1, EnqueueKeeps
  <2>2. CASE AdoptInsert(r) BY <2>2, AdoptKeeps
  <2>3. CASE \/ CheckName(r) \/ CheckLock(r) \/ CheckActive(r) \/ Probe(r) \/ Mark(r)
             \/ Restore(r) \/ SetLock(r) \/ AdoptScan(r)
    <3>1. Advance(r)
      BY <2>3, NameAdvances, LockAdvances, ActiveAdvances, ProbeAdvances, MarkAdvances,
         RestoreAdvances, ScanAdvances
    <3> QED BY <3>1, AdvanceKeeps
  <2> QED BY <1>3, <2>1, <2>2, <2>3 DEF Request
<1>4. ASSUME NEW i \in DOMAIN tasks, Dispatch(i) \/ LoseAnswer(i) \/ Finish(i) PROVE IInv'
  BY <1>4, DispatchKeeps, LoseKeeps, FinishKeeps
<1>5. ASSUME NEW o \in ops, Work(o) PROVE IInv' BY <1>5, WorkKeeps
<1>6. CASE Look \/ Sync \/ UNCHANGED vars
  <2>1. SameMachine
    <3>1. CASE Look BY <3>1 DEF Look, SameMachine
    <3>2. CASE Sync
      <4>1. StatusOf(scan) \in {"unknown", "running", "stopped"} BY DEF StatusOf
      <4>2. CASE ~Exists BY <3>2, <4>2 DEF Sync, Watched, SameMachine
      <4>3. CASE Exists
        <5>1. row \in RowType BY <1>1, <4>3 DEF Typed, Exists
        <5>2. row' = [row EXCEPT !.present = scan # NoDomain, !.status = StatusOf(scan)]
          BY <3>2, <4>3 DEF Sync, Watched
        <5> QED BY <4>1, <4>3, <5>1, <5>2 DEF SameMachine, RowType
      <4> QED BY <4>2, <4>3
    <3>3. CASE UNCHANGED vars BY <3>3 DEF vars, SameMachine
    <3> QED BY <1>6, <3>1, <3>2, <3>3
  <2>2. scan' \in DomainType
    <3>1. domain \in DomainType /\ scan \in DomainType BY <1>1 DEF Typed
    <3>2. NotSeen \in DomainType BY DEF NotSeen, Nobody, DomainType
    <3>3. scan' = domain \/ scan' = NotSeen \/ scan' = scan BY <1>6 DEF Look, Sync, vars
    <3> QED BY <3>1, <3>2, <3>3
  <2>3. UNCHANGED <<domain, tasks, ops, req, calls, lost, overlap, stray>>
    BY <1>6 DEF Look, Sync, vars
  <2> QED BY <2>1, <2>2, <2>3, ColumnsKeep
<1> QED BY <1>2, <1>3, <1>4, <1>5, <1>6 DEF Next

LEMMA Invariant == Spec => []IInv
<1>1. Init => IInv BY InitInv
<1>2. IInv /\ [Next]_vars => IInv' BY NextInv
<1> QED BY <1>1, <1>2, PTL DEF Spec

\* Every request is at one of its steps, and rows, tasks and operations are of
\* the machines that requests have brought up.
THEOREM LifecycleTypes == Spec => []Typed
<1>1. IInv => Typed BY DEF IInv
<1> QED BY <1>1, Invariant, PTL

\* A row in the list stands for the domain that its own creation made, or that was
\* adopted for it, unless two creations or adoptions of the name overlapped
\* (ensureNameAvailable, the unique index, the refusal of vmCreate).
THEOREM RowsStandForOwn == Spec => []RowsOwnDomains
<1>1. IInv => RowsOwnDomains BY DEF IInv, Births, RowsOwnDomains
<1> QED BY <1>1, Invariant, PTL

\* When the node carries out a deletion that a user asked for and did not force,
\* the machine does not run, unless a start was accepted behind the check of
\* Service.Delete, an answer was lost, or a task outlived the row of its machine.
\* A deletion that a schedule asked for is checked by nothing and spares nothing.
THEOREM CheckedDeletionSpares == Spec => SparesTheRunning
<1> DEFINE Spares ==
        \A o \in ops :
            Work(o) /\ o.kind \in {"delete", "keep"} /\ domain.on => o.unchecked \/ lost > 0 \/ stray'
<1>1. IInv => Spares
  <2> SUFFICES ASSUME IInv, NEW o \in ops, Work(o), o.kind \in {"delete", "keep"}, domain.on,
                      ~o.unchecked, ~(lost > 0), ~stray'
               PROVE  FALSE
    OBVIOUS
  <2>1. lost = 0 BY DEF IInv, Typed
  <2>2. ~stray /\ Mine(o) BY DEF Work, MachineKinds
  <2>3. PICK i \in DOMAIN tasks : tasks[i].no = o.no BY <2>1 DEF IInv, Numbered
  <2>4. /\ tasks[i].st = "running" /\ tasks[i].kind = o.kind /\ tasks[i].vm = o.vm
        /\ tasks[i].unchecked = o.unchecked
    BY <2>3 DEF IInv, Numbered
  <2>5. Quiet(tasks[i].vm) BY <2>1, <2>2, <2>4 DEF IInv, Undisturbed, Plain
  <2> QED BY <2>2, <2>4, <2>5 DEF Quiet, Mine
<1>2. []IInv => [][Spares]_vars BY <1>1, PTL
<1> QED BY <1>2, Invariant, PTL DEF SparesTheRunning

-----------------------------------------------------------------------------
(* Disks: the types, what is under way, and the invariant.                 *)

Acts == {"attach", "detach", "migrate", "start", "poweroff", "bus", "config", "hotadd"}
DiskActs == {"attach", "detach", "migrate"}
Definitions == [D!Keys -> Pools \cup {D!None, 0, 1}]
Places == Pools \cup {D!None}
DiskTask == [no : Nat, act : Acts, file : Files \cup {D!None}, to : Places, hot : BOOLEAN]
Operation ==
    [no : Nat, act : Acts, file : Files \cup {D!None}, to : Places, hot : BOOLEAN,
     pc : {"begin", "apply", "copy", "pivot", "dump", "define"}, running : BOOLEAN,
     from : Pools \cup {D!None, 0, 1}, xml : Definitions]
\* Which disk a task is about, and where it is to go.
About(k) == (k.act \in DiskActs => k.file \in Files) /\ (k.act = "migrate" => k.to \in Pools)

DisksTyped ==
    /\ power \in {"off", "on", "paused"} /\ conf \in Definitions /\ live \in Definitions
    /\ fresh \subseteq exists /\ mirror \in [Files -> Places]
    /\ queue \in Seq(DiskTask) /\ (\A i \in DOMAIN queue : About(queue[i]))
    /\ work \subseteq Operation /\ (\A o \in work : About(o))
    /\ asks \in Nat

Off == power = "off"
\* A disk that is under way from one file to the other.
Copying(f) == \E o \in work : o.act = "migrate" /\ o.file = f /\ o.pc \in {"pivot", "dump", "define"}
Moving(f) == \E o \in work : o.act = "migrate" /\ o.file = f /\ o.pc \in {"dump", "define"}

\* A definition names a file that holds all, also of a guest that goes on writing,
\* and no other file would be attached for it.
Holds(d, f) ==
    d[f] # D!None =>
        /\ <<f, d[f]>> \in fresh
        /\ ~Off /\ live[f] # D!None => live[f] = d[f]
        /\ d[f] # Home /\ <<f, Home>> \in exists => Copying(f)
HomeHolds(f) == <<f, Home>> \in exists => <<f, Home>> \in fresh \/ Moving(f)

OneOperation == \A o, p \in work : o = p
Move(o) ==
    /\ o.pc \in {"copy", "pivot"} => o.act = "migrate"
    /\ o.act = "migrate" /\ o.pc # "begin" =>
        /\ o.pc \in {"copy", "pivot", "dump", "define"}
        /\ o.from # D!None /\ o.from # o.to /\ conf[o.file] = o.from
        /\ ~o.running => Off
        /\ o.pc = "copy" => <<o.file, o.to>> \notin exists
        /\ o.pc # "copy" => (<<o.file, Home>> \in exists => Home \in {o.from, o.to})
        /\ o.pc = "pivot" => o.running
        /\ o.pc = "pivot" /\ ~Off => /\ mirror[o.file] = o.to /\ live[o.file] = o.from
                                     /\ <<o.file, o.to>> \in fresh
        /\ o.pc \in {"dump", "define"} =>
            /\ <<o.file, o.to>> \in fresh
            /\ ~o.running => <<o.file, o.from>> \notin exists
            /\ ~Off => live[o.file] = o.to
        /\ o.pc = "define" => o.xml[o.file] = o.to
Mirrored(f) ==
    mirror[f] # D!None => ~Off /\ \E o \in work : o.act = "migrate" /\ o.file = f /\ o.pc = "pivot" /\ o.to = mirror[f]
Written(o) == o.pc = "define" => \A f \in Files : Holds(o.xml, f)

DisksSafe ==
    /\ OneOperation
    /\ \A f \in Files : HomeHolds(f) /\ Mirrored(f)
    /\ \A f \in Files : (~Moving(f) => Holds(conf, f)) /\ (~Off => Holds(live, f))
    /\ \A o \in work : Move(o) /\ Written(o)

DisksInv == DisksTyped /\ (torn \/ DisksSafe)
-----------------------------------------------------------------------------
(* Disks: types.                                                           *)

LEMMA NamesDiffer ==
    /\ Home \in Pools /\ D!None \notin Pools /\ D!None # Home /\ Files \subseteq D!Keys
    /\ "setting" \in D!Keys /\ "setting" \notin Files
BY DisksParameters DEF D!DisksAssumption, D!Keys

LEMMA CopiedWithin ==
    ASSUME fresh \subseteq exists, NEW f, NEW a, NEW b
    PROVE  D!Copied(fresh, f, a, b) \subseteq D!Copied(exists, f, a, b) /\ D!Moved(fresh, f, a, b) \subseteq D!Moved(exists, f, a, b)
BY DEF D!Copied, D!Moved

LEMMA OnwardTyped ==
    ASSUME work \subseteq Operation, \A o \in work : About(o), NEW o \in work, NEW p \in Operation, About(p), D!Onward(o, p) \/ D!Answer(o)
    PROVE  work' \subseteq Operation /\ \A i \in work' : About(i)
BY DEF D!Onward, D!Answer

LEMMA DisksTypedNext ==
    ASSUME DisksTyped, [D!Next]_D!vars
    PROVE  DisksTyped'
<1> USE NamesDiffer
<1>1. ASSUME NEW a \in D!Asked, D!Request(a) PROVE DisksTyped'
  <2>1. a.act \in Acts /\ a.file \in Files \cup {D!None} /\ a.to \in Places /\ About(a)
    BY DEF D!Asked, Acts, DiskActs, Places, About
  <2>2. asks \in Nat /\ asks' = asks + 1 BY <1>1 DEF DisksTyped, D!Request
  <2>3. PICK k : k = [no |-> asks + 1, act |-> a.act, file |-> a.file, to |-> a.to,
                      hot |-> a.act = "migrate" /\ power = "on"]
    OBVIOUS
  <2>4. k \in DiskTask /\ About(k) BY <2>1, <2>2, <2>3 DEF DiskTask, About
  <2>5. queue' = Append(queue, k) BY <1>1, <2>3 DEF D!Request
  <2>6. queue \in Seq(DiskTask) /\ \A i \in DOMAIN queue : About(queue[i]) BY DEF DisksTyped
  <2>7. /\ queue' \in Seq(DiskTask) /\ Len(queue') = Len(queue) + 1 /\ queue'[Len(queue) + 1] = k
        /\ \A i \in 1 .. Len(queue) : queue'[i] = queue[i]
    BY <2>4, <2>5, <2>6, AppendProperties
  <2>8. Len(queue) \in Nat /\ DOMAIN queue' = 1 .. Len(queue) + 1 /\ DOMAIN queue = 1 .. Len(queue) BY <2>6, <2>7
  <2>9. ASSUME NEW i \in DOMAIN queue' PROVE About(queue'[i])
    <3>1. i \in 1 .. Len(queue) \/ i = Len(queue) + 1 BY <2>8
    <3> QED BY <2>4, <2>6, <2>7, <2>8, <3>1
  <2> QED BY <1>1, <2>2, <2>7, <2>9 DEF DisksTyped, D!Request, About
<1>2. CASE D!Dispatch
  <2>1. queue # <<>> /\ queue \in Seq(DiskTask) BY <1>2 DEF D!Dispatch, DisksTyped
  <2>2. Len(queue) \in Nat /\ Len(queue) # 0 /\ DOMAIN queue = 1 .. Len(queue) BY <2>1, EmptySeq
  <2>3. PICK t : t = queue[1] OBVIOUS
  <2>4. Head(queue) = t /\ t \in DiskTask /\ About(t) BY <2>1, <2>2, <2>3 DEF DisksTyped
  <2>5. Tail(queue) \in Seq(DiskTask) /\ \A i \in DOMAIN Tail(queue) : About(Tail(queue)[i])
    <3>1. /\ Tail(queue) \in Seq(DiskTask) /\ Len(Tail(queue)) = Len(queue) - 1
          /\ \A i \in 1 .. Len(queue) - 1 : Tail(queue)[i] = queue[i + 1]
      BY <2>1, <2>2, HeadTailProperties
    <3>2. DOMAIN Tail(queue) = 1 .. Len(queue) - 1 BY <3>1
    <3>3. \A i \in 1 .. Len(queue) - 1 : i + 1 \in DOMAIN queue BY <2>2
    <3> QED BY <3>1, <3>2, <3>3 DEF DisksTyped
  <2>6. PICK o : o = [no |-> t.no, act |-> t.act, file |-> t.file, to |-> t.to, hot |-> t.hot, pc |-> "begin",
                      running |-> FALSE, from |-> D!None, xml |-> D!NoDefinition]
    OBVIOUS
  <2>7. D!NoDefinition \in Definitions BY DEF D!NoDefinition, Definitions
  <2>8. o \in Operation /\ About(o) BY <2>4, <2>6, <2>7 DEF DiskTask, Operation, About
  <2>9. queue' = Tail(queue) /\ work' = work \cup {o} BY <1>2, <2>4, <2>6 DEF D!Dispatch
  <2> QED BY <1>2, <2>5, <2>8, <2>9 DEF DisksTyped, D!Dispatch, About
<1>3. CASE D!LoseAnswer \/ UNCHANGED D!vars BY <1>3 DEF D!LoseAnswer, D!vars, DisksTyped, About
<1>4. ASSUME NEW o \in work, D!Step(o) PROVE DisksTyped'
  <2>1. o \in Operation /\ About(o) BY DEF DisksTyped
  <2>2. /\ power \in {"off", "on", "paused"} /\ conf \in Definitions /\ live \in Definitions
        /\ fresh \subseteq exists /\ mirror \in [Files -> Places]
        /\ work \subseteq Operation /\ (\A i \in work : About(i))
    BY DEF DisksTyped
  <2>3. queue' = queue /\ asks' = asks
    BY <1>4 DEF D!Step, D!Begin, D!Apply, D!PowerOp, D!BlockCopy, D!Pivot, D!MoveFile, D!Dump, D!Define
  <2>5. \A xml \in Definitions : \A n : n = [o EXCEPT !.pc = "define", !.xml = xml] => n \in Operation /\ About(n)
    BY <2>1 DEF Operation, About
  <2>6. SUFFICES /\ power' \in {"off", "on", "paused"} /\ conf' \in Definitions /\ live' \in Definitions
                 /\ fresh' \subseteq exists' /\ mirror' \in [Files -> Places]
                 /\ \E p \in Operation : About(p) /\ (D!Onward(o, p) \/ D!Answer(o))
    <3>1. work' \subseteq Operation /\ \A i \in work' : About(i) BY <2>2, <2>6, OnwardTyped
    <3>2. \A i \in DOMAIN queue' : About(queue'[i]) BY <2>3 DEF DisksTyped
    <3> QED BY <2>3, <2>6, <3>1, <3>2 DEF DisksTyped, About
  <2>7. CASE D!Begin(o)
    <3>1. UNCHANGED <<power, conf, live, exists, fresh, mirror>> BY <2>7 DEF D!Begin
    <3>2. D!Running(o) \in BOOLEAN /\ o.from \in Pools \cup {D!None, 0, 1} BY <2>1 DEF D!Running, Operation
    <3>3. o.act = "migrate" => conf[o.file] \in Pools \cup {D!None, 0, 1}
      BY <2>1, <2>2 DEF About, DiskActs, Definitions
    <3>4. CASE D!Answer(o) BY <2>1, <2>2, <3>1, <3>4
    <3>5. CASE \E p : D!Onward(o, p) /\ ((o.act = "migrate" /\ p = [[o EXCEPT !.running = D!Running(o)] EXCEPT !.from = conf[o.file], !.pc = "copy"])
                          \/ p = [[o EXCEPT !.running = D!Running(o)] EXCEPT !.pc = "dump"]
                          \/ p = [[o EXCEPT !.running = D!Running(o)] EXCEPT !.pc = "apply"])
      <4>1. PICK p : D!Onward(o, p) /\ ((o.act = "migrate" /\ p = [[o EXCEPT !.running = D!Running(o)] EXCEPT !.from = conf[o.file], !.pc = "copy"])
                          \/ p = [[o EXCEPT !.running = D!Running(o)] EXCEPT !.pc = "dump"]
                          \/ p = [[o EXCEPT !.running = D!Running(o)] EXCEPT !.pc = "apply"])
        BY <3>5
      <4>2. p \in Operation /\ About(p) BY <2>1, <3>2, <3>3, <4>1 DEF Operation, About
      <4> QED BY <2>2, <3>1, <4>1, <4>2
    <3> QED BY <2>7, <3>4, <3>5 DEF D!Begin
  <2>8. CASE D!Apply(o)
    <3>1. D!Answer(o) /\ UNCHANGED <<power, exists, fresh, mirror>> BY <2>8 DEF D!Apply
    <3>2. D!Key(o) \in D!Keys /\ D!Value(o) \in Pools \cup {D!None, 0, 1}
      BY <2>1, <2>8 DEF D!Apply, D!Key, D!Value, About, DiskActs
    <3>3. conf' \in Definitions /\ live' \in Definitions BY <2>2, <2>8, <3>2 DEF D!Apply, Definitions
    <3> QED BY <2>1, <2>2, <3>1, <3>3
  <2>9. CASE D!PowerOp(o)
    <3>1. D!Answer(o) /\ UNCHANGED <<conf, exists, fresh>> BY <2>9 DEF D!PowerOp
    <3>2. D!NoDefinition \in Definitions /\ [f \in Files |-> D!None] \in [Files -> Places]
      BY DEF D!NoDefinition, Definitions, Places
    <3>3. power' \in {"off", "on", "paused"} /\ live' \in Definitions /\ mirror' \in [Files -> Places]
      BY <2>2, <2>9, <3>2 DEF D!PowerOp, D!Stop
    <3> QED BY <2>1, <2>2, <3>1, <3>3
  <2>10. CASE D!BlockCopy(o)
    <3>1. UNCHANGED <<power, conf, live>> BY <2>10 DEF D!BlockCopy
    <3>2. CASE D!Answer(o) /\ UNCHANGED <<exists, fresh, mirror>> BY <2>1, <2>2, <3>1, <3>2
    <3>3. CASE /\ exists' = D!Copied(exists, o.file, o.from, o.to) /\ fresh' = D!Copied(fresh, o.file, o.from, o.to)
               /\ mirror' = [mirror EXCEPT ![o.file] = o.to] /\ D!Onward(o, [o EXCEPT !.pc = "pivot"])
      <4>1. PICK p : p = [o EXCEPT !.pc = "pivot"] OBVIOUS
      <4>2. p \in Operation /\ About(p) BY <2>1, <4>1 DEF Operation, About
      <4>3. o.to \in Places BY <2>1 DEF Operation
      <4>4. mirror' \in [Files -> Places] BY <2>2, <3>3, <4>3
      <4>5. fresh' \subseteq exists' BY <2>2, <3>3, CopiedWithin
      <4> QED BY <2>2, <3>1, <3>3, <4>1, <4>2, <4>4, <4>5
    <3> QED BY <2>10, <3>2, <3>3 DEF D!BlockCopy
  <2>11. CASE D!Pivot(o)
    <3>1. UNCHANGED <<power, conf, exists, fresh>> BY <2>11 DEF D!Pivot
    <3>2. CASE D!Answer(o) /\ UNCHANGED <<live, mirror>> BY <2>1, <2>2, <3>1, <3>2
    <3>3. CASE /\ live' = [live EXCEPT ![o.file] = o.to] /\ mirror' = [mirror EXCEPT ![o.file] = D!None]
               /\ D!Onward(o, [o EXCEPT !.pc = "dump"])
      <4>1. PICK p : p = [o EXCEPT !.pc = "dump"] OBVIOUS
      <4>2. p \in Operation /\ About(p) BY <2>1, <4>1 DEF Operation, About
      <4>3. o.to \in Places BY <2>1 DEF Operation
      <4>4. live' \in Definitions /\ mirror' \in [Files -> Places] BY <2>2, <3>3, <4>3 DEF Definitions, Places
      <4> QED BY <2>2, <3>1, <3>3, <4>1, <4>2, <4>4
    <3> QED BY <2>11, <3>2, <3>3 DEF D!Pivot
  <2>12. CASE D!MoveFile(o)
    <3>1. UNCHANGED <<power, conf, live, mirror>> BY <2>12 DEF D!MoveFile
    <3>2. CASE D!Answer(o) /\ UNCHANGED <<exists, fresh>> BY <2>1, <2>2, <3>1, <3>2
    <3>3. CASE /\ exists' = D!Moved(exists, o.file, o.from, o.to) /\ fresh' = D!Moved(fresh, o.file, o.from, o.to)
               /\ D!Onward(o, [o EXCEPT !.pc = "dump"])
      <4>1. PICK p : p = [o EXCEPT !.pc = "dump"] OBVIOUS
      <4>2. p \in Operation /\ About(p) BY <2>1, <4>1 DEF Operation, About
      <4>3. fresh' \subseteq exists' BY <2>2, <3>3, CopiedWithin
      <4> QED BY <2>2, <3>1, <3>3, <4>1, <4>2, <4>3
    <3> QED BY <2>12, <3>2, <3>3 DEF D!MoveFile
  <2>13. CASE D!Dump(o)
    <3>1. UNCHANGED <<power, conf, live, mirror>> BY <2>13 DEF D!Dump
    <3>2. D!MoveBack(o) => fresh' \subseteq exists' BY <2>2, CopiedWithin DEF D!MoveBack
    <3>3. CASE D!Answer(o) /\ D!MoveBack(o) BY <2>1, <2>2, <3>1, <3>2, <3>3
    <3>4. CASE \E xml \in Definitions : D!Onward(o, [o EXCEPT !.pc = "define", !.xml = xml]) /\ UNCHANGED <<exists, fresh>>
      <4>1. PICK xml \in Definitions : D!Onward(o, [o EXCEPT !.pc = "define", !.xml = xml]) /\ UNCHANGED <<exists, fresh>>
        BY <3>4
      <4>2. PICK p : p = [o EXCEPT !.pc = "define", !.xml = xml] OBVIOUS
      <4>3. p \in Operation /\ About(p) BY <2>5, <4>2
      <4> QED BY <2>2, <3>1, <4>1, <4>2, <4>3
    <3>5. PICK base : base = IF o.act = "migrate" /\ o.running THEN D!Live ELSE conf OBVIOUS
    <3>6. base \in Definitions BY <2>2, <3>5 DEF D!Live
    <3>7. o.act = "migrate" => [base EXCEPT ![o.file] = o.to] \in Definitions
      BY <2>1, <3>6 DEF Definitions, About, DiskActs
    <3>8. [base EXCEPT !["setting"] = 1] \in Definitions BY <3>6 DEF Definitions
    <3>9. \/ D!Answer(o) /\ D!MoveBack(o)
          \/ D!Answer(o) /\ UNCHANGED <<exists, fresh>>
          \/ /\ D!Onward(o, [o EXCEPT !.pc = "define", !.xml = IF o.act = "migrate" THEN [base EXCEPT ![o.file] = o.to]
                                                             ELSE [base EXCEPT !["setting"] = 1]])
             /\ UNCHANGED <<exists, fresh>>
      BY <2>13, <3>5 DEF D!Dump
    <3>10. CASE D!Answer(o) /\ UNCHANGED <<exists, fresh>> BY <2>1, <2>2, <3>1, <3>10
    <3> QED BY <3>3, <3>4, <3>7, <3>8, <3>9, <3>10
  <2>14. CASE D!Define(o)
    <3>1. D!Answer(o) /\ UNCHANGED <<power, live, mirror>> BY <2>14 DEF D!Define
    <3>2. D!MoveBack(o) => fresh' \subseteq exists' BY <2>2, CopiedWithin DEF D!MoveBack
    <3>3. o.xml \in Definitions BY <2>1 DEF Operation
    <3>4. conf' \in Definitions /\ fresh' \subseteq exists' BY <2>2, <2>14, <3>2, <3>3 DEF D!Define
    <3> QED BY <2>1, <2>2, <3>1, <3>4
  <2> QED BY <1>4, <2>7, <2>8, <2>9, <2>10, <2>11, <2>12, <2>13, <2>14 DEF D!Step
<1>5. ASSUME NEW f \in Files, D!Write(f) PROVE DisksTyped'
  <2>1. fresh' \subseteq exists' BY <1>5 DEF D!Write, DisksTyped
  <2> QED BY <1>5, <2>1 DEF D!Write, DisksTyped, About
<1>6. CASE D!ShutDown
  <2>1. D!NoDefinition \in Definitions /\ [f \in Files |-> D!None] \in [Files -> Places]
    BY DEF D!NoDefinition, Definitions, Places
  <2> QED BY <1>6, <2>1 DEF D!ShutDown, D!Stop, DisksTyped, About
<1>7. CASE D!Pause \/ D!Resume BY <1>7 DEF D!Pause, D!Resume, DisksTyped, About
<1> QED BY <1>1, <1>2, <1>3, <1>4, <1>5, <1>6, <1>7 DEF D!Next
-----------------------------------------------------------------------------
(* Disks: one operation at a time, and what it may do to each disk.        *)

LEMMA CopyingBy ==
    ASSUME NEW o, work = {o}, NEW f
    PROVE  /\ Copying(f) <=> (o.act = "migrate" /\ o.file = f /\ o.pc \in {"pivot", "dump", "define"})
           /\ Moving(f) <=> (o.act = "migrate" /\ o.file = f /\ o.pc \in {"dump", "define"})
           /\ Mirrored(f) <=> (mirror[f] # D!None =>
                ~Off /\ o.act = "migrate" /\ o.file = f /\ o.pc = "pivot" /\ o.to = mirror[f])
BY DEF Copying, Moving, Mirrored

LEMMA CopyingNext ==
    ASSUME NEW p, work' = {p}, NEW f
    PROVE  /\ Copying(f)' <=> (p.act = "migrate" /\ p.file = f /\ p.pc \in {"pivot", "dump", "define"})
           /\ Moving(f)' <=> (p.act = "migrate" /\ p.file = f /\ p.pc \in {"dump", "define"})
           /\ Mirrored(f)' <=> (mirror'[f] # D!None =>
                ~Off' /\ p.act = "migrate" /\ p.file = f /\ p.pc = "pivot" /\ p.to = mirror'[f])
BY DEF Copying, Moving, Mirrored, Off

LEMMA OnlyOne ==
    ASSUME OneOperation, NEW o \in work
    PROVE  /\ work = {o}
           /\ D!Answer(o) => work' = {}
           /\ \A p : D!Onward(o, p) => work' = {p}
BY DEF OneOperation, D!Answer, D!Onward

\* When the node is done, nothing is under way.
LEMMA DoneSafe ==
    ASSUME work' = {}, NEW d, d = conf',
           \A f \in Files :
             /\ mirror'[f] = D!None
             /\ <<f, Home>> \in exists' => <<f, Home>> \in fresh'
             /\ d[f] # D!None =>
                  /\ <<f, d[f]>> \in fresh'
                  /\ ~Off' /\ live'[f] # D!None => live'[f] = d[f]
                  /\ d[f] # Home => <<f, Home>> \notin exists'
             /\ ~Off' /\ live'[f] # D!None =>
                  /\ <<f, live'[f]>> \in fresh'
                  /\ live'[f] # Home => <<f, Home>> \notin exists'
    PROVE  DisksSafe'
<1>1. OneOperation' BY DEF OneOperation
<1>2. \A f \in Files : HomeHolds(f)' /\ Mirrored(f)' BY DEF HomeHolds, Mirrored
<1>3. \A f \in Files : Holds(conf, f)' BY DEF Holds, Off
<1>4. ~Off' => \A f \in Files : Holds(live, f)' BY DEF Holds, Off
<1> QED BY <1>1, <1>2, <1>3, <1>4 DEF DisksSafe

\* Nothing is under way before an operation begins to copy.
LEMMA CalmSafe ==
    ASSUME DisksSafe, \A f \in Files : ~Copying(f), NEW f \in Files
    PROVE  /\ ~Moving(f) /\ mirror[f] = D!None
           /\ <<f, Home>> \in exists => <<f, Home>> \in fresh
           /\ conf[f] # D!None =>
                /\ <<f, conf[f]>> \in fresh
                /\ ~Off /\ live[f] # D!None => live[f] = conf[f]
                /\ conf[f] # Home => <<f, Home>> \notin exists
           /\ ~Off /\ live[f] # D!None =>
                /\ <<f, live[f]>> \in fresh
                /\ live[f] # Home => <<f, Home>> \notin exists
<1>1. ~Moving(f) BY DEF Moving, Copying
<1>2. mirror[f] = D!None BY DEF DisksSafe, Mirrored, Copying
<1> QED BY <1>1, <1>2 DEF DisksSafe, HomeHolds, Holds

-----------------------------------------------------------------------------
(* Disks: each action keeps them safe.                                     *)

LEMMA DisksFrame ==
    ASSUME DisksSafe, UNCHANGED <<conf, live, exists, fresh, mirror, work>>, Off' = Off
    PROVE  DisksSafe'
BY DEF DisksSafe, OneOperation, HomeHolds, Mirrored, Holds, Copying, Moving, Move, Written, Off

LEMMA DispatchSafe ==
    ASSUME DisksTyped, DisksSafe, D!Dispatch, ~torn'
    PROVE  DisksSafe'
<1>1. work = {} BY DEF D!Dispatch
<1>2. PICK p : work' = {p} /\ p.pc = "begin"
  <2>1. PICK t : t = Head(queue) OBVIOUS
  <2>2. PICK p : p = [no |-> t.no, act |-> t.act, file |-> t.file, to |-> t.to, hot |-> t.hot, pc |-> "begin",
                      running |-> FALSE, from |-> D!None, xml |-> D!NoDefinition]
    OBVIOUS
  <2>3. work' = work \cup {p} BY <2>1, <2>2 DEF D!Dispatch
  <2>4. work' = {p} /\ p.pc = "begin" BY <1>1, <2>2, <2>3
  <2> QED BY <2>4
<1>3. UNCHANGED <<power, conf, live, exists, fresh, mirror>> BY DEF D!Dispatch
<1>4. \A f \in Files : ~Copying(f) BY <1>1 DEF Copying
<1>5. OneOperation' /\ Move(p)' /\ Written(p)' BY <1>2 DEF OneOperation, Move, Written
<1>6. ASSUME NEW f \in Files
      PROVE  HomeHolds(f)' /\ Mirrored(f)' /\ Holds(conf, f)' /\ (~Off' => Holds(live, f)')
  <2>1. ~Copying(f)' /\ ~Moving(f)' BY <1>2, CopyingNext
  <2> QED BY <1>3, <1>4, <2>1, CalmSafe DEF HomeHolds, Mirrored, Holds, Off
<1> QED BY <1>2, <1>5, <1>6 DEF DisksSafe

LEMMA BeginSafe ==
    ASSUME DisksTyped, DisksSafe, NEW o \in work, D!Begin(o), ~torn'
    PROVE  DisksSafe'
<1>1. /\ work = {o} /\ (D!Answer(o) => work' = {}) /\ (\A p : D!Onward(o, p) => work' = {p})
  BY OnlyOne DEF DisksSafe
<1>2. o.pc = "begin" /\ UNCHANGED <<power, conf, live, exists, fresh, mirror>> BY DEF D!Begin, D!At
<1>3. \A f \in Files : ~Copying(f) BY <1>1, <1>2, CopyingBy
<1>4. CASE D!Answer(o) BY <1>1, <1>2, <1>3, <1>4, CalmSafe, DoneSafe DEF Off
<1>5. ASSUME NEW p, work' = {p}, p.pc \notin {"pivot", "define"}, p.act = "migrate" => p.pc = "copy", Move(p)'
      PROVE  DisksSafe'
  <2>1. OneOperation' /\ Written(p)' BY <1>5 DEF OneOperation, Written
  <2>2. ASSUME NEW f \in Files
        PROVE  HomeHolds(f)' /\ Mirrored(f)' /\ Holds(conf, f)' /\ (~Off' => Holds(live, f)')
    <3>1. ~Copying(f)' /\ ~Moving(f)' BY <1>5, CopyingNext
    <3> QED BY <1>2, <1>3, <3>1, CalmSafe DEF HomeHolds, Mirrored, Holds, Off
  <2> QED BY <1>5, <2>1, <2>2 DEF DisksSafe
<1>6. o \in Operation /\ About(o) BY DEF DisksTyped
<1>7. CASE o.act = "migrate" /\ ~D!MoveRefused(o)
  <2>1. PICK p : p = [[o EXCEPT !.running = D!Running(o)] EXCEPT !.from = conf[o.file], !.pc = "copy"] OBVIOUS
  <2>2. D!Onward(o, p) BY <1>7, <2>1 DEF D!Begin
  <2>3. /\ p.act = "migrate" /\ p.pc = "copy" /\ p.file = o.file /\ p.to = o.to /\ p.from = conf[o.file]
        /\ p.running = (power = "on")
    BY <1>6, <1>7, <2>1 DEF Operation, D!Running
  <2>4. power # "paused" BY <1>7 DEF D!Begin
  <2>5. ~p.running => power = "off" BY <2>3, <2>4 DEF DisksTyped
  <2>6. conf[o.file] # D!None /\ conf[o.file] # o.to /\ <<o.file, o.to>> \notin exists BY <1>7 DEF D!MoveRefused
  <2>7. Move(p)' BY <1>2, <2>3, <2>5, <2>6 DEF Move, Off
  <2> QED BY <1>1, <1>5, <2>2, <2>3, <2>7
<1>8. CASE o.act # "migrate"
  <2>1. \A p : p = [[o EXCEPT !.running = D!Running(o)] EXCEPT !.pc = "dump"]
               => p.act = o.act /\ p.pc = "dump"
    BY <1>6 DEF Operation
  <2>2. \A p : p = [[o EXCEPT !.running = D!Running(o)] EXCEPT !.pc = "apply"]
               => p.act = o.act /\ p.pc = "apply"
    BY <1>6 DEF Operation
  <2>3. \/ D!Answer(o)
        \/ D!Onward(o, [[o EXCEPT !.running = D!Running(o)] EXCEPT !.pc = "dump"])
        \/ D!Onward(o, [[o EXCEPT !.running = D!Running(o)] EXCEPT !.pc = "apply"])
    BY <1>8 DEF D!Begin
  <2>4. \A p : p.act # "migrate" /\ p.pc \in {"dump", "apply"} => Move(p)' BY DEF Move
  <2>5. D!Answer(o) \/ \E p : D!Onward(o, p) /\ p.act # "migrate" /\ p.pc \in {"dump", "apply"}
    BY <1>8, <2>1, <2>2, <2>3
  <2> QED BY <1>1, <1>4, <1>5, <2>4, <2>5
<1>9. CASE o.act = "migrate" /\ D!MoveRefused(o) BY <1>4, <1>9 DEF D!Begin
<1> QED BY <1>7, <1>8, <1>9

LEMMA ApplySafe ==
    ASSUME DisksTyped, DisksSafe, NEW o \in work, D!Apply(o), ~torn'
    PROVE  DisksSafe'
<1> USE NamesDiffer
<1>1. work = {o} /\ work' = {} BY OnlyOne DEF DisksSafe, D!Apply
<1>2. o.act \in {"attach", "detach", "hotadd"} /\ UNCHANGED <<power, exists, fresh, mirror>> BY DEF D!Apply
<1>3. \A f \in Files : ~Copying(f) BY <1>1, <1>2, CopyingBy
<1>4. About(o) /\ conf \in Definitions /\ live \in Definitions BY DEF DisksTyped
<1>5. SUFFICES ASSUME NEW f \in Files
               PROVE  /\ conf'[f] # D!None =>
                           /\ <<f, conf'[f]>> \in fresh
                           /\ ~Off /\ live'[f] # D!None => live'[f] = conf'[f]
                           /\ conf'[f] # Home => <<f, Home>> \notin exists
                      /\ ~Off /\ live'[f] # D!None =>
                           /\ <<f, live'[f]>> \in fresh
                           /\ live'[f] # Home => <<f, Home>> \notin exists
  BY <1>1, <1>2, <1>3, <1>5, CalmSafe, DoneSafe DEF Off
<1>6. /\ <<f, Home>> \in exists => <<f, Home>> \in fresh
      /\ conf[f] # D!None =>
           /\ <<f, conf[f]>> \in fresh
           /\ ~Off /\ live[f] # D!None => live[f] = conf[f]
           /\ conf[f] # Home => <<f, Home>> \notin exists
      /\ ~Off /\ live[f] # D!None =>
           /\ <<f, live[f]>> \in fresh
           /\ live[f] # Home => <<f, Home>> \notin exists
  BY <1>3, CalmSafe
<1>7. CASE UNCHANGED <<conf, live>> BY <1>6, <1>7
<1>8. PICK k, v : k = D!Key(o) /\ v = D!Value(o) OBVIOUS
<1>9. CASE D!CanApply(o) /\ conf' = [conf EXCEPT ![k] = v] /\ (live' = live \/ live' = [live EXCEPT ![k] = v])
  <2>1. CASE f # k
    <3>1. conf'[f] = conf[f] /\ live'[f] = live[f] BY <1>4, <1>9, <2>1 DEF Definitions
    <3> QED BY <1>6, <3>1
  <2>2. CASE f = k
    <3>1. conf'[f] = v /\ (live'[f] = live[f] \/ live'[f] = v) BY <1>4, <1>9, <2>2 DEF Definitions
    <3>2. o.act # "hotadd" /\ f = o.file BY <1>8, <2>2 DEF D!Key
    <3>3. CASE o.act = "attach"
      <4>1. v = Home /\ <<f, Home>> \in exists BY <1>8, <1>9, <3>2, <3>3 DEF D!CanApply, D!Value
      <4> QED BY <1>6, <3>1, <4>1
    <3>4. CASE o.act = "detach"
      <4>1. v = D!None BY <1>8, <3>4 DEF D!Value
      <4> QED BY <1>6, <3>1, <4>1
    <3> QED BY <1>2, <3>2, <3>3, <3>4
  <2> QED BY <2>1, <2>2
<1> QED BY <1>7, <1>8, <1>9 DEF D!Apply

LEMMA PowerSafe ==
    ASSUME DisksTyped, DisksSafe, NEW o \in work, D!PowerOp(o), ~torn'
    PROVE  DisksSafe'
<1>1. work = {o} /\ work' = {} BY OnlyOne DEF DisksSafe, D!PowerOp
<1>2. o.act \in {"start", "poweroff"} /\ UNCHANGED <<conf, exists, fresh>> BY DEF D!PowerOp
<1>3. \A f \in Files : ~Copying(f) BY <1>1, <1>2, CopyingBy
<1>4. CASE power' = "on" /\ live' = conf /\ UNCHANGED mirror
  BY <1>1, <1>2, <1>3, <1>4, CalmSafe, DoneSafe DEF Off
<1>5. CASE D!Stop BY <1>1, <1>2, <1>3, <1>5, CalmSafe, DoneSafe DEF Off, D!Stop
<1>6. CASE UNCHANGED <<power, live, mirror>> BY <1>1, <1>2, <1>3, <1>6, CalmSafe, DoneSafe DEF Off
<1> QED BY <1>4, <1>5, <1>6 DEF D!PowerOp

LEMMA BlockCopySafe ==
    ASSUME DisksTyped, DisksSafe, NEW o \in work, D!BlockCopy(o), ~torn'
    PROVE  DisksSafe'
<1> USE NamesDiffer
<1>1. work = {o} /\ (D!Answer(o) => work' = {}) /\ (\A p : D!Onward(o, p) => work' = {p}) BY OnlyOne DEF DisksSafe
<1>2. o.pc = "copy" /\ o.running /\ UNCHANGED <<power, conf, live>> BY DEF D!BlockCopy, D!At
<1>3. \A f \in Files : ~Copying(f) BY <1>1, <1>2, CopyingBy
<1>4. CASE D!Answer(o) /\ UNCHANGED <<exists, fresh, mirror>> BY <1>1, <1>2, <1>3, <1>4, CalmSafe, DoneSafe DEF Off
<1>5. CASE /\ power # "off" /\ live[o.file] = o.from
           /\ exists' = D!Copied(exists, o.file, o.from, o.to) /\ fresh' = D!Copied(fresh, o.file, o.from, o.to)
           /\ mirror' = [mirror EXCEPT ![o.file] = o.to] /\ D!Onward(o, [o EXCEPT !.pc = "pivot"])
  <2>1. o \in Operation /\ About(o) /\ Move(o) BY DEF DisksTyped, DisksSafe
  <2>2. PICK p : p = [o EXCEPT !.pc = "pivot"] OBVIOUS
  <2>3. /\ p.pc = "pivot" /\ p.act = o.act /\ p.file = o.file /\ p.to = o.to /\ p.from = o.from
        /\ p.running = o.running
    BY <2>1, <2>2 DEF Operation
  <2>4. work' = {p} BY <1>1, <1>5, <2>2
  <2>5. o.act = "migrate" /\ o.file \in Files /\ o.to \in Pools BY <1>2, <2>1 DEF Move, About, DiskActs
  <2>6. /\ o.from # D!None /\ o.from # o.to /\ conf[o.file] = o.from /\ <<o.file, o.to>> \notin exists
    BY <1>2, <2>1, <2>5 DEF Move
  <2>7. <<o.file, o.from>> \in fresh /\ (o.from # Home => <<o.file, Home>> \notin exists)
    BY <1>3, <2>5, <2>6, CalmSafe
  <2>8. <<o.file, o.from>> \in exists BY <2>7 DEF DisksTyped
  <2>9. exists' = exists \cup {<<o.file, o.to>>} /\ fresh' = fresh \cup {<<o.file, o.to>>}
    BY <1>5, <2>7, <2>8 DEF D!Copied
  <2>10. /\ mirror'[o.file] = o.to
         /\ \A f \in Files : f # o.file => mirror'[f] = mirror[f]
    BY <1>5, <2>5 DEF DisksTyped
  <2>11. Move(p)'
    <3>1. <<p.file, Home>> \in exists' => Home \in {p.from, p.to} BY <2>3, <2>7, <2>9
    <3> QED BY <1>2, <1>5, <2>3, <2>5, <2>6, <2>9, <2>10, <3>1 DEF Move, Off
  <2>12. OneOperation' /\ Written(p)' BY <2>3, <2>4 DEF OneOperation, Written
  <2>13. ASSUME NEW f \in Files
         PROVE  HomeHolds(f)' /\ Mirrored(f)' /\ Holds(conf, f)' /\ (~Off' => Holds(live, f)')
    <3>1. (Copying(f)' <=> f = o.file) /\ ~Moving(f)' BY <2>3, <2>4, <2>5, CopyingNext
    <3>2. Mirrored(f)' <=> (mirror'[f] # D!None => ~Off' /\ o.file = f /\ o.to = mirror'[f])
      BY <2>3, <2>4, <2>5, CopyingNext
    <3>3. Mirrored(f)' BY <1>2, <1>3, <1>5, <2>10, <3>2, CalmSafe DEF Off
    <3>4. HomeHolds(f)' BY <1>3, <2>9, CalmSafe DEF HomeHolds
    <3>5. f # o.file => (<<f, Home>> \in exists' <=> <<f, Home>> \in exists) BY <2>9
    <3>6. fresh \subseteq fresh' BY <2>9
    <3>7. Holds(conf, f)' BY <1>2, <1>3, <3>1, <3>5, <3>6, CalmSafe DEF Holds, Off
    <3>8. ~Off' => Holds(live, f)' BY <1>2, <1>3, <3>1, <3>5, <3>6, CalmSafe DEF Holds, Off
    <3> QED BY <3>3, <3>4, <3>7, <3>8
  <2> QED BY <2>4, <2>11, <2>12, <2>13 DEF DisksSafe
<1> QED BY <1>4, <1>5 DEF D!BlockCopy

LEMMA PivotSafe ==
    ASSUME DisksTyped, DisksSafe, NEW o \in work, D!Pivot(o), ~torn'
    PROVE  DisksSafe'
<1> USE NamesDiffer
<1>1. work = {o} /\ (D!Answer(o) => work' = {}) /\ (\A p : D!Onward(o, p) => work' = {p}) BY OnlyOne DEF DisksSafe
<1>2. o.pc = "pivot" /\ UNCHANGED <<power, conf, exists, fresh>> BY DEF D!Pivot, D!At
<1>3. o \in Operation /\ About(o) /\ Move(o) BY DEF DisksTyped, DisksSafe
<1>4. o.act = "migrate" /\ o.file \in Files /\ o.to \in Pools BY <1>2, <1>3 DEF Move, About, DiskActs
<1>5. /\ o.from # D!None /\ o.from # o.to /\ conf[o.file] = o.from /\ o.running
      /\ <<o.file, Home>> \in exists => Home \in {o.from, o.to}
      /\ ~Off => /\ mirror[o.file] = o.to /\ live[o.file] = o.from
                 /\ <<o.file, o.to>> \in fresh
  BY <1>2, <1>3, <1>4 DEF Move
<1>6. \A f \in Files : ~Moving(f) /\ (Copying(f) <=> f = o.file) BY <1>1, <1>2, <1>4, CopyingBy
<1>7. \A f \in Files : mirror[f] # D!None => ~Off /\ f = o.file
  BY <1>1, CopyingBy DEF DisksSafe
<1>8. ASSUME NEW f \in Files
      PROVE  /\ <<f, Home>> \in exists => <<f, Home>> \in fresh
             /\ Holds(conf, f) /\ (~Off => Holds(live, f))
  BY <1>6 DEF DisksSafe, HomeHolds
<1>9. CASE /\ mirror[o.file] = o.to
           /\ live' = [live EXCEPT ![o.file] = o.to] /\ mirror' = [mirror EXCEPT ![o.file] = D!None]
           /\ D!Onward(o, [o EXCEPT !.pc = "dump"])
  <2>1. PICK p : p = [o EXCEPT !.pc = "dump"] OBVIOUS
  <2>2. /\ p.pc = "dump" /\ p.act = o.act /\ p.file = o.file /\ p.to = o.to /\ p.from = o.from
        /\ p.running = o.running
    BY <1>3, <2>1 DEF Operation
  <2>3. work' = {p} BY <1>1, <1>9, <2>1
  <2>4. ~Off BY <1>4, <1>7, <1>9
  <2>5. /\ mirror'[o.file] = D!None /\ live'[o.file] = o.to
        /\ \A f \in Files : f # o.file => mirror'[f] = mirror[f] /\ live'[f] = live[f]
    BY <1>4, <1>9 DEF DisksTyped, Definitions
  <2>6. Move(p)' BY <1>2, <1>4, <1>5, <2>2, <2>4, <2>5 DEF Move
  <2>7. OneOperation' /\ Written(p)' BY <2>2, <2>3 DEF OneOperation, Written
  <2>8. ASSUME NEW f \in Files
        PROVE  HomeHolds(f)' /\ Mirrored(f)' /\ (~Moving(f)' => Holds(conf, f)') /\ (~Off' => Holds(live, f)')
    <3>1. (Copying(f)' <=> f = o.file) /\ (Moving(f)' <=> f = o.file) BY <1>4, <2>2, <2>3, CopyingNext
    <3>2. mirror'[f] = D!None BY <1>7, <2>5
    <3>3. Mirrored(f)' BY <3>2 DEF Mirrored
    <3>4. HomeHolds(f)' BY <1>2, <1>8 DEF HomeHolds
    <3>5. ~Moving(f)' => Holds(conf, f)' BY <1>2, <1>6, <1>8, <2>5, <3>1 DEF Holds, Off
    <3>6. CASE f = o.file
      <4>1. live'[f] = o.to /\ <<f, o.to>> \in fresh' /\ Copying(f)' BY <1>2, <1>5, <2>4, <2>5, <3>1, <3>6
      <4>2. Holds(live, f)' BY <4>1 DEF Holds
      <4> QED BY <3>3, <3>4, <3>5, <4>2
    <3>7. CASE f # o.file
      <4>1. Holds(live, f)' BY <1>2, <1>6, <1>8, <2>4, <2>5, <3>1, <3>7 DEF Holds, Off
      <4> QED BY <3>3, <3>4, <3>5, <4>1
    <3> QED BY <3>6, <3>7
  <2> QED BY <2>3, <2>6, <2>7, <2>8 DEF DisksSafe
<1>10. CASE /\ mirror[o.file] # o.to /\ D!Answer(o) /\ torn' = (torn \/ o.to = Home)
            /\ UNCHANGED <<live, mirror>>
  <2>1. o.to # Home /\ Off /\ work' = {} BY <1>1, <1>5, <1>10
  <2>2. ASSUME NEW f \in Files
        PROVE  /\ mirror'[f] = D!None
               /\ <<f, Home>> \in exists' => <<f, Home>> \in fresh'
               /\ conf'[f] # D!None =>
                    /\ <<f, conf'[f]>> \in fresh'
                    /\ conf'[f] # Home => <<f, Home>> \notin exists'
    <3>1. mirror'[f] = D!None BY <1>7, <1>10, <2>1
    <3>2. CASE f = o.file BY <1>2, <1>5, <1>8, <2>1, <3>1, <3>2 DEF Holds
    <3>3. CASE f # o.file BY <1>2, <1>6, <1>8, <2>1, <3>1, <3>3 DEF Holds
    <3> QED BY <3>2, <3>3
  <2> QED BY <1>2, <2>1, <2>2, DoneSafe DEF Off
<1> QED BY <1>9, <1>10 DEF D!Pivot

LEMMA MoveFileSafe ==
    ASSUME DisksTyped, DisksSafe, NEW o \in work, D!MoveFile(o), ~torn'
    PROVE  DisksSafe'
<1> USE NamesDiffer
<1>1. work = {o} /\ (D!Answer(o) => work' = {}) /\ (\A p : D!Onward(o, p) => work' = {p}) BY OnlyOne DEF DisksSafe
<1>2. o.pc = "copy" /\ ~o.running /\ UNCHANGED <<power, conf, live, mirror>> BY DEF D!MoveFile, D!At
<1>3. \A f \in Files : ~Copying(f) BY <1>1, <1>2, CopyingBy
<1>4. CASE D!Answer(o) /\ UNCHANGED <<exists, fresh>> BY <1>1, <1>2, <1>3, <1>4, CalmSafe, DoneSafe DEF Off
<1>5. CASE /\ exists' = D!Moved(exists, o.file, o.from, o.to) /\ fresh' = D!Moved(fresh, o.file, o.from, o.to)
           /\ D!Onward(o, [o EXCEPT !.pc = "dump"])
  <2>1. o \in Operation /\ About(o) /\ Move(o) BY DEF DisksTyped, DisksSafe
  <2>2. PICK p : p = [o EXCEPT !.pc = "dump"] OBVIOUS
  <2>3. /\ p.pc = "dump" /\ p.act = o.act /\ p.file = o.file /\ p.to = o.to /\ p.from = o.from
        /\ p.running = o.running
    BY <2>1, <2>2 DEF Operation
  <2>4. work' = {p} BY <1>1, <1>5, <2>2
  <2>5. o.act = "migrate" /\ o.file \in Files /\ o.to \in Pools BY <1>2, <2>1 DEF Move, About, DiskActs
  <2>6. /\ o.from # D!None /\ o.from # o.to /\ conf[o.file] = o.from /\ Off
    BY <1>2, <2>1, <2>5 DEF Move
  <2>7. <<o.file, o.from>> \in fresh /\ (o.from # Home => <<o.file, Home>> \notin exists)
    BY <1>3, <2>5, <2>6, CalmSafe
  <2>8. <<o.file, o.from>> \in exists BY <2>7 DEF DisksTyped
  <2>9. /\ exists' = (exists \cup {<<o.file, o.to>>}) \ {<<o.file, o.from>>}
        /\ fresh' = (fresh \cup {<<o.file, o.to>>}) \ {<<o.file, o.from>>}
    BY <1>5, <2>7, <2>8 DEF D!Copied, D!Moved
  <2>10. Off' BY <1>2, <2>6 DEF Off
  <2>11. Move(p)'
    <3>1. <<p.file, Home>> \in exists' => Home \in {p.from, p.to} BY <2>3, <2>7, <2>9
    <3>2. <<p.file, p.to>> \in fresh' /\ <<p.file, p.from>> \notin exists' BY <2>3, <2>6, <2>9
    <3> QED BY <1>2, <2>3, <2>5, <2>6, <2>10, <3>1, <3>2 DEF Move
  <2>12. OneOperation' /\ Written(p)' BY <2>3, <2>4 DEF OneOperation, Written
  <2>13. ASSUME NEW f \in Files
         PROVE  HomeHolds(f)' /\ Mirrored(f)' /\ (~Moving(f)' => Holds(conf, f)')
    <3>1. (Copying(f)' <=> f = o.file) /\ (Moving(f)' <=> f = o.file) BY <2>3, <2>4, <2>5, CopyingNext
    <3>2. mirror'[f] = D!None BY <1>2, <1>3, CalmSafe
    <3>3. CASE f = o.file BY <3>1, <3>2, <3>3 DEF HomeHolds, Mirrored
    <3>4. CASE f # o.file
      <4>1. \A p1 : (<<f, p1>> \in exists' <=> <<f, p1>> \in exists) /\ (<<f, p1>> \in fresh' <=> <<f, p1>> \in fresh)
        BY <2>9, <3>4
      <4>2. Holds(conf, f)' BY <1>2, <1>3, <2>10, <3>1, <4>1, CalmSafe DEF Holds
      <4>3. HomeHolds(f)' BY <1>3, <4>1, CalmSafe DEF HomeHolds
      <4> QED BY <3>2, <4>2, <4>3 DEF Mirrored
    <3> QED BY <3>3, <3>4
  <2> QED BY <2>4, <2>10, <2>11, <2>12, <2>13 DEF DisksSafe
<1> QED BY <1>4, <1>5 DEF D!MoveFile

\* What is known of a disk that a migration has copied.
LEMMA MovingKnown ==
    ASSUME DisksTyped, DisksSafe, NEW o \in work, o.pc \in {"dump", "define"}
    PROVE  /\ work = {o} /\ o \in Operation /\ \A f \in Files : mirror[f] = D!None
           /\ \A f \in Files : (Moving(f) <=> o.act = "migrate" /\ o.file = f) /\ (Copying(f) <=> Moving(f))
           /\ o.act = "migrate" =>
                /\ o.file \in Files /\ o.to \in Pools
                /\ o.from # D!None /\ o.from # o.to /\ conf[o.file] = o.from
                /\ ~o.running => Off /\ <<o.file, o.from>> \notin exists
                /\ <<o.file, Home>> \in exists => Home \in {o.from, o.to}
                /\ <<o.file, o.to>> \in fresh
                /\ ~Off => live[o.file] = o.to
           /\ \A f \in Files :
                ~Moving(f) =>
                    /\ <<f, Home>> \in exists => <<f, Home>> \in fresh
                    /\ conf[f] # D!None =>
                         /\ <<f, conf[f]>> \in fresh
                         /\ ~Off /\ live[f] # D!None => live[f] = conf[f]
                         /\ conf[f] # Home => <<f, Home>> \notin exists
                    /\ ~Off /\ live[f] # D!None =>
                         /\ <<f, live[f]>> \in fresh
                         /\ live[f] # Home => <<f, Home>> \notin exists
<1>1. work = {o} /\ o \in Operation /\ About(o) /\ Move(o) BY OnlyOne DEF DisksSafe, DisksTyped
<1>2. \A f \in Files : (Moving(f) <=> o.act = "migrate" /\ o.file = f) /\ (Copying(f) <=> Moving(f))
  BY <1>1, CopyingBy
<1>3. \A f \in Files : mirror[f] = D!None BY <1>1, CopyingBy DEF DisksSafe
<1>4. o.act = "migrate" =>
        /\ o.file \in Files /\ o.to \in Pools
        /\ o.from # D!None /\ o.from # o.to /\ conf[o.file] = o.from
        /\ ~o.running => Off /\ <<o.file, o.from>> \notin exists
        /\ <<o.file, Home>> \in exists => Home \in {o.from, o.to}
        /\ <<o.file, o.to>> \in fresh
        /\ ~Off => live[o.file] = o.to
  BY <1>1 DEF Move, About, DiskActs
<1>5. \A f \in Files :
        ~Moving(f) =>
            /\ <<f, Home>> \in exists => <<f, Home>> \in fresh
            /\ conf[f] # D!None =>
                 /\ <<f, conf[f]>> \in fresh
                 /\ ~Off /\ live[f] # D!None => live[f] = conf[f]
                 /\ conf[f] # Home => <<f, Home>> \notin exists
            /\ ~Off /\ live[f] # D!None =>
                 /\ <<f, live[f]>> \in fresh
                 /\ live[f] # Home => <<f, Home>> \notin exists
  BY <1>2 DEF DisksSafe, HomeHolds, Holds
<1> QED BY <1>1, <1>2, <1>3, <1>4, <1>5

LEMMA DumpSafe ==
    ASSUME DisksTyped, DisksSafe, NEW o \in work, D!Dump(o), ~torn'
    PROVE  DisksSafe'
<1> USE NamesDiffer
<1>1. o.pc = "dump" /\ UNCHANGED <<power, conf, live, mirror>> BY DEF D!Dump, D!At
<1>2. /\ work = {o} /\ o \in Operation /\ \A f \in Files : mirror[f] = D!None
      /\ \A f \in Files : (Moving(f) <=> o.act = "migrate" /\ o.file = f) /\ (Copying(f) <=> Moving(f))
  BY <1>1, MovingKnown
<1>3. o.act = "migrate" =>
        /\ o.file \in Files /\ o.to \in Pools
        /\ o.from # D!None /\ o.from # o.to /\ conf[o.file] = o.from
        /\ ~o.running => Off /\ <<o.file, o.from>> \notin exists
        /\ <<o.file, Home>> \in exists => Home \in {o.from, o.to}
        /\ <<o.file, o.to>> \in fresh
        /\ ~Off => live[o.file] = o.to
  BY <1>1, MovingKnown
<1>4. PICK base : base = IF o.act = "migrate" /\ o.running THEN D!Live ELSE conf OBVIOUS
<1>5. base \in Definitions /\ (base = conf \/ (~Off /\ base = live)) BY <1>4 DEF DisksTyped, D!Live, Off
<1>6. o.act = "migrate" => base[o.file] # D!None BY <1>3, <1>5
<1>7. PICK xml : xml = IF o.act = "migrate" THEN [base EXCEPT ![o.file] = o.to] ELSE [base EXCEPT !["setting"] = 1]
  OBVIOUS
<1>8. CASE D!Answer(o) /\ o.act # "migrate" /\ UNCHANGED <<exists, fresh>>
  <2>1. work' = {} BY <1>8, OnlyOne DEF DisksSafe
  <2>2. \A f \in Files : ~Copying(f) BY <1>2, <1>8
  <2> QED BY <1>1, <1>8, <2>1, <2>2, CalmSafe, DoneSafe DEF Off
<1>9. CASE D!Onward(o, [o EXCEPT !.pc = "define", !.xml = xml]) /\ UNCHANGED <<exists, fresh>>
  <2>8. D!Onward(o, [o EXCEPT !.pc = "define", !.xml = xml]) /\ UNCHANGED <<exists, fresh>> BY <1>9
  <2>9. PICK p : p = [o EXCEPT !.pc = "define", !.xml = xml] OBVIOUS
  <2>10. /\ p.pc = "define" /\ p.act = o.act /\ p.file = o.file /\ p.to = o.to /\ p.from = o.from
         /\ p.running = o.running /\ p.xml = xml
    BY <1>2, <2>9 DEF Operation
  <2>11. work' = {p} BY <1>2, <2>8, <2>9, OnlyOne DEF DisksSafe
  <2>12. ASSUME NEW f \in Files
         PROVE  /\ (Copying(f)' <=> Moving(f)') /\ (Moving(f)' <=> Moving(f)) /\ mirror'[f] = D!None
                /\ Moving(f)' <=> o.act = "migrate" /\ o.file = f
    BY <1>1, <1>2, <2>10, <2>11, CopyingNext
  <2>13. Move(p)'
    <3>1. o.act = "migrate" => xml[o.file] = o.to BY <1>3, <1>5, <1>7 DEF Definitions
    <3>2. Off' = Off BY <1>1 DEF Off
    <3> QED BY <1>1, <1>3, <2>8, <2>10, <3>1, <3>2 DEF Move
  <2>14. ASSUME NEW f \in Files PROVE Holds(p.xml, f)'
    <3>1. CASE o.act = "migrate" /\ f = o.file
      <4>1. xml[f] = o.to BY <1>3, <1>5, <1>7, <3>1 DEF Definitions
      <4>2. <<f, o.to>> \in fresh' /\ (~Off' => live'[f] = o.to) BY <1>1, <1>3, <2>8, <3>1 DEF Off
      <4>3. Copying(f)' BY <2>12, <3>1
      <4> QED BY <2>10, <4>1, <4>2, <4>3 DEF Holds
    <3>2. CASE ~(o.act = "migrate" /\ f = o.file)
      <4>1. xml[f] = base[f] BY <1>5, <1>7, <3>2 DEF Definitions
      <4>2. ~Moving(f) BY <1>2, <3>2
      <4>3. base[f] # D!None =>
              /\ <<f, base[f]>> \in fresh
              /\ ~Off /\ live[f] # D!None => live[f] = base[f]
              /\ base[f] # Home => <<f, Home>> \notin exists
        BY <1>1, <1>5, <4>2, MovingKnown
      <4> QED BY <1>1, <2>8, <2>10, <4>1, <4>3 DEF Holds, Off
    <3> QED BY <3>1, <3>2
  <2>15. OneOperation' /\ Written(p)' BY <2>11, <2>14 DEF OneOperation, Written
  <2>16. ASSUME NEW f \in Files
         PROVE  HomeHolds(f)' /\ Mirrored(f)' /\ (~Moving(f)' => Holds(conf, f)') /\ (~Off' => Holds(live, f)')
    <3>1. HomeHolds(f)' BY <2>8, <2>12 DEF DisksSafe, HomeHolds
    <3>2. ~Moving(f)' => Holds(conf, f)' BY <1>1, <1>2, <2>8, <2>12 DEF DisksSafe, Holds, Off
    <3>3. ~Off' => Holds(live, f)' BY <1>1, <1>2, <2>8, <2>12 DEF DisksSafe, Holds, Off
    <3> QED BY <2>12, <3>1, <3>2, <3>3 DEF Mirrored
  <2> QED BY <2>11, <2>13, <2>15, <2>16 DEF DisksSafe
<1>10. \/ D!Answer(o) /\ o.act # "migrate" /\ UNCHANGED <<exists, fresh>>
       \/ D!Onward(o, [o EXCEPT !.pc = "define", !.xml = xml]) /\ UNCHANGED <<exists, fresh>>
  BY <1>4, <1>6, <1>7 DEF D!Dump
<1> QED BY <1>8, <1>9, <1>10

LEMMA DefineSafe ==
    ASSUME DisksTyped, DisksSafe, NEW o \in work, D!Define(o), ~torn'
    PROVE  DisksSafe'
<1> USE NamesDiffer
<1>1. o.pc = "define" /\ UNCHANGED <<power, live, mirror>> BY DEF D!Define, D!At
<1>2. work' = {} /\ Written(o) /\ Move(o) BY OnlyOne DEF DisksSafe, D!Define
<1>3. /\ work = {o} /\ o \in Operation /\ \A f \in Files : mirror[f] = D!None
      /\ \A f \in Files : (Moving(f) <=> o.act = "migrate" /\ o.file = f) /\ (Copying(f) <=> Moving(f))
  BY <1>1, MovingKnown
<1>4. o.act = "migrate" =>
        /\ o.file \in Files /\ o.to \in Pools
        /\ o.from # D!None /\ o.from # o.to /\ conf[o.file] = o.from
        /\ ~o.running => Off /\ <<o.file, o.from>> \notin exists
        /\ <<o.file, Home>> \in exists => Home \in {o.from, o.to}
        /\ <<o.file, o.to>> \in fresh
        /\ ~Off => live[o.file] = o.to
  BY <1>1, MovingKnown
<1>5. SUFFICES ASSUME NEW f \in Files
               PROVE  /\ <<f, Home>> \in exists' => <<f, Home>> \in fresh'
                      /\ conf'[f] # D!None =>
                           /\ <<f, conf'[f]>> \in fresh'
                           /\ ~Off /\ live[f] # D!None => live[f] = conf'[f]
                           /\ conf'[f] # Home => <<f, Home>> \notin exists'
                      /\ ~Off /\ live[f] # D!None =>
                           /\ <<f, live[f]>> \in fresh'
                           /\ live[f] # Home => <<f, Home>> \notin exists'
  BY <1>1, <1>2, <1>3, <1>5, DoneSafe DEF Off
<1>6. ~Moving(f) =>
        /\ <<f, Home>> \in exists => <<f, Home>> \in fresh
        /\ conf[f] # D!None =>
             /\ <<f, conf[f]>> \in fresh
             /\ ~Off /\ live[f] # D!None => live[f] = conf[f]
             /\ conf[f] # Home => <<f, Home>> \notin exists
        /\ ~Off /\ live[f] # D!None =>
             /\ <<f, live[f]>> \in fresh
             /\ live[f] # Home => <<f, Home>> \notin exists
  BY <1>1, MovingKnown
<1>7. CASE /\ conf' = o.xml
           /\ \E source : /\ source = IF o.act = "migrate" /\ o.running THEN {<<o.file, o.from>>} ELSE {}
                          /\ exists' = exists \ source /\ fresh' = fresh \ source
  <2>1. PICK source : /\ source = IF o.act = "migrate" /\ o.running THEN {<<o.file, o.from>>} ELSE {}
                      /\ exists' = exists \ source /\ fresh' = fresh \ source
    BY <1>7
  <2>2. o.xml[f] # D!None =>
          /\ <<f, o.xml[f]>> \in fresh
          /\ ~Off /\ live[f] # D!None => live[f] = o.xml[f]
          /\ o.xml[f] # Home /\ <<f, Home>> \in exists => Copying(f)
    BY <1>1, <1>2 DEF Written, Holds
  <2>3. CASE o.act = "migrate" /\ f = o.file
    <3>1. o.xml[f] = o.to BY <1>1, <1>2, <2>3 DEF Move
    <3>2. <<f, o.from>> \notin exists' BY <1>4, <2>1, <2>3
    <3>3. <<f, o.to>> \in fresh' BY <1>4, <2>1, <2>3
    <3>4. <<f, Home>> \in exists' => Home = o.to BY <1>4, <2>1, <2>3, <3>2
    <3> QED BY <1>4, <1>7, <2>3, <3>1, <3>3, <3>4
  <2>4. CASE ~(o.act = "migrate" /\ f = o.file)
    <3>1. ~Moving(f) /\ ~Copying(f) BY <1>3, <2>4
    <3>2. \A p : (<<f, p>> \in exists' <=> <<f, p>> \in exists) /\ (<<f, p>> \in fresh' <=> <<f, p>> \in fresh)
      BY <2>1, <2>4
    <3> QED BY <1>6, <1>7, <2>2, <3>1, <3>2
  <2> QED BY <2>3, <2>4
<1>8. CASE UNCHANGED conf /\ D!MoveBack(o) /\ ~(o.act = "migrate" /\ o.running)
  <2>1. CASE o.act # "migrate"
    <3>1. UNCHANGED <<exists, fresh>> /\ ~Moving(f) BY <1>3, <1>8, <2>1 DEF D!MoveBack
    <3> QED BY <1>6, <1>8, <3>1
  <2>2. CASE o.act = "migrate"
    <3>1. Off /\ <<o.file, o.from>> \notin exists /\ <<o.file, o.to>> \in fresh BY <1>4, <1>8, <2>2
    <3>2. <<o.file, o.to>> \in exists BY <3>1 DEF DisksTyped
    <3>3. /\ exists' = (exists \cup {<<o.file, o.from>>}) \ {<<o.file, o.to>>}
          /\ fresh' = (fresh \cup {<<o.file, o.from>>}) \ {<<o.file, o.to>>}
      BY <1>8, <2>2, <3>1, <3>2 DEF D!MoveBack, D!Moved, D!Copied
    <3>4. CASE f = o.file
      <4>1. conf'[f] = o.from /\ <<f, o.from>> \in fresh' BY <1>4, <1>8, <2>2, <3>3, <3>4
      <4>2. <<f, Home>> \in exists' => Home = o.from BY <1>4, <2>2, <3>3, <3>4
      <4> QED BY <3>1, <4>1, <4>2
    <3>5. CASE f # o.file
      <4>1. \A p : (<<f, p>> \in exists' <=> <<f, p>> \in exists) /\ (<<f, p>> \in fresh' <=> <<f, p>> \in fresh)
        BY <3>3, <3>5
      <4>2. ~Moving(f) BY <1>3, <3>5
      <4> QED BY <1>6, <1>8, <4>1, <4>2
    <3> QED BY <3>4, <3>5
  <2> QED BY <2>1, <2>2
<1> QED BY <1>7, <1>8 DEF D!Define

\* The guest writes to the file of its live definition and to the mirror.
LEMMA WriteSafe ==
    ASSUME DisksTyped, DisksSafe, NEW w \in Files, D!Write(w)
    PROVE  DisksSafe'
<1> USE NamesDiffer
<1>1. /\ live[w] # D!None /\ ~Off /\ UNCHANGED <<power, conf, live, exists, mirror, work>>
      /\ fresh' = (fresh \ {<<w, p>> : p \in Pools}) \cup ({<<w, live[w]>>, <<w, mirror[w]>>} \cap exists)
  BY DEF D!Write, Off
<1>2. \A f, p : f # w => (<<f, p>> \in fresh' <=> <<f, p>> \in fresh) BY <1>1
<1>3. /\ <<w, live[w]>> \in exists => <<w, live[w]>> \in fresh'
      /\ <<w, mirror[w]>> \in exists => <<w, mirror[w]>> \in fresh'
  BY <1>1
<1>4. Holds(live, w) BY <1>1 DEF DisksSafe
<1>5. <<w, live[w]>> \in fresh' BY <1>1, <1>3, <1>4 DEF Holds, DisksTyped
<1>6. ASSUME NEW f \in Files
      PROVE  (Copying(f)' <=> Copying(f)) /\ (Moving(f)' <=> Moving(f)) /\ (Mirrored(f)' <=> Mirrored(f))
  BY <1>1 DEF Copying, Moving, Mirrored, Off
<1>7. ASSUME NEW d, NEW f \in Files, Holds(d, f), d' = d PROVE Holds(d, f)'
  <2>1. CASE f # w BY <1>1, <1>2, <1>6, <1>7, <2>1 DEF Holds, Off
  <2>2. CASE f = w
    <3>1. d[f] # D!None => live[f] = d[f] BY <1>1, <1>7, <2>2 DEF Holds
    <3> QED BY <1>1, <1>5, <1>6, <1>7, <2>2, <3>1 DEF Holds, Off
  <2> QED BY <2>1, <2>2
<1>8. ASSUME NEW o \in work PROVE Move(o)' /\ Written(o)'
  <2>2. Off' = Off BY <1>1 DEF Off
  <2>3. Written(o)'
    <3>1. Written(o) BY DEF DisksSafe
    <3>2. ASSUME NEW f \in Files, Holds(o.xml, f) PROVE Holds(o.xml, f)' BY <1>7, <3>2
    <3> QED BY <3>1, <3>2 DEF Written
  <2>4. Move(o) BY DEF DisksSafe
  <2>5. CASE o.file # w
    <3>1. <<o.file, o.to>> \in fresh' <=> <<o.file, o.to>> \in fresh BY <1>2, <2>5
    <3> QED BY <1>1, <2>2, <2>3, <2>4, <3>1 DEF Move
  <2>6. CASE o.file = w
    <3>1. o.act = "migrate" /\ o.pc = "pivot" => <<w, o.to>> \in fresh'
      BY <1>1, <1>3, <2>4, <2>6 DEF Move, DisksTyped
    <3>2. o.act = "migrate" /\ o.pc \in {"dump", "define"} => <<w, o.to>> \in fresh'
      BY <1>1, <1>5, <2>4, <2>6 DEF Move
    <3> QED BY <1>1, <2>2, <2>3, <2>4, <2>6, <3>1, <3>2 DEF Move
  <2> QED BY <2>3, <2>5, <2>6
<1>9. ASSUME NEW f \in Files PROVE HomeHolds(f)'
  <2>1. HomeHolds(f) BY DEF DisksSafe
  <2>2. CASE f # w BY <1>1, <1>2, <1>6, <2>1, <2>2 DEF HomeHolds
  <2>3. CASE f = w /\ live[w] = Home BY <1>5, <2>3 DEF HomeHolds
  <2>4. CASE f = w /\ live[w] # Home /\ <<w, Home>> \in exists
    <3>1. Copying(w) BY <1>1, <1>4, <2>4 DEF Holds
    <3>2. PICK o \in work : o.act = "migrate" /\ o.file = w /\ o.pc \in {"pivot", "dump", "define"}
      BY <3>1 DEF Copying
    <3>3. CASE o.pc \in {"dump", "define"} BY <1>6, <2>4, <3>2, <3>3 DEF HomeHolds, Moving
    <3>4. CASE o.pc = "pivot"
      <4>1. Move(o) BY DEF DisksSafe
      <4>2. mirror[w] = o.to /\ live[w] = o.from /\ Home \in {o.from, o.to}
        BY <1>1, <2>4, <3>2, <3>4, <4>1 DEF Move
      <4> QED BY <1>3, <2>4, <4>2 DEF HomeHolds
    <3> QED BY <3>2, <3>3, <3>4
  <2> QED BY <1>1, <2>2, <2>3, <2>4 DEF HomeHolds
<1>10. OneOperation' BY <1>1 DEF DisksSafe, OneOperation
<1>11. ASSUME NEW f \in Files
       PROVE  Mirrored(f)' /\ (~Moving(f)' => Holds(conf, f)') /\ (~Off' => Holds(live, f)')
  <2>1. ~Moving(f)' => Holds(conf, f)' BY <1>1, <1>6, <1>7 DEF DisksSafe
  <2>2. Holds(live, f)' BY <1>1, <1>7 DEF DisksSafe
  <2> QED BY <1>6, <2>1, <2>2 DEF DisksSafe
<1> QED BY <1>1, <1>8, <1>9, <1>10, <1>11 DEF DisksSafe

LEMMA ShutDownSafe ==
    ASSUME DisksTyped, DisksSafe, D!ShutDown
    PROVE  DisksSafe'
<1>1. /\ Off' /\ \A f \in Files : mirror'[f] = D!None
      /\ UNCHANGED <<conf, exists, fresh, work>>
  BY DEF D!ShutDown, D!Stop, Off
<1>2. \A f \in Files : (Copying(f)' <=> Copying(f)) /\ (Moving(f)' <=> Moving(f)) BY <1>1 DEF Copying, Moving
<1>3. ASSUME NEW d, NEW f \in Files, Holds(d, f), d' = d PROVE Holds(d, f)' BY <1>1, <1>2, <1>3 DEF Holds
<1>4. ASSUME NEW o \in work PROVE Move(o)' /\ Written(o)'
  <2>1. Move(o) /\ Written(o) BY DEF DisksSafe
  <2>2. Move(o)' BY <1>1, <2>1 DEF Move
  <2>3. ASSUME NEW f \in Files, Holds(o.xml, f) PROVE Holds(o.xml, f)' BY <1>3, <2>3
  <2> QED BY <2>1, <2>2, <2>3 DEF Written
<1>5. ASSUME NEW f \in Files
      PROVE  HomeHolds(f)' /\ Mirrored(f)' /\ (~Moving(f)' => Holds(conf, f)')
  BY <1>1, <1>2, <1>3 DEF DisksSafe, HomeHolds, Mirrored
<1>6. OneOperation' BY <1>1 DEF DisksSafe, OneOperation
<1> QED BY <1>1, <1>4, <1>5, <1>6 DEF DisksSafe

-----------------------------------------------------------------------------
(* Disks: the invariant and the theorem.                                   *)

LEMMA DisksInit ==
    ASSUME D!Init
    PROVE  DisksInv
<1> USE NamesDiffer
<1>1. DisksTyped
  <2>1. conf \in Definitions
    BY DisksParameters DEF D!Init, Definitions, D!Keys, D!DisksAssumption
  <2>2. live \in Definitions BY DEF D!Init, Definitions, D!NoDefinition
  <2>3. mirror \in [Files -> Places] BY DEF D!Init, Places
  <2>4. queue \in Seq(DiskTask) /\ \A i \in DOMAIN queue : About(queue[i]) BY DEF D!Init
  <2> QED BY <2>1, <2>2, <2>3, <2>4 DEF D!Init, DisksTyped
<1>2. \A f \in Files : mirror[f] = D!None /\ (conf[f] = D!None \/ conf[f] = Home) /\ <<f, Home>> \in fresh
  BY DEF D!Init, D!Keys
<1>3. Off /\ work = {} BY DEF D!Init, Off
<1> QED BY <1>1, <1>2, <1>3 DEF DisksInv, DisksSafe, OneOperation, HomeHolds, Mirrored, Holds

LEMMA DisksNext ==
    ASSUME DisksInv, [D!Next]_D!vars
    PROVE  DisksInv'
<1>1. DisksTyped /\ DisksTyped' BY DisksTypedNext DEF DisksInv
<1>2. ~torn' => ~torn
  BY DEF D!Next, D!vars, D!Request, D!Dispatch, D!LoseAnswer, D!Step, D!Begin, D!Apply, D!PowerOp, D!BlockCopy, D!Pivot, D!MoveFile,
         D!Dump, D!Define, D!Write, D!ShutDown, D!Pause, D!Resume
<1>3. SUFFICES ASSUME ~torn' PROVE DisksSafe' BY <1>1, <1>3 DEF DisksInv
<1>4. DisksSafe BY <1>2, <1>3 DEF DisksInv
<1>5. CASE (\E a \in D!Asked : D!Request(a)) \/ D!LoseAnswer \/ D!Pause \/ D!Resume \/ UNCHANGED D!vars
  <2>1. UNCHANGED <<conf, live, exists, fresh, mirror, work>> /\ Off' = Off
    BY <1>5 DEF D!Request, D!LoseAnswer, D!Pause, D!Resume, D!vars, Off
  <2> QED BY <1>4, <2>1, DisksFrame
<1>6. CASE D!Dispatch BY <1>1, <1>3, <1>4, <1>6, DispatchSafe
<1>7. ASSUME NEW o \in work, D!Step(o) PROVE DisksSafe'
  BY <1>1, <1>3, <1>4, <1>7, BeginSafe, ApplySafe, PowerSafe, BlockCopySafe, PivotSafe, MoveFileSafe,
     DumpSafe, DefineSafe DEF D!Step
<1>8. ASSUME NEW f \in Files, D!Write(f) PROVE DisksSafe' BY <1>1, <1>4, <1>8, WriteSafe
<1>9. CASE D!ShutDown BY <1>1, <1>4, <1>9, ShutDownSafe
<1> QED BY <1>5, <1>6, <1>7, <1>8, <1>9 DEF D!Next

\* A machine that is off boots from files that hold all its guest wrote: for any
\* disks, pools and requests, and however many answers are lost and commands fail
\* (diskMigrate and what else changes power, definitions and files).
THEOREM OffBootsLatest == D!Spec => []BootsLatest
<1>1. D!Init => DisksInv BY DisksInit
<1>2. DisksInv /\ [D!Next]_D!vars => DisksInv' BY DisksNext
<1>3. DisksInv => BootsLatest
  <2> SUFFICES ASSUME DisksInv, power = "off", work = {}, ~torn, NEW f \in Files, conf[f] # D!None
               PROVE  <<f, conf[f]>> \in fresh
    BY DEF BootsLatest, D!BootsLatest
  <2>1. ~Moving(f) BY DEF Moving
  <2> QED BY <2>1 DEF DisksInv, DisksSafe, Holds
<1> QED BY <1>1, <1>2, <1>3, PTL DEF D!Spec
=============================================================================
