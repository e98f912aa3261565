--------------------------- MODULE ScheduleProofs ---------------------------
(***************************************************************************)
(* For any number of scanners, schedules, edits and deaths: one due time   *)
(* is one task, missed occurrences are not made up for, and a schedule     *)
(* that is off is not claimed. For any quota, requests, months and faults: *)
(* reaching a limit shuts the machines down once (Q is the instance of     *)
(* QuotaEnforce in MCSchedule).                                            *)
(***************************************************************************)
EXTENDS MCSchedule, TLAPS

-----------------------------------------------------------------------------
(* The invariant.                                                          *)

\* A scan took the row when it was due, and its clock is not ahead.
Reading == \A i \in Scanners : \A r \in todo[i] : r.due <= now
Holding == \A i \in Scanners : scan[i].pc # "idle" =>
    scan[i].row \in Rows /\ scan[i].due \in Times /\ scan[i].due <= scan[i].at /\ scan[i].at <= now

\* What a scanner claimed and has not enqueued.
Claimed(i, s) == scan[i].pc = "enqueue" /\ scan[i].row = s
Punctual == \A i \in Scanners : scan[i].pc = "enqueue" => scan[i].at <= scan[i].due + MissedThreshold
History == \A s \in Rows, t \in Times : fired[s][t].n > 0 =>
    t <= fired[s][t].at /\ fired[s][t].at <= now /\ fired[s][t].at <= t + MissedThreshold

\* The next time of a row is later than every clock by which a time of it was
\* claimed or fired.
Ahead(s) == nextRun[s] # Never =>
    /\ \A i \in Scanners : Claimed(i, s) => scan[i].at < nextRun[s]
    /\ \A t \in Times : fired[s][t].n > 0 => fired[s][t].at < nextRun[s]

\* So the times that are claimed and fired differ, and each is later than the
\* clock of those before it.
Apart(s) ==
    /\ \A i, j \in Scanners : Claimed(i, s) /\ Claimed(j, s) /\ i # j =>
          scan[i].at < scan[j].due \/ scan[j].at < scan[i].due
    /\ \A i \in Scanners : Claimed(i, s) =>
          /\ fired[s][scan[i].due].n = 0
          /\ \A t \in Times : fired[s][t].n > 0 => fired[s][t].at < scan[i].due \/ scan[i].at < t
    /\ \A t \in Times : fired[s][t].n <= 1
    /\ \A t, u \in Times : fired[s][t].n > 0 /\ fired[s][u].n > 0 /\ t < u => fired[s][t].at < u

\* Edits that wrote a time that was past are outside of all this.
OnTime == \A s \in Rows : stale[s] = {} => Ahead(s) /\ Apart(s)

\* A row that has a next time is enabled, and an edit that disables has none.
On == (\A s \in Rows : nextRun[s] # Never => s \in enabled) /\ (~edit.on => edit.next = Never)

IInv == TypeOK /\ Reading /\ Holding /\ Punctual /\ History /\ OnTime /\ On

-----------------------------------------------------------------------------
(* The next occurrence.                                                    *)

\* The next occurrence is after the clock, and at most a period after it.
LEMMA NextAfterLater ==
    ASSUME NEW s \in Rows, NEW t \in 0 .. MaxTime
    PROVE  NextAfter(s, t) \in 0 .. MaxTime + Period /\ (NextAfter(s, t) = Never \/ NextAfter(s, t) > t)
<1>1. Period \in Nat \ {0} /\ MaxTime \in Nat BY ScheduleAssumption
<1>2. CASE row[s] = "once" BY <1>1, <1>2 DEF NextAfter, Never
<1>3. CASE row[s] # "once"
  <2> DEFINE q == t \div Period
  <2>1. q \in Nat /\ q * Period <= t /\ t < q * Period + Period BY <1>1
  <2>2. (q + 1) * Period = q * Period + Period BY <1>1, <2>1
  <2>3. NextAfter(s, t) = (q + 1) * Period BY <1>3 DEF NextAfter
  <2>4. q * Period \in Nat
    <3>1. \A a, b \in Nat : a * b \in Nat OBVIOUS
    <3>2. q \in Nat /\ Period \in Nat BY <1>1
    <3> HIDE DEF q
    <3> QED BY <3>1, <3>2
  <2> HIDE DEF q
  <2> QED BY <1>1, <2>1, <2>2, <2>3, <2>4
<1> QED BY <1>2, <1>3

\* What is recorded of a due time are numbers.
LEMMA FiredTypes ==
    ASSUME TypeOK, NEW s \in Rows, NEW t \in Times
    PROVE  fired[s][t].n \in Nat /\ fired[s][t].at \in Nat /\ t \in Nat
<1>1. fired[s][t] \in [n : Nat, at : 0 .. MaxTime] BY DEF TypeOK
<1>2. t \in Nat BY DEF Times
<1> QED BY <1>1, <1>2

\* The initial states satisfy the invariant.
LEMMA InitInv == ASSUME Init PROVE IInv
<1>1. TypeOK BY ScheduleAssumption DEF Init, TypeOK, Idle, NoEdit, Never
<1>2. Reading /\ Holding /\ Punctual BY DEF Init, Reading, Holding, Punctual, Idle
<1>3. History /\ OnTime BY DEF Init, History, OnTime, Ahead, Apart, Claimed, Idle
<1>4. On BY DEF Init, On, NoEdit
<1> QED BY <1>1, <1>2, <1>3, <1>4 DEF IInv

\* A row is created with a time that is to come.
LEMMA CreateInv == ASSUME IInv, NEW s \in Rows, Create(s) PROVE IInv'
<1>0. now \in 0 .. MaxTime /\ MaxTime \in Nat /\ Period \in Nat \ {0} /\ OnceAt \in 1 .. MaxTime
  BY ScheduleAssumption DEF IInv, TypeOK
<1>1. PICK n \in 0 .. MaxTime + Period, k \in {"once", "daily"} :
        nextRun' = [nextRun EXCEPT ![s] = n] /\ row' = [row EXCEPT ![s] = k] /\ (n = Never \/ n > now)
  <2>1. CASE /\ now < OnceAt /\ row' = [row EXCEPT ![s] = "once"]
             /\ nextRun' = [nextRun EXCEPT ![s] = OnceAt]
    <3>1. OnceAt \in 0 .. MaxTime + Period /\ OnceAt > now BY <1>0, <2>1
    <3> QED BY <2>1, <3>1
  <2>2. CASE /\ row' = [row EXCEPT ![s] = "daily"]
             /\ nextRun' = [nextRun EXCEPT ![s] = NextAfter(s, now)]
    BY <1>0, <2>2, NextAfterLater
  <2> QED BY <2>1, <2>2 DEF Create
<1>2. TypeOK' BY <1>1 DEF IInv, TypeOK, Create
<1>3. Reading' /\ Holding' /\ Punctual' /\ History'
  BY DEF IInv, Reading, Holding, Punctual, History, Create
<1>4. OnTime'
  <2>1. \A t \in Rows : Apart(t) => Apart(t)' BY DEF Apart, Claimed, Create
  <2>2. \A t \in Rows : t # s /\ Ahead(t) => Ahead(t)' BY <1>1 DEF Ahead, Claimed, Create, IInv, TypeOK
  <2>3. Ahead(s)'
    <3>1. nextRun'[s] = n /\ scan' = scan /\ fired' = fired BY <1>1 DEF IInv, TypeOK, Create
    <3>2. \A i \in Scanners : Claimed(i, s) => scan[i].at \in Nat /\ scan[i].at <= now
      BY DEF Claimed, IInv, TypeOK, Holding
    <3>3. \A t \in Times : fired[s][t].n > 0 => fired[s][t].at \in Nat /\ fired[s][t].at <= now
      BY DEF IInv, TypeOK, History
    <3> QED BY <1>0, <1>1, <3>1, <3>2, <3>3 DEF Ahead, Claimed
  <2> QED BY <2>1, <2>2, <2>3 DEF IInv, OnTime, Create
<1>5. On' BY <1>1 DEF IInv, On, TypeOK, Create
<1> QED BY <1>2, <1>3, <1>4, <1>5 DEF IInv

\* A row is deleted: it has no next time any more.
LEMMA DeleteInv == ASSUME IInv, NEW s \in Rows, Delete(s) PROVE IInv'
<1>1. TypeOK' BY ScheduleAssumption DEF IInv, TypeOK, Delete, Never
<1>2. Reading' /\ Holding' /\ Punctual' /\ History'
  BY DEF IInv, Reading, Holding, Punctual, History, Delete
<1>3. OnTime' BY DEF IInv, OnTime, TypeOK, Ahead, Apart, Claimed, Delete
<1>4. On' BY DEF IInv, On, TypeOK, Delete
<1> QED BY <1>1, <1>2, <1>3, <1>4 DEF IInv

\* Time passes.
LEMMA TickInv == ASSUME IInv, Tick PROVE IInv'
<1>0. now \in Nat /\ now' = now + 1 BY ScheduleAssumption DEF IInv, TypeOK, Tick
<1>1. TypeOK' BY ScheduleAssumption, <1>0 DEF IInv, TypeOK, Tick
<1>2. Reading' BY <1>0 DEF IInv, TypeOK, Reading, Tick, Times
<1>3. Holding' /\ Punctual' BY <1>0 DEF IInv, TypeOK, Holding, Punctual, Tick
<1>4. History' BY <1>0 DEF IInv, TypeOK, History, Tick
<1>5. OnTime' /\ On' BY DEF IInv, OnTime, On, Ahead, Apart, Claimed, Tick
<1> QED BY <1>1, <1>2, <1>3, <1>4, <1>5 DEF IInv

-----------------------------------------------------------------------------
(* A scan.                                                                 *)

\* A tick reads rows that are due.
LEMMA ReadInv == ASSUME IInv, NEW i \in Scanners, Read(i) PROVE IInv'
<1>1. PICK B \in SUBSET {s \in Rows : Selected(s)} :
        todo' = [todo EXCEPT ![i] = {[row |-> s, due |-> nextRun[s]] : s \in B}]
  BY DEF Read, Batches
<1>2. \A s \in B : nextRun[s] \in Times /\ nextRun[s] <= now
  BY <1>1, ScheduleAssumption DEF Selected, Due, IInv, TypeOK, Times, Never
<1>3. \A r \in todo'[i] : r \in [row : Rows, due : Times] /\ r.due <= now
  BY <1>1, <1>2 DEF IInv, TypeOK
<1>4. TypeOK' BY <1>1, <1>3 DEF IInv, TypeOK, Read
<1>5. Reading' BY <1>1, <1>3 DEF IInv, TypeOK, Reading, Read
<1>6. Holding' /\ Punctual' /\ History' BY DEF IInv, Holding, Punctual, History, Read
<1>7. OnTime' /\ On' BY DEF IInv, OnTime, On, Ahead, Apart, Claimed, Read
<1> QED BY <1>4, <1>5, <1>6, <1>7 DEF IInv

\* When one scanner goes to a state in which it has claimed nothing, what the
\* others claimed still holds together.
LEMMA LessClaimed ==
    ASSUME IInv, UNCHANGED <<nextRun, fired, stale>>,
           NEW i \in Scanners, scan'[i].pc # "enqueue",
           \A j \in Scanners \ {i} : scan'[j] = scan[j]
    PROVE  OnTime'
<1>1. \A j \in Scanners, s \in Rows : Claimed(j, s)' => Claimed(j, s) /\ scan'[j] = scan[j]
  BY DEF Claimed
<1>2. \A s \in Rows : (Ahead(s) => Ahead(s)') /\ (Apart(s) => Apart(s)')
  BY <1>1 DEF Ahead, Apart
<1> QED BY <1>2 DEF IInv, OnTime

\* fire takes a row and looks at the clock.
LEMMA FireInv == ASSUME IInv, NEW i \in Scanners, Fire(i) PROVE IInv'
<1>1. PICK r \in todo[i] :
        /\ todo' = [todo EXCEPT ![i] = @ \ {r}]
        /\ scan' = [scan EXCEPT ![i] = [pc |-> "claim", row |-> r.row, due |-> r.due, at |-> now]]
  BY DEF Fire
<1>2. r \in [row : Rows, due : Times] /\ r.due <= now /\ now \in 0 .. MaxTime
  BY DEF IInv, TypeOK, Reading
<1>3. TypeOK'
  <2>1. [pc |-> "claim", row |-> r.row, due |-> r.due, at |-> now] \in
            [pc : {"idle", "claim", "enqueue"}, row : Rows \cup {NoRow}, due : 0 .. MaxTime, at : 0 .. MaxTime]
    BY <1>2, ScheduleAssumption DEF Times
  <2> QED BY <1>1, <2>1 DEF IInv, TypeOK, Fire
<1>4. Reading' BY <1>1 DEF IInv, TypeOK, Reading, Fire
<1>5. Holding' BY <1>1, <1>2 DEF IInv, TypeOK, Holding, Fire, Times
<1>6. Punctual' /\ History' BY <1>1 DEF IInv, TypeOK, Punctual, History, Fire
<1>7. OnTime' BY <1>1, LessClaimed DEF IInv, TypeOK, Fire
<1>8. On' BY DEF IInv, On, Fire
<1> QED BY <1>3, <1>4, <1>5, <1>6, <1>7, <1>8 DEF IInv

\* A scanner becomes idle: its claim was refused, or failed, or it died.
LEMMA IdleInv ==
    ASSUME IInv, NEW i \in Scanners, scan' = [scan EXCEPT ![i] = Idle],
           todo' \in {todo, [todo EXCEPT ![i] = {}]}, deaths' \in 0 .. MaxDeaths,
           UNCHANGED <<now, row, enabled, nextRun, fired, edit, edits, stale>>
    PROVE  IInv'
<1>1. TypeOK'
  <2>1. Idle \in [pc : {"idle", "claim", "enqueue"}, row : Rows \cup {NoRow}, due : 0 .. MaxTime, at : 0 .. MaxTime]
    BY ScheduleAssumption DEF Idle, Never
  <2> QED BY <2>1 DEF IInv, TypeOK
<1>2. Reading' /\ Holding' /\ Punctual' /\ History'
  BY DEF IInv, TypeOK, Reading, Holding, Punctual, History, Idle
<1>3. OnTime' BY LessClaimed DEF IInv, TypeOK, Idle
<1>4. On' BY DEF IInv, On
<1> QED BY <1>1, <1>2, <1>3, <1>4 DEF IInv

\* A claim succeeds: the due time is later than every clock before, and the next
\* one is later than this clock.
LEMMA ClaimInv == ASSUME IInv, NEW i \in Scanners, Claim(i) PROVE IInv'
<1>9. PICK s, d : s = scan[i].row /\ d = scan[i].due OBVIOUS
<1> DEFINE n == NextAfter(s, scan[i].at)
<1>0. /\ s \in Rows /\ d \in Times /\ d <= scan[i].at /\ scan[i].at <= now /\ scan[i].pc = "claim"
      /\ scan[i].at \in 0 .. MaxTime /\ now \in 0 .. MaxTime /\ d \in Nat /\ d # Never
      /\ scan[i] \in [pc : {"idle", "claim", "enqueue"}, row : Rows \cup {NoRow},
                      due : 0 .. MaxTime, at : 0 .. MaxTime]
  <2>1. /\ scan[i] \in [pc : {"idle", "claim", "enqueue"}, row : Rows \cup {NoRow},
                          due : 0 .. MaxTime, at : 0 .. MaxTime]
        /\ now \in 0 .. MaxTime /\ scan[i].pc = "claim"
    BY DEF IInv, TypeOK, Claim
  <2>2. s \in Rows /\ d \in Times /\ d <= scan[i].at /\ scan[i].at <= now
    BY <1>9, <2>1 DEF IInv, Holding
  <2> QED BY <1>9, <2>1, <2>2, ScheduleAssumption DEF Times, Never
<1>1. CASE ~Unclaimed(i)
  <2>1. deaths \in 0 .. MaxDeaths BY DEF IInv, TypeOK
  <2> QED BY <1>1, <2>1, IdleInv DEF Claim
<1>2. CASE Unclaimed(i)
  <2>1. /\ nextRun' = [nextRun EXCEPT ![s] = n]
        /\ scan' = [scan EXCEPT ![i] = IF Missed(i) THEN Idle ELSE [@ EXCEPT !.pc = "enqueue"]]
    BY <1>2, <1>9 DEF Claim, NextFrom
  <2>2. n \in 0 .. MaxTime + Period /\ (n = Never \/ n > scan[i].at) BY <1>0, NextAfterLater
  <2>3. nextRun[s] = d BY <1>2, <1>9 DEF Unclaimed
  <2> HIDE DEF n
  <2>4. TypeOK'
    <3>1. Idle \in [pc : {"idle", "claim", "enqueue"}, row : Rows \cup {NoRow}, due : 0 .. MaxTime, at : 0 .. MaxTime]
      BY ScheduleAssumption DEF Idle, Never
    <3>2. [scan[i] EXCEPT !.pc = "enqueue"] \in
            [pc : {"idle", "claim", "enqueue"}, row : Rows \cup {NoRow}, due : 0 .. MaxTime, at : 0 .. MaxTime]
      BY <1>0
    <3>3. scan' \in [Scanners -> [pc : {"idle", "claim", "enqueue"}, row : Rows \cup {NoRow},
                                  due : 0 .. MaxTime, at : 0 .. MaxTime]]
      BY <2>1, <3>1, <3>2 DEF IInv, TypeOK
    <3>4. nextRun' \in [Rows -> 0 .. MaxTime + Period] BY <1>0, <2>1, <2>2 DEF IInv, TypeOK
    <3> QED BY <3>3, <3>4 DEF IInv, TypeOK, Claim
  <2>5. /\ \A j \in Scanners \ {i} : scan'[j] = scan[j]
        /\ ~Missed(i) => /\ scan'[i].pc = "enqueue" /\ scan'[i].row = s
                        /\ scan'[i].due = d /\ scan'[i].at = scan[i].at
        /\ Missed(i) => scan'[i].pc = "idle"
    BY <1>0, <1>9, <2>1 DEF IInv, TypeOK, Idle
  <2>6. Reading' /\ Holding' /\ History'
    BY <1>0, <1>9, <2>5 DEF IInv, Reading, Holding, History, Claim
  <2>7. Punctual'
    <3>1. ~Missed(i) => scan[i].at <= d + MissedThreshold BY <1>0, <1>9, ScheduleAssumption DEF Missed
    <3> QED BY <2>5, <3>1 DEF IInv, Punctual
  <2>8. OnTime'
    <3>1. SUFFICES ASSUME NEW t \in Rows, stale[t] = {} PROVE Ahead(t)' /\ Apart(t)'
      BY DEF OnTime, Claim
    <3>2. Ahead(t) /\ Apart(t) BY <3>1 DEF IInv, OnTime
    <3>3. \A j \in Scanners : Claimed(j, t)' => Claimed(j, t) \/ (j = i /\ t = s)
      BY <2>5 DEF Claimed
    <3>4. CASE t # s
      <4>1. nextRun'[t] = nextRun[t] /\ fired' = fired BY <2>1, <3>4 DEF IInv, TypeOK, Claim
      <4>2. \A j \in Scanners : Claimed(j, t)' => Claimed(j, t) /\ scan'[j] = scan[j]
        BY <1>0, <2>5, <3>3, <3>4 DEF Claimed
      <4> QED BY <3>2, <4>1, <4>2 DEF Ahead, Apart
    <3>5. CASE t = s
      <4>1. nextRun'[s] = n /\ fired' = fired BY <1>0, <2>1 DEF IInv, TypeOK, Claim
      <4>2. /\ \A j \in Scanners : Claimed(j, s) => scan[j].at < d
            /\ \A u \in Times : fired[s][u].n > 0 => fired[s][u].at < d
        BY <1>0, <2>3, <3>2, <3>5 DEF Ahead
      <4>3. \A j \in Scanners \ {i} : Claimed(j, s)' => Claimed(j, s) /\ scan'[j] = scan[j]
        BY <2>5 DEF Claimed
      <4>4. \A j \in Scanners : scan[j].at \in Nat /\ scan[j].due \in Nat
        BY ScheduleAssumption DEF IInv, TypeOK
      <4>5. \A u \in Times : fired[s][u].at \in Nat /\ fired[s][u].n \in Nat /\ u \in Nat
        BY <1>0, FiredTypes DEF IInv
      <4>6. Ahead(s)'
        <5>1. SUFFICES ASSUME n # Never
              PROVE  /\ \A j \in Scanners : Claimed(j, s)' => scan'[j].at < n
                     /\ \A u \in Times : fired[s][u].n > 0 => fired[s][u].at < n
          BY <4>1 DEF Ahead
        <5>2. d < n /\ scan[i].at < n BY <1>0, <2>2, <4>4, <5>1 DEF Never
        <5>3. ASSUME NEW j \in Scanners, Claimed(j, s)' PROVE scan'[j].at < n
          <6>1. CASE j = i BY <2>5, <5>2, <5>3, <6>1 DEF Claimed
          <6>2. CASE j # i
            <7>1. scan[j].at < d /\ scan'[j] = scan[j] BY <4>2, <4>3, <5>3, <6>2
            <7> QED BY <1>0, <2>2, <4>4, <5>2, <7>1
          <6> QED BY <6>1, <6>2
        <5>4. ASSUME NEW u \in Times, fired[s][u].n > 0 PROVE fired[s][u].at < n
          <6>1. fired[s][u].at < d /\ fired[s][u].at \in Nat BY <4>2, <4>5, <5>4
          <6> QED BY <1>0, <2>2, <5>2, <6>1
        <5> QED BY <5>3, <5>4
      <4>7. Apart(s)'
        <5>1. \A j, k \in Scanners : Claimed(j, s)' /\ Claimed(k, s)' /\ j # k =>
                scan'[j].at < scan'[k].due \/ scan'[k].at < scan'[j].due
          BY <2>5, <3>2, <3>5, <4>2, <4>3 DEF Apart, Claimed
        <5>2. \A u \in Times : fired[s][u].n > 0 => u <= fired[s][u].at BY <1>0 DEF IInv, History
        <5>3. fired[s][d].n = 0 BY <1>0, <4>2, <4>5, <5>2
        <5>4. \A j \in Scanners : Claimed(j, s)' =>
                /\ fired[s][scan'[j].due].n = 0
                /\ \A u \in Times : fired[s][u].n > 0 => fired[s][u].at < scan'[j].due \/ scan'[j].at < u
          BY <2>5, <3>2, <3>5, <4>2, <4>3, <5>3 DEF Apart, Claimed
        <5> QED BY <3>2, <3>5, <4>1, <5>1, <5>4 DEF Apart
      <4> QED BY <3>5, <4>6, <4>7
    <3> QED BY <3>4, <3>5
  <2>9. On'
    <3>1. s \in enabled BY <1>0, <2>3 DEF IInv, On
    <3> QED BY <2>1, <3>1 DEF IInv, TypeOK, On, Claim
  <2> QED BY <2>4, <2>6, <2>7, <2>8, <2>9 DEF IInv
<1> QED BY <1>1, <1>2

\* The task queue takes the task, or not. What is fired was not fired before.
LEMMA EnqueueInv == ASSUME IInv, NEW i \in Scanners, Enqueue(i) PROVE IInv'
<1>9. PICK s, d, a : s = scan[i].row /\ d = scan[i].due /\ a = scan[i].at OBVIOUS
<1>0. /\ Claimed(i, s) /\ s \in Rows /\ d \in Times /\ d <= a /\ a <= now /\ now \in 0 .. MaxTime
      /\ a \in 0 .. MaxTime /\ d \in Nat /\ a <= d + MissedThreshold
  <2>1. /\ scan[i] \in [pc : {"idle", "claim", "enqueue"}, row : Rows \cup {NoRow},
                          due : 0 .. MaxTime, at : 0 .. MaxTime]
        /\ now \in 0 .. MaxTime /\ scan[i].pc = "enqueue"
    BY DEF IInv, TypeOK, Enqueue
  <2>2. s \in Rows /\ d \in Times /\ d <= a /\ a <= now /\ a <= d + MissedThreshold
    BY <1>9, <2>1 DEF IInv, Holding, Punctual
  <2> QED BY <1>9, <2>1, <2>2, ScheduleAssumption DEF Times, Claimed
<1>1. CASE fired' = fired
  <2>1. deaths \in 0 .. MaxDeaths BY DEF IInv, TypeOK
  <2> QED BY <1>1, <2>1, IdleInv DEF Enqueue
<1>2. CASE fired' = [fired EXCEPT ![s][d] = [n |-> @.n + 1, at |-> a]]
  <2>1. /\ \A t \in Rows, u \in Times : t # s \/ u # d => fired'[t][u] = fired[t][u]
        /\ fired'[s][d].n = fired[s][d].n + 1 /\ fired'[s][d].at = a
        /\ fired' \in [Rows -> [Times -> [n : Nat, at : 0 .. MaxTime]]]
    BY <1>0, <1>2 DEF IInv, TypeOK
  <2>2. scan' = [scan EXCEPT ![i] = Idle] /\ UNCHANGED <<now, row, enabled, nextRun, todo, edit, deaths, edits, stale>>
    BY DEF Enqueue
  <2>3. TypeOK'
    <3>1. Idle \in [pc : {"idle", "claim", "enqueue"}, row : Rows \cup {NoRow}, due : 0 .. MaxTime, at : 0 .. MaxTime]
      BY ScheduleAssumption DEF Idle, Never
    <3> QED BY <2>1, <2>2, <3>1 DEF IInv, TypeOK
  <2>4. Reading' /\ Holding' /\ Punctual'
    BY <2>2 DEF IInv, TypeOK, Reading, Holding, Punctual, Idle
  <2>5. History' BY <1>0, <2>1, <2>2 DEF IInv, History
  <2>6. OnTime'
    <3>1. SUFFICES ASSUME NEW t \in Rows, stale[t] = {} PROVE Ahead(t)' /\ Apart(t)'
      BY <2>2 DEF OnTime
    <3>2. Ahead(t) /\ Apart(t) BY <3>1 DEF IInv, OnTime
    <3>3. \A j \in Scanners : Claimed(j, t)' => Claimed(j, t) /\ scan'[j] = scan[j] /\ j # i
      BY <2>2 DEF IInv, TypeOK, Claimed, Idle
    <3>4. CASE t # s
      <4>1. \A u \in Times : fired'[t][u] = fired[t][u] BY <2>1, <3>4
      <4>2. \A j \in Scanners : Claimed(j, t) => scan[j].due \in Times
        BY DEF IInv, Holding, Claimed
      <4> QED BY <2>2, <3>2, <3>3, <4>1, <4>2 DEF Ahead, Apart
    <3>5. CASE t = s
      <4>1. Ahead(s)'
        <5>1. nextRun[s] # Never => a < nextRun[s] BY <1>0, <1>9, <3>2, <3>5 DEF Ahead
        <5>2. \A j \in Scanners : Claimed(j, s)' => Claimed(j, s) /\ scan'[j] = scan[j] BY <3>3, <3>5
        <5>3. nextRun[s] # Never => \A u \in Times : fired'[s][u].n > 0 => fired'[s][u].at < nextRun[s]
          <6>1. SUFFICES ASSUME nextRun[s] # Never, NEW u \in Times, fired'[s][u].n > 0
                         PROVE fired'[s][u].at < nextRun[s]
            OBVIOUS
          <6>2. CASE u = d BY <2>1, <5>1, <6>1, <6>2
          <6>3. CASE u # d BY <1>0, <2>1, <3>2, <3>5, <6>1, <6>3 DEF Ahead
          <6> QED BY <6>2, <6>3
        <5> QED BY <2>2, <3>2, <3>5, <5>2, <5>3 DEF Ahead
      <4>2. \A j \in Scanners : scan[j].at \in Nat /\ scan[j].due \in Nat /\ (Claimed(j, s) => scan[j].due \in Times /\ scan[j].due <= scan[j].at)
        BY ScheduleAssumption DEF IInv, TypeOK, Holding, Claimed
      <4>3. fired[s][d].n = 0 /\ fired'[s][d].n = 1
        <5>1. fired[s][d].n = 0 BY <1>0, <1>9, <3>2, <3>5 DEF Apart
        <5> QED BY <2>1, <5>1
      <4>4. \A j, k \in Scanners : Claimed(j, s)' /\ Claimed(k, s)' /\ j # k =>
              scan'[j].at < scan'[k].due \/ scan'[k].at < scan'[j].due
        BY <3>2, <3>3, <3>5 DEF Apart
      <4>5. \A j \in Scanners : Claimed(j, s)' => scan[j].at < d \/ a < scan[j].due
        BY <1>0, <1>9, <3>2, <3>3, <3>5 DEF Apart
      <4>6. \A j \in Scanners : Claimed(j, s)' =>
              /\ fired'[s][scan'[j].due].n = 0
              /\ \A u \in Times : fired'[s][u].n > 0 => fired'[s][u].at < scan'[j].due \/ scan'[j].at < u
        <5>1. SUFFICES ASSUME NEW j \in Scanners, Claimed(j, s)'
                       PROVE /\ fired'[s][scan[j].due].n = 0
                             /\ \A u \in Times : fired'[s][u].n > 0 => fired'[s][u].at < scan[j].due \/ scan[j].at < u
          BY <3>3, <3>5
        <5>2. Claimed(j, s) /\ scan[j].due \in Times /\ scan[j].due # d
          BY <1>0, <3>3, <3>5, <4>2, <4>5, <5>1
        <5>3. fired'[s][scan[j].due].n = 0 BY <1>0, <2>1, <3>2, <3>5, <5>2 DEF Apart
        <5>4. ASSUME NEW u \in Times, fired'[s][u].n > 0 PROVE fired'[s][u].at < scan[j].due \/ scan[j].at < u
          <6>1. CASE u = d BY <2>1, <4>5, <5>1, <6>1
          <6>2. CASE u # d BY <1>0, <2>1, <3>2, <3>5, <5>2, <5>4, <6>2 DEF Apart
          <6> QED BY <6>1, <6>2
        <5> QED BY <5>3, <5>4
      <4>7. \A u \in Times : fired'[s][u].n <= 1 BY <1>0, <2>1, <3>2, <3>5, <4>3 DEF Apart
      <4>8. \A u, v \in Times : fired'[s][u].n > 0 /\ fired'[s][v].n > 0 /\ u < v => fired'[s][u].at < v
        <5>1. SUFFICES ASSUME NEW u \in Times, NEW v \in Times,
                              fired'[s][u].n > 0, fired'[s][v].n > 0, u < v
                       PROVE fired'[s][u].at < v
          OBVIOUS
        <5>2. /\ u \in Nat /\ v \in Nat /\ fired[s][u].at \in Nat /\ fired[s][v].at \in Nat
              /\ (fired[s][u].n > 0 => u <= fired[s][u].at) /\ (fired[s][v].n > 0 => v <= fired[s][v].at)
          BY <1>0, FiredTypes DEF IInv, History
        <5>3. CASE u # d /\ v # d BY <1>0, <2>1, <3>2, <3>5, <5>1, <5>3 DEF Apart
        <5>4. CASE u = d
          <6>1. v # d /\ fired[s][v].n > 0 BY <1>0, <2>1, <5>1, <5>2, <5>4
          <6>2. fired[s][v].at < d \/ a < v BY <1>0, <1>9, <3>2, <3>5, <6>1 DEF Apart
          <6> QED BY <1>0, <2>1, <5>1, <5>2, <5>4, <6>1, <6>2
        <5>5. CASE v = d
          <6>1. u # d /\ fired[s][u].n > 0 /\ fired'[s][u].at = fired[s][u].at BY <1>0, <2>1, <5>1, <5>2, <5>5
          <6>2. fired[s][u].at < d \/ a < u BY <1>0, <1>9, <3>2, <3>5, <6>1 DEF Apart
          <6> QED BY <1>0, <5>1, <5>2, <5>5, <6>1, <6>2
        <5> QED BY <5>3, <5>4, <5>5
      <4>9. Apart(s)' BY <4>4, <4>6, <4>7, <4>8 DEF Apart
      <4> QED BY <3>5, <4>1, <4>9
    <3> QED BY <3>4, <3>5
  <2>7. On' BY <2>2 DEF IInv, On
  <2> QED BY <2>3, <2>4, <2>5, <2>6, <2>7 DEF IInv
<1> QED BY <1>1, <1>2, <1>9 DEF Enqueue

-----------------------------------------------------------------------------
(* Edits and deaths.                                                       *)

\* SetEnabled computes the time it will write.
LEMMA EditStartInv ==
    ASSUME IInv, NEW s \in Rows, NEW on \in BOOLEAN, EditStart(s, on) PROVE IInv'
<1>1. TypeOK'
  <2>1. (IF on THEN NextAfter(s, now) ELSE WhenOff(s)) \in 0 .. MaxTime + Period
    BY NextAfterLater, ScheduleAssumption DEF IInv, TypeOK, WhenOff, Never
  <2> QED BY <2>1, ScheduleAssumption DEF IInv, TypeOK, EditStart
<1>2. Reading' /\ Holding' /\ Punctual' /\ History'
  BY DEF IInv, Reading, Holding, Punctual, History, EditStart
<1>3. OnTime' BY DEF IInv, OnTime, Ahead, Apart, Claimed, EditStart
<1>4. On' BY DEF IInv, On, EditStart, WhenOff
<1> QED BY <1>1, <1>2, <1>3, <1>4 DEF IInv

\* It writes: a time that is past by now is on the row's record from here on.
LEMMA EditWriteInv == ASSUME IInv, EditWrite PROVE IInv'
<1>0. NoEdit \in [row : Rows \cup {NoRow}, on : BOOLEAN, next : 0 .. MaxTime + Period]
  BY ScheduleAssumption DEF NoEdit, Never
<1>1. CASE edit.row \notin Live
  <2>1. edit' = NoEdit /\ UNCHANGED <<now, row, enabled, nextRun, scan, todo, fired, deaths, edits, stale>>
    BY <1>1 DEF EditWrite
  <2>2. TypeOK' BY <1>0, <2>1 DEF IInv, TypeOK
  <2>3. Reading' /\ Holding' /\ Punctual' /\ History'
    BY <2>1 DEF IInv, Reading, Holding, Punctual, History
  <2>4. OnTime' /\ On' BY <2>1 DEF IInv, OnTime, On, Ahead, Apart, Claimed, NoEdit
  <2> QED BY <2>2, <2>3, <2>4 DEF IInv
<1>2. CASE edit.row \in Live
  <2>9. PICK s, n : s = edit.row /\ n = edit.next OBVIOUS
  <2>1. /\ s \in Rows /\ n \in 0 .. MaxTime + Period /\ now \in 0 .. MaxTime
        /\ MaxTime \in Nat /\ Period \in Nat
    BY <1>2, <2>9, ScheduleAssumption DEF IInv, TypeOK, Live
  <2>2. /\ enabled' = IF edit.on THEN enabled \cup {s} ELSE enabled \ {s}
        /\ nextRun' = [nextRun EXCEPT ![s] = n]
        /\ stale' = [stale EXCEPT ![s] = @ \cup ({n} \cap 1 .. now)]
        /\ edit' = NoEdit /\ UNCHANGED <<now, row, scan, todo, fired, deaths, edits>>
    BY <1>2, <2>9 DEF EditWrite
  <2>3. TypeOK'
    <3>1. {n} \cap 1 .. now \subseteq Times BY <2>1 DEF Times
    <3>2. stale' \in [Rows -> SUBSET Times] BY <2>1, <2>2, <3>1 DEF IInv, TypeOK
    <3>3. nextRun' \in [Rows -> 0 .. MaxTime + Period] /\ enabled' \subseteq Rows
      BY <2>1, <2>2 DEF IInv, TypeOK
    <3> QED BY <1>0, <2>2, <3>2, <3>3 DEF IInv, TypeOK
  <2>4. Reading' /\ Holding' /\ Punctual' /\ History'
    BY <2>2 DEF IInv, Reading, Holding, Punctual, History
  <2>5. OnTime'
    <3>1. SUFFICES ASSUME NEW t \in Rows, stale'[t] = {} PROVE Ahead(t)' /\ Apart(t)'
      BY DEF OnTime
    <3>2. stale[t] = {} /\ (t = s => n \notin 1 .. now) BY <2>1, <2>2, <3>1 DEF IInv, TypeOK
    <3>3. Ahead(t) /\ Apart(t) BY <3>2 DEF IInv, OnTime
    <3>4. Apart(t)' BY <2>2, <3>3 DEF Apart, Claimed
    <3>5. CASE t # s BY <2>2, <3>3, <3>4, <3>5 DEF IInv, TypeOK, Ahead, Claimed
    <3>6. CASE t = s
      <4>1. nextRun'[s] = n /\ (n = Never \/ now < n) BY <2>1, <2>2, <3>2, <3>6 DEF IInv, TypeOK, Never
      <4>2. \A i \in Scanners : Claimed(i, s) => scan[i].at <= now /\ scan[i].at \in Nat
        BY ScheduleAssumption DEF IInv, TypeOK, Holding, Claimed
      <4>3. \A u \in Times : fired[s][u].n > 0 => fired[s][u].at <= now /\ fired[s][u].at \in Nat
        BY <2>1, ScheduleAssumption DEF IInv, TypeOK, History
      <4>4. Ahead(s)' BY <2>1, <2>2, <4>1, <4>2, <4>3 DEF Ahead, Claimed
      <4> QED BY <3>4, <3>6, <4>4
    <3> QED BY <3>5, <3>6
  <2>6. On' BY <2>1, <2>2, <2>9 DEF IInv, TypeOK, On, NoEdit
  <2> QED BY <2>3, <2>4, <2>5, <2>6 DEF IInv
<1> QED BY <1>1, <1>2

\* A claim fails, and a server dies.
LEMMA FaultInv == ASSUME IInv, NEW i \in Scanners, ClaimFails(i) \/ Die(i) PROVE IInv'
<1>1. deaths' \in 0 .. MaxDeaths BY ScheduleAssumption DEF IInv, TypeOK, ClaimFails, Die
<1> QED BY <1>1, IdleInv DEF ClaimFails, Die

-----------------------------------------------------------------------------
(* The theorems.                                                           *)

\* Every step keeps the invariant.
LEMMA NextInv == ASSUME IInv, [Next]_vars PROVE IInv'
<1>1. CASE UNCHANGED vars
  BY <1>1 DEF vars, IInv, TypeOK, Reading, Holding, Punctual, History, OnTime, On, Ahead, Apart, Claimed
<1>2. CASE \E i \in Scanners : Scan(i) \/ ClaimFails(i) \/ Die(i)
  BY <1>2, ReadInv, FireInv, ClaimInv, EnqueueInv, FaultInv DEF Scan
<1>3. CASE \E s \in Rows : Create(s) \/ Delete(s) \/ EditStart(s, TRUE) \/ EditStart(s, FALSE)
  BY <1>3, CreateInv, DeleteInv, EditStartInv
<1>4. CASE Tick \/ EditWrite BY <1>4, TickInv, EditWriteInv
<1> QED BY <1>1, <1>2, <1>3, <1>4 DEF Next

LEMMA Invariant == Spec => []IInv
<1>1. Init => IInv BY InitInv
<1>2. IInv /\ [Next]_vars => IInv' BY NextInv
<1> QED BY <1>1, <1>2, PTL DEF Spec

\* The variables of the scans keep their types.
THEOREM ScheduleTypes == Spec => []TypeOK
<1>1. IInv => TypeOK BY DEF IInv
<1> QED BY <1>1, Invariant, PTL

\* Two scans never turn one due time into two tasks, whatever servers run, fail
\* and die, unless an edit wrote a time that was past (fire's optimistic update).
THEOREM DueTimeFiresOnce == Spec => []FiredOnce
<1>1. IInv => FiredOnce BY DEF IInv, OnTime, Apart, FiredOnce
<1> QED BY <1>1, Invariant, PTL

\* Missed occurrences are not made up for (scheduler.go: the threshold, and the
\* next time computed from the clock).
THEOREM MissedStaysMissed == Spec => []NotMadeUp
<1>1. ASSUME IInv PROVE NotMadeUp
  <2>1. SUFFICES ASSUME NEW s \in Rows, NEW t \in Times, fired[s][t].n > 0, stale[s] = {}
                 PROVE /\ fired[s][t].at <= t + MissedThreshold
                       /\ \A u \in t + 1 .. fired[s][t].at : fired[s][u].n = 0
    BY DEF NotMadeUp
  <2>2. /\ fired[s][t].at \in 0 .. MaxTime /\ t \in Nat /\ MaxTime \in Nat /\ now \in Nat
        /\ fired[s][t].at <= t + MissedThreshold
    BY <1>1, <2>1, ScheduleAssumption DEF IInv, TypeOK, Times, History
  <2>3. ASSUME NEW u \in t + 1 .. fired[s][t].at PROVE fired[s][u].n = 0
    <3>1. u \in Times /\ t < u /\ u <= fired[s][t].at BY <2>2 DEF Times
    <3>2. fired[s][u].n \in Nat BY <1>1, <3>1 DEF IInv, TypeOK
    <3>3. fired[s][u].n > 0 => fired[s][t].at < u BY <1>1, <2>1, <3>1 DEF IInv, OnTime, Apart
    <3> QED BY <2>2, <3>1, <3>2, <3>3
  <2> QED BY <2>2, <2>3
<1> QED BY <1>1, Invariant, PTL

\* What was switched off or deleted after a scan read it is not claimed
\* (SetEnabled and Delete clear the next time that the claim compares).
THEOREM OffIsNotClaimed == Spec => OffMeansOff
<1> DEFINE A == \A i \in Scanners : (scan[i].pc = "claim" /\ scan'[i].pc = "enqueue") => scan[i].row \in enabled
<1>1. ASSUME IInv, [Next]_vars PROVE [A]_vars
  <2>1. SUFFICES ASSUME Next, NEW i \in Scanners, scan[i].pc = "claim", scan'[i].pc = "enqueue"
                 PROVE scan[i].row \in enabled
    BY <1>1
  <2>2. scan[i].row \in Rows /\ scan[i].due # Never
    BY <1>1, <2>1 DEF IInv, Holding, Times, Never
  <2>3. Claim(i)
    <3>1. PICK j \in Scanners : Scan(j) \/ ClaimFails(j) \/ Die(j)
      BY <2>1 DEF Next, Tick, EditWrite, Create, Delete, EditStart
    <3>2. j = i /\ scan'[i] # Idle
      BY <1>1, <2>1, <3>1 DEF IInv, TypeOK, Scan, Read, Fire, Claim, Enqueue, ClaimFails, Die, Idle
    <3>3. ~Read(i) /\ ~Enqueue(i) /\ ~ClaimFails(i) /\ ~Die(i)
      BY <1>1, <2>1 DEF IInv, TypeOK, Read, Enqueue, ClaimFails, Die, Idle
    <3>4. ~Fire(i) BY <2>1 DEF Fire, Idle
    <3> QED BY <3>1, <3>2, <3>3, <3>4 DEF Scan
  <2>4. Unclaimed(i) BY <1>1, <2>1, <2>3 DEF Claim, IInv, TypeOK, Idle
  <2> QED BY <1>1, <2>2, <2>4 DEF Unclaimed, IInv, On
<1> QED BY <1>1, Invariant, PTL DEF Spec, OffMeansOff

-----------------------------------------------------------------------------
(* Quotas: the invariant.                                                  *)

QuotaRows == [id : Nat, limit : Nat, action : Q!Actions, status : {"ok", "warned", "limited"},
              since : BOOLEAN, month : Nat]
LoopAtWork ==
    [pc : {"usage", "reset", "clear", "lift", "decide", "enforce", "first"}, q : QuotaRows, used : Nat, then : {"lift"}]
HandlerAtWork ==
    [pc : {"set", "delete", "wipe", "reset", "clear", "lift"}, q : {Q!NoRow} \cup QuotaRows,
     limit : Nat, action : Q!Actions, then : {"idle", "lift"}]
LoopJobs == {Q!Idle} \cup LoopAtWork
HandlerJobs == {Q!Idle} \cup HandlerAtWork

QuotaTyped ==
    /\ quota \in {Q!NoRow} \cup QuotaRows
    /\ job \in [Q!Workers -> LoopJobs \cup HandlerJobs]
    /\ job[Q!Loop] \in LoopJobs /\ \A r \in Requests : job[r] \in HandlerJobs
    /\ used \in Nat /\ month \in Nat /\ calls \in Nat /\ shutdowns \in Nat /\ fresh \in Nat

\* The loop may shut down once more: it read, or made, an empty limited_at and has
\* not judged yet, or it found the edge.
Judges ==
    \/ job[Q!Loop].pc \in {"usage", "reset", "clear", "decide"} /\ ~job[Q!Loop].q.since
    \/ job[Q!Loop].pc = "lift"
Edge == job[Q!Loop].pc \in {"enforce", "first"} /\ job[Q!Loop].q.since
InHand == IF Judges \/ Edge THEN 1 ELSE 0

\* An empty limited_at is worth one shutdown, which a loop that judges this row has
\* its eyes on.
Shared == Judges /\ quota.id = job[Q!Loop].q.id
Empty == Q!Exists /\ ~quota.since
Covered ==
    /\ shutdowns + InHand <= fresh
    /\ Empty /\ ~Shared => shutdowns + InHand < fresh
    /\ job[Q!Loop].pc = "first" => job[Q!Loop].q.since

QuotaInv == QuotaTyped /\ Covered

LEMMA QuotaInitInv == ASSUME Q!Init PROVE QuotaInv
<1>1. Q!Loop \in Q!Workers BY DEF Q!Workers
<1>2. QuotaTyped BY <1>1 DEF Q!Init, QuotaTyped, LoopJobs, HandlerJobs, Q!Workers
<1>3. job[Q!Loop].pc = "idle" BY <1>1 DEF Q!Init, Q!Idle
<1>4. Covered BY <1>3 DEF Q!Init, Covered, InHand, Judges, Edge, Empty, Q!Exists
<1> QED BY <1>2, <1>4 DEF QuotaInv

-----------------------------------------------------------------------------
(* Quotas: what a step adds up to.                                         *)

\* The loop stays where it is: an empty limited_at was empty before, or counts.
LEMMA LoopRests ==
    ASSUME QuotaInv, QuotaTyped', job'[Q!Loop] = job[Q!Loop], shutdowns' = shutdowns,
           \/ fresh' = fresh /\ (Empty' => Empty /\ quota'.id = quota.id)
           \/ fresh' = fresh + 1
    PROVE  QuotaInv'
<1>1. InHand' = InHand /\ InHand \in {0, 1} BY DEF InHand, Judges, Edge
<1>2. shutdowns \in Nat /\ fresh \in Nat BY DEF QuotaInv, QuotaTyped
<1>3. fresh' = fresh => (Empty' /\ ~Shared' => Empty /\ ~Shared) BY <1>2 DEF Shared, Judges
<1>4. Covered' BY <1>1, <1>2, <1>3 DEF QuotaInv, Covered
<1> QED BY <1>4 DEF QuotaInv

LEMMA Places ==
    ASSUME QuotaInv
    PROVE  /\ Q!Loop \in Q!Workers /\ Q!Loop \notin Requests
           /\ \A r \in Requests : r \in Q!Workers /\ r # Q!Loop
           /\ \A w \in Q!Workers : w = Q!Loop \/ w \in Requests
           /\ ~Q!At(Q!Loop, "idle") => job[Q!Loop] \in LoopAtWork
           /\ \A r \in Requests : ~Q!At(r, "idle") => job[r] \in HandlerAtWork
<1>1. Q!Loop \notin Requests BY QuotaParameters DEF Q!QuotaAssumption, Q!Loop
<1>2. job[Q!Loop] \in LoopJobs /\ \A r \in Requests : job[r] \in HandlerJobs BY DEF QuotaInv, QuotaTyped
<1>3. ~Q!At(Q!Loop, "idle") => job[Q!Loop] # Q!Idle BY DEF Q!At, Q!Idle
<1>4. \A r \in Requests : ~Q!At(r, "idle") => job[r] # Q!Idle BY DEF Q!At, Q!Idle
<1>5. ~Q!At(Q!Loop, "idle") => job[Q!Loop] \in LoopAtWork
  BY <1>2, <1>3 DEF LoopJobs
<1>6. \A r \in Requests : ~Q!At(r, "idle") => job[r] \in HandlerAtWork
  BY <1>2, <1>4 DEF HandlerJobs
<1> QED BY <1>1, <1>5, <1>6 DEF Q!Workers

\* A handler goes on.
LEMMA HandlerTyped ==
    ASSUME QuotaInv, NEW r \in Requests, NEW j \in HandlerJobs, job' = [job EXCEPT ![r] = j],
           quota' \in {Q!NoRow} \cup QuotaRows, used' \in Nat, month' \in Nat, calls' \in Nat,
           shutdowns' \in Nat, fresh' \in Nat
    PROVE  QuotaTyped' /\ job'[Q!Loop] = job[Q!Loop]
<1>1. job \in [Q!Workers -> LoopJobs \cup HandlerJobs] BY DEF QuotaInv, QuotaTyped
<1>2. r \in Q!Workers /\ r # Q!Loop /\ Q!Loop \in Q!Workers BY Places
<1>3. job' \in [Q!Workers -> LoopJobs \cup HandlerJobs] BY <1>1
<1>4. job'[Q!Loop] = job[Q!Loop] BY <1>1, <1>2
<1>5. \A u \in Requests : job'[u] \in HandlerJobs BY <1>1 DEF QuotaInv, QuotaTyped, Q!Workers
<1> QED BY <1>3, <1>4, <1>5 DEF QuotaInv, QuotaTyped

LEMMA LoopTyped ==
    ASSUME QuotaInv, NEW j \in LoopJobs, job' = [job EXCEPT ![Q!Loop] = j],
           quota' \in {Q!NoRow} \cup QuotaRows, used' \in Nat, month' \in Nat, calls' \in Nat,
           shutdowns' \in Nat, fresh' \in Nat
    PROVE  QuotaTyped' /\ job'[Q!Loop] = j
<1>1. job \in [Q!Workers -> LoopJobs \cup HandlerJobs] BY DEF QuotaInv, QuotaTyped
<1>2. Q!Loop \in Q!Workers /\ Q!Loop \notin Requests BY Places
<1>3. job' \in [Q!Workers -> LoopJobs \cup HandlerJobs] BY <1>1
<1>4. job'[Q!Loop] = j BY <1>1, <1>2
<1>5. \A u \in Requests : job'[u] \in HandlerJobs BY <1>1, <1>2 DEF QuotaInv, QuotaTyped, Q!Workers
<1> QED BY <1>3, <1>4, <1>5 DEF QuotaInv, QuotaTyped

\* Where a job goes next.
LEMMA GoingOn ==
    ASSUME QuotaInv
    PROVE  /\ \A r \in Requests, pc \in {"idle", "set", "delete", "wipe", "reset", "clear", "lift"} :
                ~Q!At(r, "idle") /\ Q!Goto(r, pc) =>
                    \E j \in HandlerJobs : job' = [job EXCEPT ![r] = j]
           /\ \A pc \in {"idle", "usage", "reset", "clear", "lift", "decide", "enforce", "first"} :
                ~Q!At(Q!Loop, "idle") /\ Q!Goto(Q!Loop, pc) =>
                    \E j \in LoopJobs : /\ job' = [job EXCEPT ![Q!Loop] = j] /\ j.pc = pc
                                        /\ pc # "idle" => j.q = job[Q!Loop].q
<1>1. ASSUME NEW r \in Requests, NEW pc \in {"idle", "set", "delete", "wipe", "reset", "clear", "lift"},
             ~Q!At(r, "idle"), Q!Goto(r, pc)
      PROVE  \E j \in HandlerJobs : job' = [job EXCEPT ![r] = j]
  <2> DEFINE j == IF pc = "idle" THEN Q!Idle ELSE [job[r] EXCEPT !.pc = pc]
  <2>1. job' = [job EXCEPT ![r] = j] BY <1>1 DEF Q!Goto, QuotaInv, QuotaTyped
  <2>2. job[r] \in HandlerAtWork
    BY <1>1, Places
  <2>3. j \in HandlerJobs BY <2>2 DEF HandlerJobs, HandlerAtWork
  <2> HIDE DEF j
  <2> QED BY <2>1, <2>3
<1>2. ASSUME NEW pc \in {"idle", "usage", "reset", "clear", "lift", "decide", "enforce", "first"},
             ~Q!At(Q!Loop, "idle"), Q!Goto(Q!Loop, pc)
      PROVE  \E j \in LoopJobs : /\ job' = [job EXCEPT ![Q!Loop] = j] /\ j.pc = pc
                                 /\ pc # "idle" => j.q = job[Q!Loop].q
  <2> DEFINE j == IF pc = "idle" THEN Q!Idle ELSE [job[Q!Loop] EXCEPT !.pc = pc]
  <2>1. job' = [job EXCEPT ![Q!Loop] = j] BY <1>2 DEF Q!Goto, QuotaInv, QuotaTyped
  <2>2. job[Q!Loop] \in LoopAtWork
    BY <1>2, Places
  <2>3. j \in LoopJobs /\ j.pc = pc /\ (pc # "idle" => j.q = job[Q!Loop].q) BY <2>2 DEF LoopJobs, LoopAtWork, Q!Idle
  <2> HIDE DEF j
  <2> QED BY <2>1, <2>3
<1> QED BY <1>1, <1>2

-----------------------------------------------------------------------------
(* Quotas: handlers.                                                       *)

LEMMA BeginInv == ASSUME QuotaInv, NEW r \in Requests, Q!Set(r) \/ Q!Delete(r) \/ Q!ResetUsage(r) PROVE QuotaInv'
<1>1. PICK pc \in {"set", "delete", "wipe"}, l \in Nat, a \in Q!Actions, then \in {"idle", "lift"} :
        Q!Begin(r, pc, l, a, then)
  BY QuotaParameters DEF Q!Set, Q!Delete, Q!ResetUsage, Q!Actions, Q!QuotaAssumption
<1> DEFINE j == [pc |-> pc, q |-> quota, limit |-> l, action |-> a, then |-> then]
<1>2. UNCHANGED <<quota, used, month, shutdowns, fresh>> /\ calls' = calls + 1 /\ job' = [job EXCEPT ![r] = j]
  BY <1>1 DEF Q!Begin
<1>3. j \in HandlerJobs BY DEF HandlerJobs, HandlerAtWork, QuotaInv, QuotaTyped
<1> HIDE DEF j
<1>4. calls' \in Nat BY <1>2 DEF QuotaInv, QuotaTyped
<1>5. QuotaTyped' /\ job'[Q!Loop] = job[Q!Loop] BY <1>2, <1>3, <1>4, HandlerTyped DEF QuotaInv, QuotaTyped
<1> QED BY <1>2, <1>5, LoopRests DEF Empty, Q!Exists

\* A row is made, or its limited_at emptied, which counts, or changed otherwise.
LEMMA UpdateInv == ASSUME QuotaInv, NEW r \in Requests, Q!Update(r) PROVE QuotaInv'
<1>1. ~Q!At(r, "idle") /\ UNCHANGED <<used, month, calls, shutdowns>> BY DEF Q!Update, Q!At
<1>2. \E j \in HandlerJobs : job' = [job EXCEPT ![r] = j] BY <1>1, GoingOn DEF Q!Update
<1>3. job[r] \in HandlerAtWork
  BY <1>1, Places
<1>4. job[r].limit \in Nat /\ fresh \in Nat /\ quota \in {Q!NoRow} \cup QuotaRows /\ month \in Nat /\ calls \in Nat
  BY <1>3 DEF HandlerAtWork, QuotaInv, QuotaTyped
<1>5. /\ quota' \in {Q!NoRow} \cup QuotaRows
      /\ \/ fresh' = fresh /\ (Empty' => Empty /\ quota'.id = quota.id)
         \/ fresh' = fresh + 1
  <2>1. CASE job[r].q = Q!NoRow
    <3>1. [id |-> calls, limit |-> job[r].limit, action |-> job[r].action,
           status |-> "ok", since |-> FALSE, month |-> month] \in QuotaRows
      BY <1>3, <1>4 DEF QuotaRows, HandlerAtWork
    <3> QED BY <1>4, <2>1, <3>1 DEF Q!Update, Empty, Q!Exists
  <2>2. CASE job[r].q # Q!NoRow
    <3>1. fresh' = IF Q!Empties(r) THEN fresh + 1 ELSE fresh BY <2>2 DEF Q!Update
    <3>2. CASE Q!Mine(r)
      <4> DEFINE n == [quota EXCEPT !.limit = job[r].limit, !.action = job[r].action, !.status = "ok",
                                    !.month = month, !.since = FALSE]
      <4>1. quota \in QuotaRows BY <1>4, <3>2 DEF Q!Mine, Q!Exists
      <4>2. quota' = n BY <2>2, <3>2 DEF Q!Update
      <4>3. n \in QuotaRows /\ n.id = quota.id BY <1>3, <1>4, <4>1 DEF QuotaRows, HandlerAtWork
      <4>4. ~Q!Empties(r) => Empty BY <3>2 DEF Q!Empties, Empty, Q!Mine
      <4> QED BY <3>1, <4>2, <4>3, <4>4
    <3>3. CASE ~Q!Mine(r) BY <1>4, <2>2, <3>1, <3>3 DEF Q!Update, Q!Empties, Empty, Q!Exists
    <3> QED BY <3>2, <3>3
  <2> QED BY <2>1, <2>2
<1>6. QuotaTyped' /\ job'[Q!Loop] = job[Q!Loop]
  <2>1. fresh' \in Nat BY <1>4, <1>5
  <2> QED BY <1>1, <1>2, <1>5, <2>1, HandlerTyped DEF QuotaInv, QuotaTyped
<1> QED BY <1>1, <1>5, <1>6, LoopRests

LEMMA RemoveWipeInv == ASSUME QuotaInv, NEW r \in Requests, Q!Remove(r) \/ Q!Wipe(r) PROVE QuotaInv'
<1>1. ~Q!At(r, "idle") /\ UNCHANGED <<month, calls, shutdowns, fresh>> BY DEF Q!Remove, Q!Wipe, Q!At
<1>2. \E j \in HandlerJobs : job' = [job EXCEPT ![r] = j] BY <1>1, GoingOn DEF Q!Remove, Q!Wipe
<1>3. quota' \in {Q!NoRow, quota} /\ used' \in Nat BY DEF Q!Remove, Q!Wipe, QuotaInv, QuotaTyped
<1>4. QuotaTyped' /\ job'[Q!Loop] = job[Q!Loop]
  BY <1>1, <1>2, <1>3, HandlerTyped DEF QuotaInv, QuotaTyped
<1>5. Empty' => Empty /\ quota'.id = quota.id BY <1>3 DEF Empty, Q!Exists
<1> QED BY <1>1, <1>4, <1>5, LoopRests

-----------------------------------------------------------------------------
(* Quotas: the steps that the loop and the handlers share.                 *)

\* The row of a job, if it is still there, is changed and stays that row.
LEMMA ResetRow ==
    ASSUME QuotaInv, NEW w \in Q!Workers, Q!Reset(w)
    PROVE  quota' \in {Q!NoRow} \cup QuotaRows /\ (Empty' => Empty /\ quota'.id = quota.id)
<1>1. CASE Q!Mine(w)
  <2> DEFINE n == [quota EXCEPT !.status = "ok", !.month = month]
  <2>1. quota \in QuotaRows /\ month \in Nat BY <1>1 DEF Q!Mine, Q!Exists, QuotaInv, QuotaTyped
  <2>2. quota' = n BY <1>1 DEF Q!Reset
  <2>3. n \in QuotaRows /\ n.id = quota.id /\ n.since = quota.since BY <2>1 DEF QuotaRows
  <2> QED BY <1>1, <2>2, <2>3 DEF Empty, Q!Mine
<1>2. CASE ~Q!Mine(w)
  <2>1. quota' = quota BY <1>2 DEF Q!Reset
  <2> QED BY <2>1 DEF Empty, Q!Exists, QuotaInv, QuotaTyped
<1> QED BY <1>1, <1>2

LEMMA ClearRow ==
    ASSUME QuotaInv, NEW w \in Q!Workers, Q!Clear(w)
    PROVE  /\ quota' \in {Q!NoRow} \cup QuotaRows
           /\ Empty' => (Empty \/ Q!Empties(w)) /\ quota'.id = quota.id
<1>1. CASE Q!Mine(w)
  <2> DEFINE n == [quota EXCEPT !.since = FALSE]
  <2>1. quota \in QuotaRows BY <1>1 DEF Q!Mine, Q!Exists, QuotaInv, QuotaTyped
  <2>2. quota' = n BY <1>1 DEF Q!Clear
  <2>3. n \in QuotaRows /\ n.id = quota.id BY <2>1 DEF QuotaRows
  <2>4. Empty \/ Q!Empties(w) BY <1>1 DEF Q!Empties, Empty, Q!Mine
  <2> QED BY <2>2, <2>3, <2>4
<1>2. CASE ~Q!Mine(w)
  <2>1. quota' = quota BY <1>2 DEF Q!Clear
  <2> QED BY <2>1 DEF Empty, Q!Exists, QuotaInv, QuotaTyped
<1> QED BY <1>1, <1>2

LEMMA HandlerShares == ASSUME QuotaInv, NEW r \in Requests, Q!Reset(r) \/ Q!Clear(r) \/ Q!Lift(r) PROVE QuotaInv'
<1>1. ~Q!At(r, "idle") /\ UNCHANGED <<used, month, calls, shutdowns>> /\ r \in Q!Workers /\ r # Q!Loop
  BY Places DEF Q!Reset, Q!Clear, Q!Lift, Q!At
<1>2. job[r].then \in {"idle", "lift"}
  <2>1. job[r] \in HandlerAtWork BY <1>1, Places
  <2> QED BY <2>1 DEF HandlerAtWork
<1>3. \E j \in HandlerJobs : job' = [job EXCEPT ![r] = j]
  <2>1. Q!Lift(r) => job' = [job EXCEPT ![r] = Q!Idle] BY <1>1 DEF Q!Lift, QuotaInv, QuotaTyped
  <2>2. Q!Idle \in HandlerJobs BY DEF HandlerJobs
  <2> QED BY <1>1, <1>2, <2>1, <2>2, GoingOn DEF Q!Reset, Q!Clear
<1>4. /\ fresh \in Nat
      /\ Q!Clear(r) => fresh' = IF Q!Empties(r) THEN fresh + 1 ELSE fresh
      /\ ~Q!Clear(r) => fresh' = fresh
  BY <1>1 DEF QuotaInv, QuotaTyped, Q!Reset, Q!Clear, Q!Lift
<1>5. /\ quota' \in {Q!NoRow} \cup QuotaRows
      /\ ~(Q!Clear(r) /\ Q!Empties(r)) => (Empty' => Empty /\ quota'.id = quota.id)
  <2>1. Q!Lift(r) => quota' = quota BY DEF Q!Lift
  <2> QED BY <1>1, <2>1, ResetRow, ClearRow DEF Empty, Q!Exists, QuotaInv, QuotaTyped
<1>6. fresh' \in Nat BY <1>4
<1>7. QuotaTyped' /\ job'[Q!Loop] = job[Q!Loop] BY <1>1, <1>3, <1>5, <1>6, HandlerTyped DEF QuotaInv, QuotaTyped
<1> QED BY <1>1, <1>4, <1>5, <1>7, LoopRests

LEMMA LoopShares == ASSUME QuotaInv, Q!Reset(Q!Loop) \/ Q!Clear(Q!Loop) \/ Q!Lift(Q!Loop) PROVE QuotaInv'
<1>1. ~Q!At(Q!Loop, "idle") /\ UNCHANGED <<used, month, calls, shutdowns>> /\ Q!Loop \in Q!Workers
  BY Places DEF Q!Reset, Q!Clear, Q!Lift, Q!At
<1>2. job[Q!Loop] \in LoopAtWork
  BY <1>1, Places
<1>3. shutdowns \in Nat /\ fresh \in Nat /\ month \in Nat BY DEF QuotaInv, QuotaTyped
<1>4. CASE Q!Reset(Q!Loop)
  <2>1. PICK j \in LoopJobs : job' = [job EXCEPT ![Q!Loop] = j] /\ j.pc = "clear" /\ j.q = job[Q!Loop].q
    BY <1>1, <1>4, GoingOn DEF Q!Reset
  <2>2. quota' \in {Q!NoRow} \cup QuotaRows /\ (Empty' => Empty /\ quota'.id = quota.id) /\ fresh' = fresh
    BY <1>1, <1>4, ResetRow DEF Q!Reset
  <2>3. QuotaTyped' /\ job'[Q!Loop] = j BY <1>1, <2>1, <2>2, LoopTyped DEF QuotaInv, QuotaTyped
  <2>4. job[Q!Loop].pc = "reset" BY <1>4 DEF Q!Reset, Q!At
  <2>5. InHand' = InHand /\ (Judges' <=> Judges) BY <2>1, <2>3, <2>4 DEF InHand, Judges, Edge
  <2>6. Empty' /\ ~Shared' => Empty /\ ~Shared BY <2>1, <2>2, <2>3, <2>5 DEF Shared
  <2>7. Covered' BY <1>1, <2>1, <2>2, <2>3, <2>5, <2>6 DEF QuotaInv, Covered
  <2> QED BY <2>3, <2>7 DEF QuotaInv
<1>5. CASE Q!Clear(Q!Loop)
  <2>1. PICK j \in LoopJobs : job' = [job EXCEPT ![Q!Loop] = j] /\ j.pc = "lift" /\ j.q = job[Q!Loop].q
    BY <1>1, <1>2, <1>5, GoingOn DEF Q!Clear, LoopAtWork
  <2>2. quota' \in {Q!NoRow} \cup QuotaRows /\ (Empty' => (Empty \/ Q!Mine(Q!Loop)) /\ quota'.id = quota.id) /\ fresh' = fresh + 1
    BY <1>1, <1>5, ClearRow DEF Q!Clear, Q!Empties
  <2>a. fresh' \in Nat BY <1>3, <2>2
  <2>3. QuotaTyped' /\ job'[Q!Loop] = j BY <1>1, <1>3, <2>a, <2>1, <2>2, LoopTyped DEF QuotaInv, QuotaTyped
  <2>4. InHand' = 1 /\ Judges' /\ InHand \in {0, 1} BY <2>1, <2>3 DEF InHand, Judges
  <2>5. Empty' /\ ~Shared' => Empty /\ ~Shared
    BY <2>1, <2>2, <2>3, <2>4 DEF Shared, Q!Mine
  <2>6. Covered' BY <1>1, <1>3, <2>1, <2>2, <2>3, <2>4, <2>5 DEF QuotaInv, Covered
  <2> QED BY <2>3, <2>6 DEF QuotaInv
<1>6. CASE Q!Lift(Q!Loop)
  <2> DEFINE d == [job[Q!Loop] EXCEPT !.pc = "decide", !.q.status = "ok", !.q.since = FALSE, !.q.month = month]
             j == IF job[Q!Loop].q.limit > 0 THEN d ELSE Q!Idle
  <2>1. d \in LoopJobs /\ d.pc = "decide" /\ d.q.id = job[Q!Loop].q.id /\ ~d.q.since
    <3> DEFINE q == [job[Q!Loop].q EXCEPT !.status = "ok", !.since = FALSE, !.month = month]
    <3>1. job[Q!Loop].q \in QuotaRows BY <1>2 DEF LoopAtWork
    <3>2. q \in QuotaRows /\ q.id = job[Q!Loop].q.id /\ q.since = FALSE BY <1>3, <3>1 DEF QuotaRows
    <3>3. d = [job[Q!Loop] EXCEPT !.pc = "decide", !.q = q] BY <1>2, <3>1 DEF QuotaRows, LoopAtWork
    <3> HIDE DEF q
    <3> QED BY <1>2, <3>2, <3>3 DEF LoopJobs, LoopAtWork
  <2>2. Q!Idle \in LoopJobs /\ Q!Idle.pc = "idle" BY DEF LoopJobs, Q!Idle
  <2>3. job' = [job EXCEPT ![Q!Loop] = j] BY <1>1, <1>6 DEF Q!Lift, QuotaInv, QuotaTyped
  <2>4. UNCHANGED <<quota, fresh>> BY <1>6 DEF Q!Lift
  <2> HIDE DEF d
  <2>5. j \in LoopJobs /\ (j = d \/ j = Q!Idle) BY <2>1, <2>2
  <2> HIDE DEF j
  <2>6. QuotaTyped' /\ job'[Q!Loop] = j BY <1>1, <2>3, <2>4, <2>5, LoopTyped DEF QuotaInv, QuotaTyped
  <2>7. InHand = 1 /\ Judges BY <1>6 DEF Q!Lift, Q!At, InHand, Judges
  <2>8. CASE j = d
    <3>1. InHand' = 1 /\ Judges' BY <2>1, <2>6, <2>8 DEF InHand, Judges
    <3>2. Empty' /\ ~Shared' => Empty /\ ~Shared BY <2>1, <2>4, <2>6, <2>7, <2>8, <3>1 DEF Shared, Empty, Q!Exists
    <3>3. Covered' BY <1>1, <2>1, <2>4, <2>6, <2>7, <2>8, <3>1, <3>2 DEF QuotaInv, Covered
    <3> QED BY <2>6, <3>3 DEF QuotaInv
  <2>9. CASE j = Q!Idle
    <3>1. InHand' = 0 BY <2>2, <2>6, <2>9 DEF InHand, Judges, Edge
    <3>2. Covered' BY <1>1, <1>3, <2>2, <2>4, <2>6, <2>7, <2>9, <3>1 DEF QuotaInv, Covered
    <3> QED BY <2>6, <3>2 DEF QuotaInv
  <2> QED BY <2>5, <2>8, <2>9
<1> QED BY <1>4, <1>5, <1>6

-----------------------------------------------------------------------------
(* Quotas: the loop.                                                       *)

LEMMA JudgeInv == ASSUME QuotaInv, Q!Tick PROVE QuotaInv'
<1> DEFINE j == [pc |-> "usage", q |-> quota, used |-> 0, then |-> "lift"]
<1>1. UNCHANGED <<quota, used, month, calls, shutdowns, fresh>> /\ job' = [job EXCEPT ![Q!Loop] = j]
  BY DEF Q!Tick
<1>2. quota \in QuotaRows /\ shutdowns \in Nat /\ fresh \in Nat BY DEF Q!Tick, Q!Exists, QuotaInv, QuotaTyped
<1>3. j \in LoopJobs /\ j.pc = "usage" /\ j.q = quota BY <1>2 DEF LoopJobs, LoopAtWork
<1> HIDE DEF j
<1>4. QuotaTyped' /\ job'[Q!Loop] = j BY <1>1, <1>3, LoopTyped DEF QuotaInv, QuotaTyped
<1>5. job[Q!Loop].pc = "idle" BY DEF Q!Tick, Q!At
<1>6. InHand = 0 /\ ~Judges BY <1>5 DEF InHand, Judges, Edge
<1>7. Q!Exists /\ (Judges' <=> ~quota.since) /\ ~Edge' BY <1>3, <1>4 DEF Judges, Edge, Q!Tick
<1>8. InHand' = IF quota.since THEN 0 ELSE 1 BY <1>7 DEF InHand
<1>9. Empty' => Shared' BY <1>1, <1>3, <1>4, <1>7 DEF Empty, Shared
<1>10. ~Shared BY <1>6 DEF Shared
<1>11. Covered' BY <1>1, <1>2, <1>3, <1>4, <1>6, <1>7, <1>8, <1>9, <1>10 DEF QuotaInv, Covered, Empty
<1> QED BY <1>4, <1>11 DEF QuotaInv

LEMMA UsageInv == ASSUME QuotaInv, Q!Usage PROVE QuotaInv'
<1> DEFINE q == job[Q!Loop].q
           next == IF q.limit = 0 THEN IF q.status = "ok" THEN "idle" ELSE "reset"
                   ELSE IF q.month # month THEN "reset" ELSE "decide"
           g == [job[Q!Loop] EXCEPT !.pc = next, !.used = used]
           j == IF next = "idle" THEN Q!Idle ELSE g
<1>1. UNCHANGED <<quota, used, month, calls, shutdowns, fresh>> /\ job' = [job EXCEPT ![Q!Loop] = j]
  BY DEF Q!Usage, QuotaInv, QuotaTyped
<1>2. job[Q!Loop] \in LoopAtWork /\ job[Q!Loop].pc = "usage"
  BY Places DEF Q!Usage, Q!At
<1>3. used \in Nat /\ shutdowns \in Nat /\ fresh \in Nat BY DEF QuotaInv, QuotaTyped
<1>4. j \in LoopJobs /\ (j.pc = "idle" \/ (j.pc \in {"reset", "decide"} /\ j.q = q))
  <2>1. next \in {"idle", "reset", "decide"} OBVIOUS
  <2> HIDE DEF next
  <2>2. Q!Idle \in LoopJobs /\ Q!Idle.pc = "idle" BY DEF LoopJobs, Q!Idle
  <2>3. next # "idle" => g \in LoopJobs /\ g.pc = next /\ g.q = q BY <1>2, <1>3, <2>1 DEF LoopJobs, LoopAtWork
  <2> QED BY <2>1, <2>2, <2>3
<1> HIDE DEF j
<1>5. QuotaTyped' /\ job'[Q!Loop] = j BY <1>1, <1>4, LoopTyped DEF QuotaInv, QuotaTyped
<1>6. InHand = IF Judges THEN 1 ELSE 0 BY <1>2 DEF InHand, Edge
<1>7. CASE j.pc = "idle"
  <2>1. InHand' = 0 /\ InHand \in {0, 1} BY <1>5, <1>7 DEF InHand, Judges, Edge
  <2>2. Shared => InHand = 1 BY <1>6 DEF Shared
  <2>3. Covered' BY <1>1, <1>3, <1>5, <1>7, <2>1, <2>2 DEF QuotaInv, Covered, Empty, Q!Exists
  <2> QED BY <1>5, <2>3 DEF QuotaInv
<1>8. CASE j.pc \in {"reset", "decide"} /\ j.q = q
  <2>1. InHand' = InHand /\ (Judges' <=> Judges) BY <1>2, <1>5, <1>8 DEF InHand, Judges, Edge
  <2>2. Shared' <=> Shared BY <1>1, <1>5, <1>8, <2>1 DEF Shared
  <2>3. Covered' BY <1>1, <1>5, <1>8, <2>1, <2>2 DEF QuotaInv, Covered, Empty, Q!Exists
  <2> QED BY <1>5, <2>3 DEF QuotaInv
<1> QED BY <1>4, <1>7, <1>8

\* The loop judges. What it judged is not empty any more, or is not its row.
LEMMA ApplyInv == ASSUME QuotaInv, Q!Apply PROVE QuotaInv'
<1> DEFINE q == job[Q!Loop].q
           want == Q!Decide(q.limit, job[Q!Loop].used)
           j == [job[Q!Loop] EXCEPT !.pc = "enforce", !.q.status = want, !.q.since = Q!First(q, want)]
<1>1. UNCHANGED <<used, month, calls, shutdowns, fresh>> /\ job[Q!Loop].pc = "decide" BY DEF Q!Apply, Q!At
<1>2. job[Q!Loop] \in LoopAtWork /\ ~Q!At(Q!Loop, "idle")
  BY <1>1, Places DEF Q!At
<1>3. shutdowns \in Nat /\ fresh \in Nat /\ month \in Nat BY DEF QuotaInv, QuotaTyped
<1>4. InHand = (IF q.since THEN 0 ELSE 1) /\ (Judges <=> ~q.since)
  BY <1>1 DEF InHand, Judges, Edge
<1>5. CASE Q!Goto(Q!Loop, "idle") /\ quota' = quota
  <2>1. PICK i \in LoopJobs : job' = [job EXCEPT ![Q!Loop] = i] /\ i.pc = "idle" BY <1>2, <1>5, GoingOn
  <2>2. QuotaTyped' /\ job'[Q!Loop] = i BY <1>1, <1>5, <2>1, LoopTyped DEF QuotaInv, QuotaTyped
  <2>3. InHand' = 0 BY <2>1, <2>2 DEF InHand, Judges, Edge
  <2>4. Shared => InHand = 1 BY <1>4 DEF Shared
  <2>5. Covered' BY <1>1, <1>3, <1>4, <1>5, <2>1, <2>2, <2>3, <2>4 DEF QuotaInv, Covered, Empty, Q!Exists
  <2> QED BY <2>2, <2>5 DEF QuotaInv
<1>6. CASE /\ quota' = IF Q!Mine(Q!Loop) THEN [quota EXCEPT !.status = want, !.month = month,
                                                  !.since = @ \/ Q!First(q, want)] ELSE quota
           /\ job' = [job EXCEPT ![Q!Loop] = [@ EXCEPT !.pc = "enforce", !.q.status = want, !.q.since = Q!First(q, want)]]
  <2>1. want \in {"ok", "warned", "limited"} BY DEF Q!Decide
  <2>2. Q!First(q, want) \in BOOLEAN /\ (Q!First(q, want) => ~q.since) BY DEF Q!First
  <2> HIDE DEF want
  <2>3. j \in LoopJobs /\ j.pc = "enforce" /\ j.q.since = Q!First(q, want)
    <3> DEFINE n == [q EXCEPT !.status = want, !.since = Q!First(q, want)]
    <3>1. q \in QuotaRows BY <1>2 DEF LoopAtWork
    <3>2. n \in QuotaRows /\ n.since = Q!First(q, want) BY <2>1, <2>2, <3>1 DEF QuotaRows
    <3>3. j = [job[Q!Loop] EXCEPT !.pc = "enforce", !.q = n] BY <1>2, <3>1 DEF QuotaRows, LoopAtWork
    <3> HIDE DEF n, q
    <3> QED BY <1>2, <3>2, <3>3 DEF LoopJobs, LoopAtWork
  <2>4. job' = [job EXCEPT ![Q!Loop] = j] BY <1>6 DEF QuotaInv, QuotaTyped
  <2> HIDE DEF j
  <2>5. quota' \in {Q!NoRow} \cup QuotaRows /\ (Empty' => Empty /\ quota'.id = quota.id)
        /\ (Q!Mine(Q!Loop) /\ Q!First(q, want) => ~Empty')
    <3>1. CASE Q!Mine(Q!Loop)
      <4> DEFINE n == [quota EXCEPT !.status = want, !.month = month, !.since = @ \/ Q!First(q, want)]
      <4>1. quota \in QuotaRows BY <3>1 DEF Q!Mine, Q!Exists, QuotaInv, QuotaTyped
      <4>2. n \in QuotaRows /\ n.id = quota.id /\ n.since = (quota.since \/ Q!First(q, want))
        BY <1>3, <2>1, <2>2, <4>1 DEF QuotaRows
      <4>3. quota' = n BY <1>6, <3>1
      <4> HIDE DEF n, q
      <4>4. quota'.since = (quota.since \/ Q!First(q, want)) /\ quota'.id = quota.id /\ quota' \in QuotaRows BY <4>2, <4>3
      <4> QED BY <2>2, <3>1, <4>4 DEF Empty, Q!Mine, Q!Exists
    <3>2. CASE ~Q!Mine(Q!Loop)
      <4>1. quota' = quota BY <1>6, <3>2
      <4> QED BY <3>2, <4>1 DEF Empty, Q!Exists, QuotaInv, QuotaTyped
    <3> QED BY <3>1, <3>2
  <2>6. QuotaTyped' /\ job'[Q!Loop] = j BY <1>1, <2>3, <2>4, <2>5, LoopTyped DEF QuotaInv, QuotaTyped
  <2>7. ~Judges' /\ InHand' = (IF Q!First(q, want) THEN 1 ELSE 0) /\ ~Shared'
    BY <2>3, <2>6 DEF InHand, Judges, Edge, Shared
  <2>8. CASE Q!First(q, want)
    <3>1. InHand = 1 /\ InHand' = 1 BY <1>4, <2>2, <2>7, <2>8
    <3>2. Empty' => Empty /\ ~Shared
      <4>1. Empty' => Q!Exists /\ ~Q!Mine(Q!Loop) BY <2>5, <2>8 DEF Empty
      <4> QED BY <2>5, <4>1 DEF Shared, Q!Mine
    <3>3. Covered' BY <1>1, <2>3, <2>6, <3>1, <3>2 DEF QuotaInv, Covered
    <3> QED BY <2>6, <3>3 DEF QuotaInv
  <2>9. CASE ~Q!First(q, want)
    <3>1. InHand' = 0 /\ InHand \in {0, 1} BY <1>4, <2>7, <2>9
    <3>2. Shared => InHand = 1 BY <1>4 DEF Shared
    <3>3. Covered' BY <1>1, <1>3, <2>3, <2>5, <2>6, <3>1, <3>2 DEF QuotaInv, Covered
    <3> QED BY <2>6, <3>3 DEF QuotaInv
  <2> QED BY <2>8, <2>9
<1> QED BY <1>5, <1>6 DEF Q!Apply

\* The task is enqueued; at the edge, the machines are shut down next.
LEMMA EnforceInv == ASSUME QuotaInv, Q!Enforce PROVE QuotaInv'
<1>1. UNCHANGED <<quota, used, month, calls, shutdowns, fresh>> /\ job[Q!Loop].pc = "enforce" /\ ~Q!At(Q!Loop, "idle")
  BY DEF Q!Enforce, Q!At
<1>2. PICK j \in LoopJobs : job' = [job EXCEPT ![Q!Loop] = j]
                            /\ \/ job[Q!Loop].q.since /\ j.pc = "first" /\ j.q = job[Q!Loop].q
                               \/ ~job[Q!Loop].q.since /\ j.pc = "idle"
  BY <1>1, GoingOn DEF Q!Enforce
<1>3. QuotaTyped' /\ job'[Q!Loop] = j BY <1>1, <1>2, LoopTyped DEF QuotaInv, QuotaTyped
<1>4. InHand' = InHand /\ ~Judges /\ ~Judges' BY <1>1, <1>2, <1>3 DEF InHand, Judges, Edge
<1>5. Covered' BY <1>1, <1>2, <1>3, <1>4 DEF QuotaInv, Covered, Empty, Q!Exists, Shared
<1> QED BY <1>3, <1>5 DEF QuotaInv

LEMMA OnLimitedInv == ASSUME QuotaInv, Q!OnLimited PROVE QuotaInv'
<1>1. UNCHANGED <<quota, used, month, calls, fresh>> /\ job[Q!Loop].pc = "first" /\ ~Q!At(Q!Loop, "idle")
      /\ (shutdowns' = shutdowns \/ shutdowns' = shutdowns + 1)
  BY DEF Q!OnLimited, Q!At
<1>2. PICK j \in LoopJobs : job' = [job EXCEPT ![Q!Loop] = j] /\ j.pc = "idle" BY <1>1, GoingOn DEF Q!OnLimited
<1>3. shutdowns \in Nat /\ fresh \in Nat BY DEF QuotaInv, QuotaTyped
<1>a. shutdowns' \in Nat BY <1>1, <1>3
<1>4. QuotaTyped' /\ job'[Q!Loop] = j BY <1>a, <1>1, <1>2, <1>3, LoopTyped DEF QuotaInv, QuotaTyped
<1>5. InHand = 1 /\ ~Shared BY <1>1 DEF QuotaInv, Covered, InHand, Edge, Shared, Judges
<1>6. InHand' = 0 BY <1>2, <1>4 DEF InHand, Judges, Edge
<1>7. Covered' BY <1>1, <1>2, <1>3, <1>4, <1>5, <1>6 DEF QuotaInv, Covered, Empty, Q!Exists
<1> QED BY <1>4, <1>7 DEF QuotaInv

LEMMA QuotaNextInv == ASSUME QuotaInv, [Q!Next]_Q!vars PROVE QuotaInv'
<1>1. CASE UNCHANGED Q!vars \/ Q!Run \/ Q!Spend \/ Q!NextMonth
  <2>1. UNCHANGED <<quota, job, calls, shutdowns, fresh>> BY <1>1 DEF Q!vars, Q!Run, Q!Spend, Q!NextMonth
  <2>2. used' \in Nat /\ month' \in Nat
    <3>1. \/ used' = used /\ month' = month
          \/ used' = used + Share /\ month' = month
          \/ used' = 0 /\ month' = month + 1
      BY <1>1 DEF Q!vars, Q!Run, Q!Spend, Q!NextMonth
    <3>2. used \in Nat /\ month \in Nat /\ Share \in Nat
      BY QuotaParameters DEF QuotaInv, QuotaTyped, Q!QuotaAssumption
    <3> QED BY <3>1, <3>2
  <2>3. QuotaTyped' BY <2>1, <2>2 DEF QuotaInv, QuotaTyped
  <2> QED BY <2>1, <2>3, LoopRests DEF Empty, Q!Exists
<1>2. CASE Q!Tick \/ Q!Usage \/ Q!Apply \/ Q!Enforce \/ Q!OnLimited
  BY <1>2, JudgeInv, UsageInv, ApplyInv, EnforceInv, OnLimitedInv
<1>3. CASE \E w \in Q!Workers : Q!Reset(w) \/ Q!Clear(w) \/ Q!Lift(w)
  BY <1>3, Places, HandlerShares, LoopShares
<1>4. CASE \E r \in Requests : Q!Set(r) \/ Q!Delete(r) \/ Q!ResetUsage(r) \/ Q!Update(r) \/ Q!Remove(r) \/ Q!Wipe(r)
  BY <1>4, BeginInv, UpdateInv, RemoveWipeInv
<1> QED BY <1>1, <1>2, <1>3, <1>4 DEF Q!Next

-----------------------------------------------------------------------------
(* Quotas: the theorem.                                                    *)

\* The machines of a user are shut down at most once for each time limited_at became
\* empty, whatever the loop had read when requests set, deleted or reset the quota:
\* the loop writes limited_at where it found it empty, before it shuts down (apply).
THEOREM LimitShutsDownOnce == Q!Spec => []ShutsDownOnce
<1>1. Q!Init => QuotaInv BY QuotaInitInv
<1>2. QuotaInv /\ [Q!Next]_Q!vars => QuotaInv' BY QuotaNextInv
<1>3. QuotaInv => ShutsDownOnce
  <2>1. ASSUME QuotaInv
        PROVE  shutdowns \in Nat /\ fresh \in Nat /\ InHand \in {0, 1} /\ shutdowns + InHand <= fresh
    BY <2>1 DEF QuotaInv, QuotaTyped, Covered, InHand
  <2> QED BY <2>1 DEF ShutsDownOnce, Q!ShutsDownOnce
<1> QED BY <1>1, <1>2, <1>3, PTL DEF Q!Spec
=============================================================================
