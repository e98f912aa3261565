------------------------------ MODULE Schedule ------------------------------
(***************************************************************************)
(* Scheduled actions on virtual machines (service/ops/schedule): the scan  *)
(* of each server instance that claims a due row, and then enqueues its    *)
(* task, and the user who switches schedules off and on. Time is counted   *)
(* in steps; a daily schedule is due every Period of them.                 *)
(***************************************************************************)
EXTENDS Naturals, FiniteSets

CONSTANTS
    Scanners,        \* scheduler loops, of one or more server instances
    Rows,            \* schedules
    Batch,           \* Options.Batch
    Period,          \* steps between two occurrences of a daily schedule
    OnceAt,          \* when a one-shot schedule is due
    MissedThreshold, \* Options.MissedThreshold
    MaxTime,         \* the clock stops there (bound)
    MaxDeaths,       \* deaths of scanners and failed claims (bound)
    MaxEdits         \* SetEnabled and Delete calls (bound)

ASSUME ScheduleAssumption ==
    /\ Batch \in Nat \ {0} /\ Period \in Nat \ {0} /\ OnceAt \in 1 .. MaxTime
    /\ MissedThreshold \in Nat /\ MaxTime \in Nat /\ MaxDeaths \in Nat /\ MaxEdits \in Nat

VARIABLES
    now,
    row,       \* VMSchedule.ScheduleType of each row, or "absent", or "deleted"
    enabled,   \* VMSchedule.Enabled
    nextRun,   \* VMSchedule.NextRunAt, Never when NULL
    scan,      \* each scanner: where it is, the row as it read it, its clock
    todo,      \* the rows of each scanner's tick still to be fired, as it read them
    fired,     \* for each due time of each schedule, how many tasks were enqueued, and
               \* what fire's clock was for the last of them (history)
    edit,      \* the SetEnabled call under way: its row, and what it will write
    deaths,    \* deaths of scanners and failed claims so far
    edits,     \* SetEnabled and Delete calls so far
    stale      \* due times an edit wrote when they were past already (history)

vars == <<now, row, enabled, nextRun, scan, todo, fired, edit, deaths, edits, stale>>

Never == 0
Times == 1 .. MaxTime
NoRow == "no row"
Idle == [pc |-> "idle", row |-> NoRow, due |-> Never, at |-> 0]
NoEdit == [row |-> NoRow, on |-> FALSE, next |-> Never]

Live == {s \in Rows : row[s] \in {"once", "daily"}}

\* NextAfter: a one-shot schedule has no next time.
NextAfter(s, t) == IF row[s] = "once" THEN Never ELSE (t \div Period + 1) * Period

Init ==
    /\ now = 0 /\ row = [s \in Rows |-> "absent"] /\ enabled = {}
    /\ nextRun = [s \in Rows |-> Never]
    /\ scan = [i \in Scanners |-> Idle] /\ todo = [i \in Scanners |-> {}]
    /\ fired = [s \in Rows |-> [t \in Times |-> [n |-> 0, at |-> 0]]]
    /\ edit = NoEdit /\ deaths = 0 /\ edits = 0
    /\ stale = [s \in Rows |-> {}]

\* A one-shot schedule takes its date, which is not past, another the next
\* occurrence.
Create(s) ==
    /\ row[s] = "absent"
    /\ \/ /\ now < OnceAt /\ row' = [row EXCEPT ![s] = "once"]
          /\ nextRun' = [nextRun EXCEPT ![s] = OnceAt]
       \/ /\ row' = [row EXCEPT ![s] = "daily"]
          /\ nextRun' = [nextRun EXCEPT ![s] = NextAfter(s, now)]
    /\ enabled' = enabled \cup {s}
    /\ UNCHANGED <<now, scan, todo, fired, edit, deaths, edits, stale>>

Delete(s) ==
    /\ s \in Live /\ edits < MaxEdits /\ edits' = edits + 1
    /\ row' = [row EXCEPT ![s] = "deleted"]
    /\ enabled' = enabled \ {s} /\ nextRun' = [nextRun EXCEPT ![s] = Never]
    /\ UNCHANGED <<now, scan, todo, fired, edit, deaths, stale>>

Tick ==
    /\ now < MaxTime /\ now' = now + 1
    /\ UNCHANGED <<row, enabled, nextRun, scan, todo, fired, edit, deaths, edits, stale>>

\* tick reads the first Batch of the due rows, by their due time. (Mutant: not at
\* the due time itself.)
Due(s) == s \in enabled /\ nextRun[s] # Never /\ nextRun[s] <= now
Selected_Mutant(s) == Due(s) /\ nextRun[s] < now
Selected(s) == Due(s)
Batches ==
    {B \in SUBSET {s \in Rows : Selected(s)} :
        /\ B # {} /\ Cardinality(B) <= Batch
        /\ \A s \in Rows \ B : Selected(s) =>
              Cardinality(B) = Batch /\ \A b \in B : nextRun[b] <= nextRun[s]}

Read(i) ==
    /\ scan[i] = Idle /\ todo[i] = {}
    /\ \E B \in Batches :
          todo' = [todo EXCEPT ![i] = {[row |-> s, due |-> nextRun[s]] : s \in B}]
    /\ UNCHANGED <<now, row, enabled, nextRun, scan, fired, edit, deaths, edits, stale>>

\* fire takes the rows in their order and looks at the clock again, perhaps much
\* later.
Fire(i) ==
    /\ scan[i] = Idle
    /\ \E r \in todo[i] :
          /\ \A q \in todo[i] : r.due <= q.due
          /\ todo' = [todo EXCEPT ![i] = @ \ {r}]
          /\ scan' = [scan EXCEPT ![i] = [pc |-> "claim", row |-> r.row, due |-> r.due, at |-> now]]
    /\ UNCHANGED <<now, row, enabled, nextRun, fired, edit, deaths, edits, stale>>

\* The optimistic update: only if the row still has the time that was read.
\* (Mutant: WHERE id = ? alone.)
Unclaimed_Mutant(i) == TRUE
Unclaimed(i) == nextRun[scan[i].row] = scan[i].due

\* Too late a claim is a skip. (Mutant: the threshold is not looked at.)
Missed_Mutant(i) == FALSE
Missed(i) == scan[i].at - scan[i].due > MissedThreshold

\* The next occurrence is after the clock. (Mutant: after the one at hand.)
NextFrom_Mutant(i) == scan[i].due
NextFrom(i) == scan[i].at

Claim(i) ==
    /\ scan[i].pc = "claim"
    /\ LET s == scan[i].row
       IN  IF Unclaimed(i)
           THEN /\ nextRun' = [nextRun EXCEPT ![s] = NextAfter(s, NextFrom(i))]
                /\ scan' = [scan EXCEPT ![i] =
                               IF Missed(i) THEN Idle ELSE [@ EXCEPT !.pc = "enqueue"]]
           ELSE scan' = [scan EXCEPT ![i] = Idle] /\ UNCHANGED nextRun
    /\ UNCHANGED <<now, row, enabled, todo, fired, edit, deaths, edits, stale>>

\* The task queue takes the task, or has an error. What mark then writes to the
\* row (last_result, last_task_id) is only shown to users and left out.
Enqueue(i) ==
    /\ scan[i].pc = "enqueue"
    /\ scan' = [scan EXCEPT ![i] = Idle]
    /\ fired' \in {fired, [fired EXCEPT ![scan[i].row][scan[i].due] =
                                       [n |-> @.n + 1, at |-> scan[i].at]]}
    /\ UNCHANGED <<now, row, enabled, nextRun, todo, edit, deaths, edits, stale>>

\* SetEnabled computes the next time, then writes it. (Mutant: switching off
\* leaves the next time where it is.)
WhenOff_Mutant(s) == nextRun[s]
WhenOff(s) == Never
EditStart(s, on) ==
    /\ s \in Live /\ edit = NoEdit /\ edits < MaxEdits /\ edits' = edits + 1
    /\ edit' = [row |-> s, on |-> on, next |-> IF on THEN NextAfter(s, now) ELSE WhenOff(s)]
    /\ UNCHANGED <<now, row, enabled, nextRun, scan, todo, fired, deaths, stale>>

EditWrite ==
    /\ edit # NoEdit /\ edit' = NoEdit
    /\ IF edit.row \in Live
       THEN /\ enabled' = IF edit.on THEN enabled \cup {edit.row} ELSE enabled \ {edit.row}
            /\ nextRun' = [nextRun EXCEPT ![edit.row] = edit.next]
            /\ stale' = [stale EXCEPT ![edit.row] = @ \cup ({edit.next} \cap 1 .. now)]
       ELSE UNCHANGED <<enabled, nextRun, stale>>
    /\ UNCHANGED <<now, row, scan, todo, fired, deaths, edits>>

\* The update fails: fire gives the row up, and a later tick reads it again.
ClaimFails(i) ==
    /\ scan[i].pc = "claim" /\ deaths < MaxDeaths /\ deaths' = deaths + 1
    /\ scan' = [scan EXCEPT ![i] = Idle]
    /\ UNCHANGED <<now, row, enabled, nextRun, todo, fired, edit, edits, stale>>

\* A server instance dies, and starts again with nothing in hand.
Die(i) ==
    /\ <<scan[i], todo[i]>> # <<Idle, {}>> /\ deaths < MaxDeaths /\ deaths' = deaths + 1
    /\ scan' = [scan EXCEPT ![i] = Idle] /\ todo' = [todo EXCEPT ![i] = {}]
    /\ UNCHANGED <<now, row, enabled, nextRun, fired, edit, edits, stale>>

Scan(i) == Read(i) \/ Fire(i) \/ Claim(i) \/ Enqueue(i)

Next ==
    \/ Tick \/ EditWrite
    \/ \E i \in Scanners : Scan(i) \/ ClaimFails(i) \/ Die(i)
    \/ \E s \in Rows : Create(s) \/ Delete(s) \/ EditStart(s, TRUE) \/ EditStart(s, FALSE)

Spec == Init /\ [][Next]_vars

\* The ticker of each instance keeps firing and every row a scan read is fired;
\* nobody has to edit anything, and time need not pass.
FairSpec == Spec /\ \A i \in Scanners : WF_vars(Scan(i))

-----------------------------------------------------------------------------
(* Properties.                                                             *)

TypeOK ==
    /\ now \in 0 .. MaxTime /\ enabled \subseteq Rows
    /\ row \in [Rows -> {"absent", "once", "daily", "deleted"}]
    /\ nextRun \in [Rows -> 0 .. MaxTime + Period]
    /\ scan \in [Scanners -> [pc : {"idle", "claim", "enqueue"}, row : Rows \cup {NoRow},
                              due : 0 .. MaxTime, at : 0 .. MaxTime]]
    /\ todo \in [Scanners -> SUBSET [row : Rows, due : Times]]
    /\ fired \in [Rows -> [Times -> [n : Nat, at : 0 .. MaxTime]]]
    /\ edit \in [row : Rows \cup {NoRow}, on : BOOLEAN, next : 0 .. MaxTime + Period]
    /\ deaths \in 0 .. MaxDeaths /\ edits \in 0 .. MaxEdits /\ stale \in [Rows -> SUBSET Times]

\* Two scans never turn one due time into two tasks (scheduler.go, fire: "for
\* deletion, twice is a disaster"), as long as no edit that had computed a next
\* time wrote it when it was past.
FiredOnce == \A s \in Rows, t \in Times : stale[s] = {} => fired[s][t].n <= 1

\* A row that was read before the user switched the schedule off, or deleted it,
\* is not claimed afterwards: the claim does not look at enabled, it relies on
\* SetEnabled clearing next_run_at, and SetEnabled never brings a row back.
OffMeansOff ==
    [][\A i \in Scanners : (scan[i].pc = "claim" /\ scan'[i].pc = "enqueue")
            => scan[i].row \in enabled]_vars

\* Occurrences missed while no scanner ran are not made up for: none is carried
\* out more than MissedThreshold late, nor when the next one was due already, so
\* that two of them never follow each other at once (scheduler.go, "deliberately
\* not made up for"). But for the same late edits.
NotMadeUp ==
    \A s \in Rows, t \in Times :
        fired[s][t].n > 0 /\ stale[s] = {} =>
            /\ fired[s][t].at <= t + MissedThreshold
            /\ \A u \in t + 1 .. fired[s][t].at : fired[s][u].n = 0

\* A due schedule is taken by a scan, or edited or deleted.
DueIsTaken == \A s \in Rows : Due(s) ~> ~Due(s)
=============================================================================
