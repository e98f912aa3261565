---------------------------- MODULE QuotaEnforce ----------------------------
(***************************************************************************)
(* The quota of one user, node and dimension (service/ops/quotaenforce):   *)
(* the loop that judges what was used, the requests that set, delete and   *)
(* reset the quota meanwhile, the tasks that carry the punishment to the   *)
(* node or lift it. A job makes one step for each round trip.              *)
(***************************************************************************)
EXTENDS Naturals, Sequences

CONSTANTS
    Requests,     \* handlers at work
    Limits,       \* limits that are set; 0 is no limit
    Share,        \* what is used at a time
    MaxUsed,      \* what is used in a month (bound)
    WarnPercent,  \* WarnRatioPercent
    MaxMonths, MaxCalls, MaxFaults  \* bounds; faults are tasks that fail or are not enqueued

Loop == "loop"  \* the loop of the service, which is no handler

QuotaAssumption ==
    /\ Limits \subseteq Nat /\ {Share, MaxUsed, WarnPercent, MaxMonths, MaxCalls, MaxFaults} \subseteq Nat
    /\ Loop \notin Requests

VARIABLES
    row,    \* model.ResourceQuota, or NoRow
    used,   \* the sum of the daily statistics of this month
    month,
    tasks,  \* quota tasks in flight, in the order of their rows
    node,   \* what the node does to the user: "none" or an action
    job,    \* the loop and each handler: where it is, and what it read
    calls, faults,
    shutdowns,  \* how often the machines were shut down (history)
    fresh       \* how often limited_at became empty again (history)

vars == <<row, used, month, tasks, node, job, calls, faults, shutdowns, fresh>>

Workers == Requests \cup {Loop}
Actions == {"throttle", "shutdown"}
NoRow == [id |-> 0]
Idle == [pc |-> "idle"]
Exists == row # NoRow

Init ==
    /\ row = NoRow /\ used = 0 /\ month = 1 /\ tasks = <<>> /\ node = "none"
    /\ job = [w \in Workers |-> Idle] /\ calls = 0 /\ faults = 0 /\ shutdowns = 0 /\ fresh = 0

-----------------------------------------------------------------------------
(* Steps the jobs share.                                                   *)

At(w, pc) == job[w].pc = pc
Goto(w, pc) == job' = [job EXCEPT ![w] = IF pc = "idle" THEN Idle ELSE [@ EXCEPT !.pc = pc]]
Mine(w) == Exists /\ row.id = job[w].q.id
Limited(q) == q.status = "limited"

\* reset: the status first, the times after it, the node last.
Reset(w) ==
    /\ At(w, "reset") /\ Goto(w, "clear")
    /\ row' = IF Mine(w) THEN [row EXCEPT !.status = "ok", !.month = month] ELSE row
    /\ UNCHANGED <<used, month, tasks, node, calls, faults, shutdowns, fresh>>

\* clearEnforcement. The loop takes the time for empty from then on, whether or
\* not the row is still there.
Empties(w) == Mine(w) /\ row.since
Clear(w) ==
    /\ At(w, "clear") /\ Goto(w, job[w].then)
    /\ row' = IF Mine(w) THEN [row EXCEPT !.since = FALSE] ELSE row
    /\ fresh' = IF w = Loop \/ Empties(w) THEN fresh + 1 ELSE fresh
    /\ UNCHANGED <<used, month, tasks, node, calls, faults, shutdowns>>

\* enqueue: an error is only logged.
Enqueue(enforce, action) ==
    \/ tasks' = Append(tasks, [enforce |-> enforce, action |-> action]) /\ UNCHANGED faults
    \/ faults < MaxFaults /\ faults' = faults + 1 /\ UNCHANGED tasks

\* The end of reset, and revert.
Lift(w) ==
    /\ At(w, "lift")
    /\ IF Limited(job[w].q) THEN Enqueue(FALSE, job[w].q.action) ELSE UNCHANGED <<tasks, faults>>
    /\ job' = [job EXCEPT ![w] = IF w = Loop /\ @.q.limit > 0
                                 THEN [@ EXCEPT !.pc = "decide", !.q.status = "ok", !.q.since = FALSE, !.q.month = month]
                                 ELSE Idle]
    /\ UNCHANGED <<row, used, month, node, calls, shutdowns, fresh>>

-----------------------------------------------------------------------------
(* Evaluate, from Loop.tick.                                               *)

Tick ==
    /\ At(Loop, "idle") /\ Exists
    /\ job' = [job EXCEPT ![Loop] = [pc |-> "usage", q |-> row, used |-> 0, then |-> "lift"]]
    /\ UNCHANGED <<row, used, month, tasks, node, calls, faults, shutdowns, fresh>>

\* usageOf; an unlimited quota, and one of another month, are reset first.
Usage ==
    /\ At(Loop, "usage")
    /\ LET q == job[Loop].q
           next == IF q.limit = 0 THEN IF q.status = "ok" THEN "idle" ELSE "reset"
                   ELSE IF q.month # month THEN "reset" ELSE "decide"
       IN job' = [job EXCEPT ![Loop] = IF next = "idle" THEN Idle ELSE [@ EXCEPT !.pc = next, !.used = used]]
    /\ UNCHANGED <<row, used, month, tasks, node, calls, faults, shutdowns, fresh>>

Decide(limit, amount) ==
    IF limit = 0 THEN "ok"
    ELSE IF amount >= limit THEN "limited"
    ELSE IF amount * 100 >= limit * WarnPercent THEN "warned" ELSE "ok"

\* decide, and the first statement of apply. limited_at is written once. (Mutant:
\* whoever is limited is limited for the first time.)
First_Mutant(q, want) == want = "limited"
First(q, want) == want = "limited" /\ ~q.since
Apply ==
    /\ At(Loop, "decide")
    /\ LET q == job[Loop].q
           want == Decide(q.limit, job[Loop].used)
       IN IF want = q.status THEN Goto(Loop, "idle") /\ UNCHANGED row
          ELSE /\ row' = IF Mine(Loop) THEN [row EXCEPT !.status = want, !.month = month,
                                                        !.since = @ \/ First(q, want)] ELSE row
               /\ job' = [job EXCEPT ![Loop] = [@ EXCEPT !.pc = "enforce", !.q.status = want, !.q.since = First(q, want)]]
    /\ UNCHANGED <<used, month, tasks, node, calls, faults, shutdowns, fresh>>

Enforce ==
    /\ At(Loop, "enforce") /\ Enqueue(Limited(job[Loop].q), job[Loop].q.action)
    /\ Goto(Loop, IF job[Loop].q.since THEN "first" ELSE "idle")
    /\ UNCHANGED <<row, used, month, node, calls, shutdowns, fresh>>

\* onLimited.
OnLimited ==
    /\ At(Loop, "first") /\ Goto(Loop, "idle")
    /\ shutdowns' = IF job[Loop].q.action = "shutdown" THEN shutdowns + 1 ELSE shutdowns
    /\ UNCHANGED <<row, used, month, tasks, node, calls, faults, fresh>>

-----------------------------------------------------------------------------
(* Requests. Each begins with the row it reads.                            *)

Begin(r, pc, limit, action, then) ==
    /\ At(r, "idle") /\ calls < MaxCalls /\ calls' = calls + 1
    /\ job' = [job EXCEPT ![r] = [pc |-> pc, q |-> row, limit |-> limit, action |-> action, then |-> then]]
    /\ UNCHANGED <<row, used, month, tasks, node, faults, shutdowns, fresh>>

Set(r) == \E l \in Limits, a \in Actions : Begin(r, "set", l, a, "idle")
Delete(r) == Exists /\ Begin(r, "delete", 0, "throttle", "idle")
ResetUsage(r) == Exists /\ Begin(r, "wipe", 0, "throttle", "lift")

\* Set creates the row, or changes the one it read and clears its times, here and
\* in a statement of their own; a second row is refused by the unique index.
Update(r) ==
    /\ At(r, "set")
    /\ LET j == job[r]
       IN IF j.q = NoRow
          THEN /\ Goto(r, "idle")
               /\ row' = IF Exists THEN row ELSE [id |-> calls, limit |-> j.limit, action |-> j.action,
                                                  status |-> "ok", since |-> FALSE, month |-> month]
               /\ fresh' = IF Exists THEN fresh ELSE fresh + 1
          ELSE /\ Goto(r, "clear") /\ fresh' = IF Empties(r) THEN fresh + 1 ELSE fresh
               /\ row' = IF Mine(r) THEN [row EXCEPT !.limit = j.limit, !.action = j.action,
                                                     !.status = "ok", !.month = month, !.since = FALSE] ELSE row
    /\ UNCHANGED <<used, month, tasks, node, calls, faults, shutdowns>>

Remove(r) ==
    /\ At(r, "delete") /\ Goto(r, "lift") /\ row' = IF Mine(r) THEN NoRow ELSE row
    /\ UNCHANGED <<used, month, tasks, node, calls, faults, shutdowns, fresh>>

Wipe(r) ==
    /\ At(r, "wipe") /\ Goto(r, "reset") /\ used' = 0
    /\ UNCHANGED <<row, month, tasks, node, calls, faults, shutdowns, fresh>>

-----------------------------------------------------------------------------
(* Executor.Run and quotaEnforce on the node, and what goes on meanwhile.  *)

QuotaEnforceOnNode(t) == IF t.enforce THEN t.action ELSE "none"
Run ==
    /\ tasks # <<>> /\ tasks' = Tail(tasks)
    /\ \/ node' = QuotaEnforceOnNode(Head(tasks)) /\ UNCHANGED faults
       \/ faults < MaxFaults /\ faults' = faults + 1 /\ UNCHANGED node
    /\ UNCHANGED <<row, used, month, job, calls, shutdowns, fresh>>

Spend == used + Share <= MaxUsed /\ used' = used + Share
         /\ UNCHANGED <<row, month, tasks, node, job, calls, faults, shutdowns, fresh>>
NextMonth == month < MaxMonths /\ month' = month + 1 /\ used' = 0
             /\ UNCHANGED <<row, tasks, node, job, calls, faults, shutdowns, fresh>>

Next ==
    \/ Tick \/ Usage \/ Apply \/ Enforce \/ OnLimited
    \/ \E w \in Workers : Reset(w) \/ Clear(w) \/ Lift(w)
    \/ \E r \in Requests : Set(r) \/ Delete(r) \/ ResetUsage(r) \/ Update(r) \/ Remove(r) \/ Wipe(r)
    \/ Run \/ Spend \/ NextMonth

Spec == Init /\ [][Next]_vars

-----------------------------------------------------------------------------
(* Properties.                                                             *)

\* The machines of a user are shut down at most once for each time the quota was
\* made, its limited_at was emptied by a request, or the loop began it anew with a
\* month, whatever the loop read before
\* that and wrote after it (comment in apply: limited_at is the edge).
ShutsDownOnce == shutdowns <= fresh
=============================================================================
