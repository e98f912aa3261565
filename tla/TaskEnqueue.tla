---------------------------- MODULE TaskEnqueue ----------------------------
(***************************************************************************)
(* Queue.Enqueue with an idempotency key (service/ops/task/queue.go): the  *)
(* requests of one intent, all with the same key, against the tasks table  *)
(* and its unique index. Each database round trip is one step.             *)
(*                                                                         *)
(* What becomes of a task is the business of module TaskQueue; here it is  *)
(* in flight, then terminal, then cleaned up.                              *)
(***************************************************************************)
EXTENDS Naturals, FiniteSets

CONSTANTS
    Requests,  \* Enqueue calls with the key
    TaskIds    \* identifiers of rows, Nat without 0; one for each request

ASSUME EnqueueAssumption == TaskIds \subseteq Nat \ {0} /\ IsFiniteSet(TaskIds)

VARIABLES
    row,     \* state of each row
    keyed,   \* the rows whose idempotency_key is the key
    req,     \* where each request is
    found,   \* the existing task it read
    answer,  \* the task it returned
    settled  \* tasks that were terminal when the request arrived (history)

vars == <<row, keyed, req, found, answer, settled>>

NoTask == 0

InFlight == {t \in TaskIds : row[t] = "active"}
Terminal == {t \in TaskIds : row[t] = "terminal"}

Init ==
    /\ row = [t \in TaskIds |-> "absent"] /\ keyed = {}
    /\ req = [r \in Requests |-> "new"]
    /\ found = [r \in Requests |-> NoTask] /\ answer = [r \in Requests |-> NoTask]
    /\ settled = [r \in Requests |-> {}]

Goto(r, l) == req' = [req EXCEPT ![r] = l]
Return(r, t) == answer' = [answer EXCEPT ![r] = t] /\ Goto(r, "done")

Arrive(r) ==
    /\ req[r] = "new" /\ Goto(r, "insert")
    /\ settled' = [settled EXCEPT ![r] = {t \in TaskIds : row[t] \in {"terminal", "deleted"}}]
    /\ UNCHANGED <<row, keyed, found, answer>>

\* Create: the unique index lets one row have the key. (Mutant: it has a name
\* nobody else uses.)
Free_Mutant == TRUE
Free == keyed = {}
InsertRow(r, retry) ==
    /\ IF Free
       THEN \E t \in TaskIds :
                /\ row[t] = "absent" /\ \A u \in TaskIds : u < t => row[u] # "absent"
                /\ row' = [row EXCEPT ![t] = "active"] /\ keyed' = keyed \cup {t}
                /\ Return(r, t)
       ELSE Goto(r, retry) /\ UNCHANGED <<row, keyed, answer>>
    /\ UNCHANGED <<found, settled>>

Insert(r) == req[r] = "insert" /\ InsertRow(r, "find")
Reinsert(r) == req[r] = "reinsert" /\ InsertRow(r, "winner")

\* findByIdempotencyKey after a conflict. A task in flight is the answer, the
\* key of a terminal one is taken from it. (Mutants: any task is the answer; the
\* key is taken from any task.)
IsTerminal_Never(t) == FALSE
IsTerminal_Always(t) == TRUE
IsTerminal(t) == t \in Terminal
Find(r) ==
    /\ req[r] = "find"
    /\ IF keyed = {}
       THEN Goto(r, "failed") /\ UNCHANGED <<found, answer>>
       ELSE \E t \in keyed :
                IF IsTerminal(t)
                THEN Goto(r, "clear") /\ found' = [found EXCEPT ![r] = t] /\ UNCHANGED answer
                ELSE Return(r, t) /\ UNCHANGED found
    /\ UNCHANGED <<row, keyed, settled>>

Clear(r) ==
    /\ req[r] = "clear" /\ Goto(r, "reinsert")
    /\ keyed' = keyed \ {found[r]}
    /\ UNCHANGED <<row, found, answer, settled>>

\* Another request was faster: its task is the answer.
Winner(r) ==
    /\ req[r] = "winner"
    /\ \/ \E t \in keyed : Return(r, t)
       \/ keyed = {} /\ Goto(r, "failed") /\ UNCHANGED answer
    /\ UNCHANGED <<row, keyed, found, settled>>

\* The verdict a task ends with, here only that it has one.
Verdict == "terminal"
\* The queue settles the task; Cleanup deletes its row, and the key with it.
Settle(t) ==
    /\ row[t] = "active" /\ row' = [row EXCEPT ![t] = Verdict]
    /\ UNCHANGED <<keyed, req, found, answer, settled>>

Delete(t) ==
    /\ row[t] = "terminal" /\ row' = [row EXCEPT ![t] = "deleted"]
    /\ keyed' = keyed \ {t}
    /\ UNCHANGED <<req, found, answer, settled>>

\* The process dies with all its requests.
Crash ==
    /\ req' = [r \in Requests |-> IF req[r] \in {"new", "done"} THEN req[r] ELSE "failed"]
    /\ UNCHANGED <<row, keyed, found, answer, settled>>

Call(r) == Arrive(r) \/ Insert(r) \/ Find(r) \/ Clear(r) \/ Reinsert(r) \/ Winner(r)

Next ==
    \/ \E r \in Requests : Call(r)
    \/ \E t \in TaskIds : Settle(t) \/ Delete(t)
    \/ Crash

Spec == Init /\ [][Next]_vars

-----------------------------------------------------------------------------
(* Properties.                                                             *)

TypeOK ==
    /\ row \in [TaskIds -> {"absent", "active", "terminal", "deleted"}]
    /\ keyed \subseteq TaskIds
    /\ req \in [Requests -> {"new", "insert", "find", "clear", "reinsert", "winner",
                             "done", "failed"}]
    /\ found \in [Requests -> TaskIds \cup {NoTask}]
    /\ answer \in [Requests -> TaskIds \cup {NoTask}]
    /\ settled \in [Requests -> SUBSET TaskIds]

\* One intent is carried out by one task at a time, although keys are taken away
\* and given again by concurrent retries (R-005; Spec.IdempotencyKey).
OneInFlight == \A t, u \in InFlight : t = u

\* A request is answered with a task that was not yet terminal when the request
\* arrived: a retry after a failure never gets the failed task (the comment in
\* Enqueue), whoever else retries.
FreshAnswer == \A r \in Requests : answer[r] \notin settled[r]
=============================================================================
