---------------------------- MODULE ResourceLock ----------------------------
(***************************************************************************)
(* What the task queue promises about a resource (f-7-01 R-003): a task    *)
(* waits, holds its resource alone, and releases it for good. A task that  *)
(* names no resource (NoLock) never excludes anyone.                       *)
(***************************************************************************)
CONSTANTS Tasks, NoLock, LockOf

VARIABLE phase      \* "waiting" | "holding" | "released"

Init == phase = [t \in Tasks |-> "waiting"]

\* A waiting task takes its resource while nobody else holds it.
Acquire(t) ==
    /\ phase[t] = "waiting"
    /\ LockOf[t] = NoLock \/ \A u \in Tasks : phase[u] = "holding" => LockOf[u] # LockOf[t]
    /\ phase' = [phase EXCEPT ![t] = "holding"]

\* The task ends, or is withdrawn before it started.
Release(t) ==
    /\ phase[t] \in {"waiting", "holding"}
    /\ phase' = [phase EXCEPT ![t] = "released"]

Next == \E t \in Tasks : Acquire(t) \/ Release(t)

Spec == Init /\ [][Next]_phase

\* Two holders never share a resource (f-7-01 R-003).
Exclusive ==
    \A t, u \in Tasks : (phase[t] = "holding" /\ phase[u] = "holding" /\ LockOf[t] = LockOf[u])
                            => t = u \/ LockOf[t] = NoLock
=============================================================================
