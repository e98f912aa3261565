---------------------------- MODULE MCTaskQueue ----------------------------
(* Instances of TaskQueue for TLC: two tasks on one virtual machine and, in *)
(* the larger one, a task on another machine and one without a lock.        *)
EXTENDS TaskQueue

MCTwo == {1, 2}
MCResources == {"vm1", "vm2"}
MCSame == [t \in {1, 2} |-> "vm1"]
MCFour == {1, 2, 3, 4}
MCMixed == [t \in MCFour |-> IF t <= 2 THEN "vm1" ELSE IF t = 3 THEN "vm2" ELSE "no lock"]
=============================================================================
