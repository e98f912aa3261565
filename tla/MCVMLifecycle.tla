--------------------------- MODULE MCVMLifecycle ---------------------------
(***************************************************************************)
(* Instances for TLC of VMLifecycle and of Disks, which share nothing: in  *)
(* each behaviour one of them runs and the other stays as it begins, where *)
(* nothing of VMLifecycle's Fairness changes it.                           *)
(***************************************************************************)
EXTENDS VMLifecycle

CONSTANTS Files, System, Pools, Home, MaxAsks, MaxMissed, MaxFaults

VARIABLES
    part,
    power, conf, live, exists, fresh, mirror, queue, work, busy, asks, missed, faults, torn

D == INSTANCE Disks WITH
    ops <- work, calls <- asks, lost <- missed, MaxCalls <- MaxAsks, MaxLost <- MaxMissed

ASSUME DisksParameters == D!DisksAssumption

ofD == <<power, conf, live, exists, fresh, mirror, queue, work, busy, asks, missed, faults, torn>>

MCInit == part \in {"machine", "disks"} /\ Init /\ D!Init
MCNext ==
    \/ part = "machine" /\ Next /\ UNCHANGED <<part, ofD>>
    \/ part = "disks" /\ D!Next /\ UNCHANGED <<part, vars>>
all == <<part, vars, ofD>>

\* FairSpec of VMLifecycle, where it is it that runs.
MCSpec ==
    /\ MCInit /\ [][MCNext]_all
    /\ WF_vars(part = "machine" /\ Look) /\ WF_vars(part = "machine" /\ Sync)

\* BootsLatest of Disks.
BootsLatest == D!BootsLatest
=============================================================================
