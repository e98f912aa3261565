---------------------------- MODULE MCSchedule -----------------------------
(***************************************************************************)
(* Instances for TLC of Schedule and of QuotaEnforce, which share nothing: *)
(* in each behaviour one of them runs and the other stays as it begins.    *)
(***************************************************************************)
EXTENDS Schedule

CONSTANTS Requests, Limits, Share, MaxUsed, WarnPercent, MaxMonths, MaxCalls, MaxFaults

VARIABLES part, quota, used, month, tasks, node, job, calls, faults, shutdowns, fresh

Q == INSTANCE QuotaEnforce WITH row <- quota

ASSUME QuotaParameters == Q!QuotaAssumption

ofQ == <<quota, used, month, tasks, node, job, calls, faults, shutdowns, fresh>>

MCInit == part \in {"schedule", "quota"} /\ Init /\ Q!Init
MCNext ==
    \/ part = "schedule" /\ Next /\ UNCHANGED <<part, ofQ>>
    \/ part = "quota" /\ Q!Next /\ UNCHANGED <<part, vars>>
all == <<part, vars, ofQ>>

\* FairSpec of Schedule, where it is Schedule that runs.
MCSpec ==
    MCInit /\ [][MCNext]_all /\ \A i \in Scanners : WF_vars(part = "schedule" /\ Scan(i))

\* QuotaEnforce's ShutsDownOnce.
ShutsDownOnce == Q!ShutsDownOnce
=============================================================================
