---------------------------- MODULE MCWatchdog -----------------------------
(***************************************************************************)
(* Instances for TLC of Watchdog, Firewalls, SecurityGroups, PublicIP and  *)
(* NodeEnroll, which share nothing: in each behaviour one of them runs and *)
(* the others stay as they begin.                                          *)
(***************************************************************************)
EXTENDS Watchdog, TLC

CONSTANTS
    FirewallCalls, FirewallFaults,      \* of Firewalls: its MaxCalls and MaxFaults
    Groups, Operators, MaxEdits,        \* of SecurityGroups
    VMs, AddressCalls, AddressFaults,   \* of PublicIP
    Hosts, Rows, MaxEnrolls, MaxLosses  \* of NodeEnroll

VARIABLES
    part,
    enabled, deny, version, rules, applied, made, chain, hooked, drops, tasks,
    commands, handler, accepted, failures, opening, twice, opened,
    groups, grouped, links, counted, clock, effective, previews, applying, rulesIn,
    pooled, bound, binding, dnat, route, moving, sent, dispatch, bindings, lapses, stale,
    node, enroll, disk, enrolls, losses, halfway, lost

F == INSTANCE Firewalls WITH MaxCalls <- FirewallCalls, MaxFaults <- FirewallFaults,
    ops <- commands, req <- handler, calls <- accepted, faults <- failures
G == INSTANCE SecurityGroups WITH rules <- grouped
P == INSTANCE PublicIP WITH MaxCalls <- AddressCalls, MaxFaults <- AddressFaults,
    tasks <- moving, ops <- sent, req <- dispatch, calls <- bindings, faults <- lapses
N == INSTANCE NodeEnroll WITH commands <- enrolls

ASSUME PartsAssumption ==
    F!FirewallAssumption /\ G!SecurityGroupAssumption /\ P!PublicIPAssumption /\ N!EnrollAssumption

ofF == <<enabled, deny, version, rules, applied, made, chain, hooked, drops, tasks, commands,
         handler, accepted, failures, opening, twice, opened>>
ofG == <<groups, grouped, links, counted, clock, effective, previews, applying, rulesIn>>
ofP == <<pooled, bound, binding, dnat, route, moving, sent, dispatch, bindings, lapses, stale>>
ofN == <<node, enroll, disk, enrolls, losses, halfway, lost>>

MCInit ==
    /\ part \in {"watchdog", "firewalls", "groups", "address", "enroll"}
    /\ Init /\ F!Init /\ G!Init /\ P!Init /\ N!Init
    /\ part # "firewalls" => \A l \in F!Layers : ~enabled[l]
MCNext ==
    \/ part = "watchdog" /\ Next /\ UNCHANGED <<part, ofF, ofG, ofP, ofN>>
    \/ part = "firewalls" /\ F!Next /\ UNCHANGED <<part, vars, ofG, ofP, ofN>>
    \/ part = "groups" /\ G!Next /\ UNCHANGED <<part, vars, ofF, ofP, ofN>>
    \/ part = "address" /\ P!Next /\ UNCHANGED <<part, vars, ofF, ofG, ofN>>
    \/ part = "enroll" /\ N!Next /\ UNCHANGED <<part, vars, ofF, ofG, ofP>>
MCSpec == MCInit /\ [][MCNext]_<<part, vars, ofF, ofG, ofP, ofN>>

\* Whoever works is interchangeable, and so is what is worked on: the invariants and
\* the next-state relations name none of them. (The parts share their names, since
\* one part runs at a time: the configuration gives Requests, Operators and Hosts
\* the same values, and Groups, VMs and Rows.)
Symmetry == Permutations(Requests) \cup Permutations(Groups)

\* The properties of the four others.
RollbackOpens == F!RollbackOpens
SeenBeforeShipped == G!SeenBeforeShipped
FreeLeadsNowhere == P!FreeLeadsNowhere
StartsWhole == N!StartsWhole
AdmittedOnce == N!AdmittedOnce
=============================================================================
