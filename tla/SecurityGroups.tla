--------------------------- MODULE SecurityGroups ---------------------------
(***************************************************************************)
(* Security groups of one virtual machine (service/network/securitygroup): *)
(* an operator previews the rules its groups amount to and applies what he *)
(* saw, by the version he saw it under, while others edit groups, rules    *)
(* and attachments. A step is one database query or one write; a check on  *)
(* the same row right before a write is part of the write.                 *)
(***************************************************************************)
EXTENDS Naturals

CONSTANTS
    Groups,     \* security groups
    Operators,  \* requests for the effective rules at work
    MaxEdits    \* writes of rules, groups and attachments (bound)

SecurityGroupAssumption == MaxEdits \in Nat

VARIABLES
    groups,    \* groups that are not deleted
    rules,     \* rows: id, group, updated_at and what the rule says
    links,     \* groups attached to the machine's interfaces
    counted,   \* groups whose attachments DeleteGroup counted, and found none
    clock,     \* the time of the next write
    effective, \* each request: what it has read
    previews,  \* version and rules of every preview shown (history)
    applying,  \* what the task security_group.apply ships, if there is one
    rulesIn    \* the chain of the machine on the node, which ends with DROP

vars == <<groups, rules, links, counted, clock, effective, previews, applying, rulesIn>>

Says == {"ingress", "egress"}   \* a rule, told by its direction
Done == [pc |-> "idle"]

Init ==
    /\ groups = Groups /\ rules = {} /\ links = {} /\ counted = {} /\ clock = 0
    /\ effective = [o \in Operators |-> Done]
    /\ previews = {} /\ applying = {} /\ rulesIn = {}

-----------------------------------------------------------------------------
(* Edits.                                                                  *)

Edit == clock < MaxEdits /\ clock' = clock + 1 /\ UNCHANGED <<effective, previews, applying, rulesIn>>

CreateRule(g, s) ==
    /\ g \in groups /\ rules' = rules \cup {[id |-> clock, group |-> g, at |-> clock, says |-> s]}
    /\ Edit /\ UNCHANGED <<groups, links, counted>>

UpdateRule(r, s) ==
    /\ r.group \in groups /\ rules' = (rules \ {r}) \cup {[r EXCEPT !.at = clock, !.says = s]}
    /\ Edit /\ UNCHANGED <<groups, links, counted>>

DeleteRule(r) == r.group \in groups /\ rules' = rules \ {r} /\ Edit /\ UNCHANGED <<groups, links, counted>>

Attach(g) == g \in groups \ links /\ links' = links \cup {g} /\ Edit /\ UNCHANGED <<groups, rules, counted>>
Detach(g) == g \in groups \cap links /\ links' = links \ {g} /\ Edit /\ UNCHANGED <<groups, rules, counted>>

\* DeleteGroup counts the attachments and deletes the group, not its rules.
AttachedCount(g) ==
    /\ g \in groups \ (links \cup counted) /\ counted' = counted \cup {g}
    /\ UNCHANGED <<groups, rules, links, clock, effective, previews, applying, rulesIn>>
DeleteGroup(g) ==
    /\ g \in counted \cap groups /\ groups' = groups \ {g} /\ counted' = counted \ {g}
    /\ Edit /\ UNCHANGED <<rules, links>>

-----------------------------------------------------------------------------
(* Effective, for a preview and for Apply with the version of one.         *)

\* versionOf: what it covers of groups and rules. (Mutant: not when they were
\* last written.)
VersionOf_Mutant(gs, rs) == [groups |-> gs, rules |-> {<<r.id, r.group>> : r \in rs}]
VersionOf(gs, rs) == [groups |-> gs, rules |-> {<<r.id, r.at>> : r \in rs}]

\* merge: one rule for all that say the same, with the groups it comes from.
Merge(gs, rs) == {[says |-> s, sources |-> {r.group : r \in {q \in rs : q.says = s}} \cap gs]
                     : s \in {r.says : r \in rs}}

Untouched == UNCHANGED <<groups, rules, links, counted, clock>>

\* A request without a version is a preview.
Request(o) ==
    /\ effective[o] = Done
    /\ \E v \in {{}} \cup {{p.version} : p \in previews} :
        effective' = [effective EXCEPT ![o] = [pc |-> "groups", version |-> v, ids |-> links]]
    /\ Untouched /\ UNCHANGED <<previews, applying, rulesIn>>

ReadGroups(o) ==
    /\ effective[o].pc = "groups"
    /\ effective' = [effective EXCEPT ![o] = [pc |-> "rules", version |-> @.version, ids |-> @.ids,
                                              found |-> @.ids \cap groups]]
    /\ Untouched /\ UNCHANGED <<previews, applying, rulesIn>>

\* The rules are read; a preview is shown, Apply enqueues what it has just read
\* if that has the version it was given (and the machine has no task yet).
ReadRules(o) ==
    /\ effective[o].pc = "rules" /\ effective' = [effective EXCEPT ![o] = Done]
    /\ LET read == {r \in rules : r.group \in effective[o].ids}
           found == effective[o].found
           p == [version |-> VersionOf(found, read), rules |-> Merge(found, read)]
       IN IF effective[o].version = {}
          THEN previews' = previews \cup {p} /\ UNCHANGED applying
          ELSE /\ applying' = IF effective[o].version = {p.version} /\ applying = {} THEN {p} ELSE applying
               /\ UNCHANGED previews
    /\ Untouched /\ UNCHANGED rulesIn

\* ApplyExecutor.Run, and securityGroupApply on the node: it knows the
\* directions "in" and "out" and skips every other rule.
NodeDirections == {"in", "out"}
Run ==
    /\ applying' = {}
    /\ \E p \in applying : rulesIn' = {r \in p.rules : r.says \in NodeDirections} \/ UNCHANGED rulesIn
    /\ Untouched /\ UNCHANGED <<effective, previews>>

Next ==
    \/ \E g \in Groups : \/ \E s \in Says : CreateRule(g, s)
                         \/ Attach(g) \/ Detach(g) \/ AttachedCount(g) \/ DeleteGroup(g)
    \/ \E r \in rules : DeleteRule(r) \/ \E s \in Says : UpdateRule(r, s)
    \/ \E o \in Operators : Request(o) \/ ReadGroups(o) \/ ReadRules(o)
    \/ Run

Spec == Init /\ [][Next]_vars

-----------------------------------------------------------------------------
\* What is sent to the node is what an operator saw under that version, whoever
\* edited what meanwhile, and although neither preview nor Apply reads its
\* groups and rules at one moment (comment of Service.Apply).
SeenBeforeShipped == applying \subseteq previews
=============================================================================
