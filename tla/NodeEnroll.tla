----------------------------- MODULE NodeEnroll -----------------------------
(***************************************************************************)
(* How a host becomes a node: an administrator creates a row with a token  *)
(* (service/node), the enroll command of the agent registers with it at    *)
(* the gateway and saves identity and certificate, file by file; run then  *)
(* starts from these files. Hosts share tokens, commands are repeated,     *)
(* answers get lost and the host stops between two files.                  *)
(***************************************************************************)
EXTENDS Naturals, Sequences

CONSTANTS
    Hosts,      \* hosts on which enroll is run
    Rows,       \* nodes of the control plane, one token each
    MaxEnrolls, \* enroll commands (bound)
    MaxLosses   \* answers lost and commands cut short (bound)

EnrollAssumption == MaxEnrolls \in Nat /\ MaxLosses \in Nat

VARIABLES
    node,     \* each row: its state, whether its token is there and runs, the agent it belongs to
    enroll,   \* each host: the enroll command at work
    disk,     \* each host: whose certificate, key and agent.json are in its state directory
    commands, losses,
    halfway,  \* hosts that write over a whole state directory, or were cut short there (history)
    lost      \* agents whose row was taken by an overlapping registration, or removed during theirs (history)

vars == <<node, enroll, disk, commands, losses, halfway, lost>>

NoAgent == 0    \* agents are numbered by the command that made them
AtRest == [pc |-> "idle"]
Unused == [state |-> "none", token |-> FALSE, expired |-> FALSE, agent |-> NoAgent]

Init ==
    /\ node = [t \in Rows |-> Unused] /\ enroll = [h \in Hosts |-> AtRest]
    /\ disk = [h \in Hosts |-> [cert |-> NoAgent, key |-> NoAgent, json |-> NoAgent]]
    /\ commands = 0 /\ losses = 0 /\ halfway = {} /\ lost = {}

-----------------------------------------------------------------------------
(* The control plane.                                                      *)

CreateEnrollToken(t) ==
    /\ node[t] = Unused /\ node' = [node EXCEPT ![t].state = "pending", ![t].token = TRUE]
    /\ UNCHANGED <<enroll, disk, commands, losses, halfway, lost>>

Expire(t) ==
    /\ node[t].token /\ ~node[t].expired /\ node' = [node EXCEPT ![t].expired = TRUE]
    /\ UNCHANGED <<enroll, disk, commands, losses, halfway, lost>>

Remove(t) ==
    /\ node[t].state \in {"pending", "enrolled"}
    /\ node' = [node EXCEPT ![t].state = "removed", ![t].token = FALSE]
    /\ UNCHANGED <<enroll, disk, commands, losses, halfway, lost>>

-----------------------------------------------------------------------------
(* The command: cmdEnroll, gateway.Register and Service.Register.          *)

\* With -id the agent is the one that the directory holds, else a new one.
CmdEnroll(h, t) ==
    /\ enroll[h] = AtRest /\ commands < MaxEnrolls /\ commands' = commands + 1
    /\ \E id \in {commands + 1, disk[h].json} \ {NoAgent} :
        enroll' = [enroll EXCEPT ![h] = [pc |-> "find", row |-> t, id |-> id]]
    /\ UNCHANGED <<node, disk, losses, halfway, lost>>

FindByEnrollToken(h) ==
    /\ enroll[h].pc = "find"
    /\ LET n == node[enroll[h].row]
       IN enroll' = [enroll EXCEPT ![h] =
              IF n.token /\ n.state = "pending" /\ ~n.expired
              THEN [pc |-> "update", row |-> @.row, id |-> @.id, first |-> n.agent = NoAgent] ELSE AtRest]
    /\ UNCHANGED <<node, disk, commands, losses, halfway, lost>>

\* UpdateNode goes by id: a removed row is not written, which is no error. An
\* identity belongs to one row, removed ones included. (Mutant: the token stays.)
Spent_Mutant(n, id) == [n EXCEPT !.agent = id]
Spent(n, id) == [state |-> "enrolled", token |-> FALSE, expired |-> FALSE, agent |-> id]
Register(h) ==
    /\ enroll[h].pc = "update"
    /\ LET t == enroll[h].row
           id == enroll[h].id
       IN IF node[t].state = "removed"
          THEN /\ lost' = lost \cup {id} /\ enroll' = [enroll EXCEPT ![h].pc = "answer"]
               /\ UNCHANGED node
          ELSE IF \E u \in Rows \ {t} : node[u].agent = id
          THEN enroll' = [enroll EXCEPT ![h] = AtRest] /\ UNCHANGED <<node, lost>>
          ELSE /\ node' = [node EXCEPT ![t] = Spent(@, id)]
               /\ lost' = IF enroll[h].first THEN lost \cup ({node[t].agent} \ {id, NoAgent}) ELSE lost
               /\ enroll' = [enroll EXCEPT ![h].pc = "answer"]
    /\ UNCHANGED <<disk, commands, losses, halfway>>

\* The answer comes with a certificate for the agent; SaveEnrollment's order.
\* (Mutant: the identity first.)
Files_Mutant == <<"json", "cert", "key">>
Files == <<"cert", "key", "json">>
Answer(h) ==
    /\ enroll[h].pc = "answer"
    /\ enroll' = [enroll EXCEPT ![h] = [pc |-> "save", id |-> @.id, todo |-> Files]]
    /\ UNCHANGED <<node, disk, commands, losses, halfway, lost>>

SaveEnrollment(h) ==
    /\ enroll[h].pc = "save"
    /\ LET todo == enroll[h].todo
       IN /\ disk' = [disk EXCEPT ![h][Head(todo)] = enroll[h].id]
          /\ IF Len(todo) = 1
             THEN enroll' = [enroll EXCEPT ![h] = AtRest] /\ halfway' = halfway \ {h}
             ELSE /\ enroll' = [enroll EXCEPT ![h].todo = Tail(todo)]
                  /\ halfway' = IF todo = Files /\ disk[h].json # NoAgent THEN halfway \cup {h} ELSE halfway
    /\ UNCHANGED <<node, commands, losses, lost>>

\* The answer is lost, or the host stops: the command is gone.
CutShort(h) ==
    /\ enroll[h] # AtRest /\ losses < MaxLosses /\ losses' = losses + 1
    /\ enroll' = [enroll EXCEPT ![h] = AtRest]
    /\ UNCHANGED <<node, disk, commands, halfway, lost>>

Next ==
    \/ \E t \in Rows : CreateEnrollToken(t) \/ Expire(t) \/ Remove(t) \/ \E h \in Hosts : CmdEnroll(h, t)
    \/ \E h \in Hosts : \/ FindByEnrollToken(h) \/ Register(h) \/ Answer(h)
                        \/ SaveEnrollment(h) \/ CutShort(h)

Spec == Init /\ [][Next]_vars

-----------------------------------------------------------------------------
(* Properties.                                                             *)

\* Load and ClientTLS: agent.json is there, with the certificate and its key.
Enrolled(h) == disk[h].json # NoAgent
Whole(h) == Enrolled(h) /\ disk[h].cert = disk[h].json /\ disk[h].key = disk[h].json

\* Where agent.json is, the certificate and its key are there as well, whenever
\* the host stopped (comment of SaveEnrollment: no half enrolment that cannot
\* start). Enrolling again over a directory is the exception.
StartsWhole == \A h \in Hosts : Enrolled(h) /\ h \notin halfway => Whole(h)

\* A token admits one agent: who enrolled keeps its row in the control plane,
\* which Channel looks up by the certificate, unless registrations with one token
\* overlapped or the row was removed meanwhile.
AdmittedOnce ==
    \A h \in Hosts : Whole(h) => disk[h].json \in lost \/ \E t \in Rows : node[t].agent = disk[h].json
=============================================================================
