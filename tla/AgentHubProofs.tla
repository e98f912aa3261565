--------------------------- MODULE AgentHubProofs ---------------------------
(***************************************************************************)
(* For any number of calls, connections and any outbox: what callers of    *)
(* the hub are told is true, no connection that closes forgets a call, and *)
(* the registry holds only connections that are served.                    *)
(***************************************************************************)
EXTENDS AgentHub, WellFoundedInduction, TLAPS

-----------------------------------------------------------------------------
(* The types.                                                              *)

\* A call past its lookup has found a connection.
Located == \A o \in Ops : pc[o] \in {"track", "send", "wait", "untrack"} => at[o] \in Conns
Typed == TypeOK /\ Located

\* Close and answer, as attach and detach use them.
LEMMA CloseTyped ==
  ASSUME Typed, NEW g \in Conns, NEW c \in Conns, CloseStart(g, c)
  PROVE  Typed'
<1>1. closed' \subseteq Conns BY DEF CloseStart, Typed, TypeOK
<1>2. toClose' \in [Conns -> SUBSET Ops] BY DEF CloseStart, Typed, TypeOK
<1>3. cmu' \in [Conns -> Conns \cup {NoConn}] BY DEF CloseStart, Typed, TypeOK
<1> QED BY <1>1, <1>2, <1>3 DEF CloseStart, Typed, TypeOK, Located, calls, side

LEMMA CallTyped == ASSUME Typed, NEW o \in Ops, CallStep(o) PROVE Typed'
<1> USE DEF Typed, TypeOK, Located, hub, side
<1>1. CASE Lookup(o)
  <2>1. at' = [at EXCEPT ![o] = reg] /\ UNCHANGED <<reg, hmu, cmu, closed, pending, toClose, outbox, ch, done, ctx, agent, work, up>>
    BY <1>1 DEF Lookup
  <2>2. CASE reg = NoConn
    <3>1. pc' = [pc EXCEPT ![o] = "returned"] /\ res' = [res EXCEPT ![o] = "undelivered"]
      BY <1>1, <2>2 DEF Lookup, Return
    <3> QED BY <2>1, <3>1
  <2>3. CASE reg # NoConn
    <3>1. pc' = [pc EXCEPT ![o] = "track"] /\ res' = res BY <1>1, <2>3 DEF Lookup
    <3> QED BY <2>1, <2>3, <3>1
  <2> QED BY <2>2, <2>3
<1>2. CASE Track(o)
  <2>1. pending' \in [Conns -> SUBSET Ops] BY <1>2 DEF Track
  <2> QED BY <1>2, <2>1 DEF Track
<1>3. CASE Send(o)
  <2>1. at[o] \in Conns BY <1>3 DEF Send
  <2>2. Append(outbox[at[o]], o) \in Seq(Ops) BY <2>1
  <2>3. outbox' \in [Conns -> Seq(Ops)] BY <1>3, <2>1, <2>2 DEF Send
  <2> QED BY <1>3, <2>3 DEF Send
<1>4. CASE Receive(o) BY <1>4 DEF Receive, Return
<1>5. CASE Untrack(o)
  <2>1. pending' \in [Conns -> SUBSET Ops] BY <1>5 DEF Untrack
  <2> QED BY <1>5, <2>1 DEF Untrack
<1> QED BY <1>1, <1>2, <1>3, <1>4, <1>5 DEF CallStep

LEMMA ConnTyped == ASSUME Typed, NEW c \in Conns, ConnStep(c) PROVE Typed'
<1> USE DEF Typed, TypeOK, Located, hub, calls, side
<1>1. CASE AttachLock(c) BY <1>1 DEF AttachLock
<1>2. CASE AttachClose(c)
  <2>1. reg \in Conns /\ CloseStart(c, reg) BY <1>2 DEF AttachClose
  <2> QED BY <2>1, CloseTyped
<1>3. CASE AttachSet(c) BY <1>3 DEF AttachSet
<1>4. CASE Write(c)
  <2>1. outbox[c] \in Seq(Ops) /\ outbox[c] # << >> BY <1>4 DEF Write
  <2>2. Head(outbox[c]) \in Ops /\ Tail(outbox[c]) \in Seq(Ops) BY <2>1
  <2>3. outbox' \in [Conns -> Seq(Ops)] BY <1>4, <2>2 DEF Write
  <2>4. work' \in [Ops -> {"none", "running", "succeeded", "failed"}] BY <1>4, <2>2 DEF Write
  <2> QED BY <1>4, <2>3, <2>4 DEF Write
<1>5. CASE DetachClose(c) BY <1>5, CloseTyped DEF DetachClose
<1>6. CASE DetachRemove(c) BY <1>6 DEF DetachRemove
<1>7. CASE CloseEnd(c)
  <2>1. pending' \in [Conns -> SUBSET Ops] BY <1>7 DEF CloseEnd
  <2> QED BY <1>7, <2>1 DEF CloseEnd
<1>8. CASE RecvFails(c)
  <2>1. up' \in [Conns -> SUBSET Ops] BY <1>8 DEF RecvFails
  <2> QED BY <1>8, <2>1 DEF RecvFails
<1>9. ASSUME NEW o \in Ops, CloseSend(c, o) PROVE Typed'
  <2>1. toClose' \in [Conns -> SUBSET Ops] BY <1>9 DEF CloseSend
  <2> QED BY <1>9, <2>1 DEF CloseSend, CloseAnswer
<1>10. ASSUME NEW o \in Ops, Deliver(c, o) PROVE Typed'
  <2>1. up' \in [Conns -> SUBSET Ops] BY <1>10 DEF Deliver
  <2>2. AgentAnswer(o) \in {"success", "failure"} BY DEF AgentAnswer
  <2>3. done' = done \/ done' = [done EXCEPT ![o] = AgentAnswer(o)] BY <1>10 DEF Deliver
  <2>4. done' \in [Ops -> {"empty", "success", "failure"}] BY <2>2, <2>3
  <2> QED BY <1>10, <2>1, <2>4 DEF Deliver
<1> QED BY <1>1, <1>2, <1>3, <1>4, <1>5, <1>6, <1>7, <1>8, <1>9, <1>10 DEF ConnStep

\* A set of numbers that is not empty has a least one.
LEMMA LeastOf ==
  ASSUME NEW S \in SUBSET Nat, S # {}
  PROVE  \E m \in S : \A d \in S : m <= d
<1> DEFINE R == OpToRel(<, Nat)
<1>1. PICK m \in S : \A d \in S : <<d, m>> \notin R BY NatLessThanWellFounded, WFMin, Zenon
<1>2. \A d \in S : ~(d < m) BY <1>1, S \subseteq Nat DEF OpToRel
<1> QED BY <1>2, S \subseteq Nat

LEMMA TypedStep == Typed /\ [Next]_vars => Typed'
<1> SUFFICES ASSUME Typed, [Next]_vars PROVE Typed'
  OBVIOUS
<1> USE DEF Typed, TypeOK, Located, hub, calls, side
<1>1. ASSUME NEW o \in Ops, CallStep(o) PROVE Typed' BY <1>1, CallTyped
<1>2. ASSUME NEW c \in Conns, ConnStep(c) PROVE Typed' BY <1>2, ConnTyped
<1>3. ASSUME NEW o \in Ops, CtxEnds(o) PROVE Typed'
  <2>1. ctx' \subseteq Ops BY <1>3 DEF CtxEnds
  <2> QED BY <1>3, <2>1 DEF CtxEnds
<1>4. ASSUME NEW o \in Ops, Abandon(o) PROVE Typed' BY <1>4 DEF Abandon, Return, GiveUp
<1>5. ASSUME NEW o \in Ops, AgentDone(o) PROVE Typed'
  <2>1. up' = up \/ up' = [up EXCEPT ![at[o]] = @ \cup {o}] BY <1>5 DEF AgentDone
  <2>2. up' \in [Conns -> SUBSET Ops]
    <3>1. up \in [Conns -> SUBSET Ops] OBVIOUS
    <3> HIDE DEF Typed, TypeOK, Located
    <3>2. [up EXCEPT ![at[o]] = @ \cup {o}] \in [Conns -> SUBSET Ops] BY <3>1
    <3> QED BY <2>1, <3>1, <3>2
  <2>3. work' \in [Ops -> {"none", "running", "succeeded", "failed"}] BY <1>5 DEF AgentDone
  <2> QED BY <1>5, <2>2, <2>3 DEF AgentDone
<1>6. CASE Dial
  <2>1. PICK c \in Conns : ch[c] = "none" BY <1>6 DEF Dial
  <2> DEFINE S == {d \in Conns : ch[d] = "none"}
  <2>2. Min2(S) \in Conns
    <3>1. S \subseteq Nat /\ S # {} BY <2>1, HubAssumption
    <3>2. \E m \in S : \A d \in S : m <= d BY <3>1, LeastOf
    <3> QED BY <3>2 DEF Min2
  <2>3. agent' = Min2(S) /\ ch' = [ch EXCEPT ![Min2(S)] = "attach"] BY <1>6 DEF Dial
  <2> HIDE DEF S
  <2> QED BY <1>6, <2>2, <2>3 DEF Dial
<1>7. CASE SessionBreaks BY <1>7 DEF SessionBreaks
<1>8. CASE UNCHANGED vars BY <1>8 DEF vars
<1> QED BY <1>1, <1>2, <1>3, <1>4, <1>5, <1>6, <1>7, <1>8 DEF Next
-----------------------------------------------------------------------------
(* What callers are told.                                                  *)

Queued(o, c) == \E i \in DOMAIN outbox[c] : outbox[c][i] = o

\* A call before its send is nowhere below the hub; a call that waits has been
\* told nothing.
Fresh ==
    \A o \in Ops : /\ pc[o] \in {"new", "track", "send"} => work[o] = "none"
                   /\ pc[o] \in {"new", "track", "send", "wait"} => res[o] = "none"

\* What lies in an outbox was sent there once, and the node has not seen it.
Placed ==
    \A c \in Conns : \A i \in DOMAIN outbox[c] :
        /\ pc[outbox[c][i]] \in {"wait", "untrack", "returned"}
        /\ at[outbox[c][i]] = c /\ work[outbox[c][i]] = "none"
        /\ res[outbox[c][i]] # "undelivered"
        /\ \A j \in DOMAIN outbox[c] : outbox[c][i] = outbox[c][j] => i = j

\* An answer, on its way or waiting to be read, comes after the work.
Earned ==
    \A o \in Ops : /\ done[o] = "success" => work[o] = "succeeded"
                   /\ \A c \in Conns : o \in up[c] => work[o] \in {"succeeded", "failed"}
                   /\ res[o] = "success" => work[o] = "succeeded"
                   /\ res[o] = "undelivered" => work[o] = "none"

Truth == Typed /\ Fresh /\ Placed /\ Earned

LEMMA InOutbox ==
  ASSUME Typed, NEW c \in Conns, NEW i \in DOMAIN outbox[c] PROVE outbox[c][i] \in Ops
<1>1. outbox[c] \in Seq(Ops) BY DEF Typed, TypeOK
<1> QED BY <1>1

\* The steps that leave calls, outboxes and answers as they are.
LEMMA TruthKept ==
  ASSUME Truth, Typed', UNCHANGED <<outbox, pc, at, done, res, work>>,
         \A c \in Conns : up'[c] \subseteq up[c]
  PROVE  Truth'
<1>1. Fresh' BY DEF Truth, Fresh
<1>2. Placed' BY DEF Truth, Placed
<1>3. Earned' BY DEF Truth, Earned
<1> QED BY <1>1, <1>2, <1>3 DEF Truth

LEMMA TruthOfCall ==
  ASSUME Truth, Typed', NEW o \in Ops, CallStep(o) \/ Abandon(o) \/ AgentDone(o)
  PROVE  Truth'
<1> USE DEF Truth, Typed, TypeOK, Located, hub, side
<1>1. CASE Lookup(o)
  <2>1. Fresh' BY <1>1 DEF Lookup, Return, Fresh
  <2>2. \A d \in Conns : \A i \in DOMAIN outbox[d] : outbox[d][i] \in Ops \ {o}
    <3> SUFFICES ASSUME NEW d \in Conns, NEW i \in DOMAIN outbox[d]
                 PROVE  outbox[d][i] \in Ops /\ outbox[d][i] # o
      OBVIOUS
    <3>1. outbox[d][i] \in Ops BY InOutbox
    <3>2. pc[o] = "new" BY <1>1 DEF Lookup
    <3>3. pc[outbox[d][i]] \in {"wait", "untrack", "returned"} BY DEF Placed
    <3> QED BY <3>1, <3>2, <3>3
  <2>4. outbox' = outbox /\ work' = work /\ \A p \in Ops \ {o} : /\ pc'[p] = pc[p]
                                                                  /\ at'[p] = at[p] /\ res'[p] = res[p]
    BY <1>1 DEF Lookup, Return
  <2>5. Placed' BY <2>2, <2>4 DEF Placed
  <2>3. Earned' BY <1>1 DEF Lookup, Return, Earned, Fresh
  <2> QED BY <2>1, <2>5, <2>3
<1>2. CASE Track(o)
  <2>1. Fresh' BY <1>2 DEF Track, Fresh
  <2>2. Placed' BY <1>2 DEF Track, Placed
  <2>3. Earned' BY <1>2 DEF Track, Earned
  <2> QED BY <2>1, <2>2, <2>3
<1>3. CASE Send(o)
  <2>1. Fresh' BY <1>3 DEF Send, Fresh
  <2>2. Placed'
    <3>1. PICK c \in Conns : c = at[o] BY <1>3 DEF Send
    <3>2. pc[o] = "send" /\ work[o] = "none" /\ res[o] = "none"
      BY <1>3 DEF Send, Fresh
    <3>3. /\ outbox' = [outbox EXCEPT ![c] = Append(outbox[c], o)]
          /\ pc' = [pc EXCEPT ![o] = "wait"] /\ UNCHANGED <<at, work, res>>
      BY <1>3, <3>1 DEF Send
    <3>4. ASSUME NEW d \in Conns, NEW i \in DOMAIN outbox[d]
          PROVE  outbox[d][i] # o
      <4>1. pc[outbox[d][i]] \in {"wait", "untrack", "returned"} BY DEF Placed
      <4> QED BY <3>2, <4>1
    <3>5. ASSUME NEW d \in Conns, NEW i \in DOMAIN outbox'[d]
          PROVE  /\ pc'[outbox'[d][i]] \in {"wait", "untrack", "returned"}
                 /\ at'[outbox'[d][i]] = d /\ work'[outbox'[d][i]] = "none"
                 /\ res'[outbox'[d][i]] # "undelivered"
                 /\ \A j \in DOMAIN outbox'[d] : outbox'[d][i] = outbox'[d][j] => i = j
      <4>1. CASE d # c
        <5>1. outbox'[d] = outbox[d] BY <4>1, <3>3
        <5> QED BY <5>1, <3>3, <3>4, <3>5 DEF Placed
      <4>2. CASE d = c
        <5>1. /\ outbox'[d] = Append(outbox[c], o) /\ outbox[c] \in Seq(Ops)
              /\ DOMAIN outbox[c] = 1 .. Len(outbox[c])
              /\ DOMAIN outbox'[d] = 1 .. Len(outbox[c]) + 1
          BY <4>2, <3>3
        <5>2. \A j \in DOMAIN outbox'[d] :
                 outbox'[d][j] = IF j \in DOMAIN outbox[c] THEN outbox[c][j] ELSE o
          BY <5>1
        <5>3. \A j \in DOMAIN outbox'[d] : j \notin DOMAIN outbox[c] => j = Len(outbox[c]) + 1
          BY <5>1
        <5>4. CASE i \in DOMAIN outbox[c]
          <6>1. outbox'[d][i] = outbox[c][i] /\ outbox[c][i] # o BY <5>2, <5>4, <3>4, <3>5
          <6>2. \A j \in DOMAIN outbox'[d] : outbox'[d][i] = outbox'[d][j] => i = j
            BY <6>1, <5>2, <5>4 DEF Placed
          <6> QED BY <6>1, <6>2, <5>4, <4>2, <3>3 DEF Placed
        <5>5. CASE i \notin DOMAIN outbox[c]
          <6>1. outbox'[d][i] = o BY <5>2, <5>5, <3>5
          <6>2. \A j \in DOMAIN outbox'[d] : outbox'[d][i] = outbox'[d][j] => i = j
            BY <6>1, <5>2, <5>3, <5>5, <3>4, <3>5
          <6> QED BY <6>1, <6>2, <4>2, <3>1, <3>2, <3>3
        <5> QED BY <5>4, <5>5
      <4> QED BY <4>1, <4>2
    <3> QED BY <3>5 DEF Placed
  <2>3. Earned' BY <1>3 DEF Send, Earned
  <2> QED BY <2>1, <2>2, <2>3
<1>4. CASE Receive(o)
  <2>1. Fresh' BY <1>4 DEF Receive, Return, Fresh
  <2>2. Placed' BY <1>4 DEF Receive, Return, Placed
  <2>3. Earned' BY <1>4 DEF Receive, Return, Earned
  <2> QED BY <2>1, <2>2, <2>3
<1>5. CASE Untrack(o)
  <2>1. Fresh' BY <1>5 DEF Untrack, Fresh
  <2>2. Placed' BY <1>5 DEF Untrack, Placed
  <2>3. Earned' BY <1>5 DEF Untrack, Earned
  <2> QED BY <2>1, <2>2, <2>3
<1>6. CASE Abandon(o)
  <2>1. Fresh' BY <1>6 DEF Abandon, Return, Fresh
  <2>2. outbox' = outbox /\ work' = work /\ at' = at BY <1>6 DEF Abandon
  <2>4. pc'[o] = "untrack" /\ (pc[o] # "send" => res'[o] = "timeout")
        /\ \A p \in Ops \ {o} : pc'[p] = pc[p] /\ res'[p] = res[p]
    BY <1>6 DEF Abandon, Return, GiveUp
  <2>5. ASSUME NEW d \in Conns, NEW i \in DOMAIN outbox[d]
        PROVE  /\ outbox[d][i] \in Ops /\ pc[outbox[d][i]] # "send"
               /\ pc'[outbox[d][i]] \in {"wait", "untrack", "returned"}
               /\ res'[outbox[d][i]] # "undelivered"
    <3>1. outbox[d][i] \in Ops BY InOutbox
    <3>2. pc[outbox[d][i]] \in {"wait", "untrack", "returned"} /\ res[outbox[d][i]] # "undelivered"
      BY DEF Placed
    <3>3. CASE outbox[d][i] = o BY <3>1, <3>2, <3>3, <2>4
    <3>4. CASE outbox[d][i] # o BY <3>1, <3>2, <3>4, <2>4
    <3> QED BY <3>3, <3>4
  <2>6. Placed' BY <2>2, <2>5 DEF Placed
  <2>3. Earned' BY <1>6 DEF Abandon, Return, GiveUp, Earned, Fresh
  <2> QED BY <2>1, <2>6, <2>3
<1>7. CASE AgentDone(o)
  <2>3. work'[o] \in {"succeeded", "failed"} /\ work[o] = "running" /\ \A p \in Ops \ {o} : work'[p] = work[p]
    BY <1>7 DEF AgentDone
  <2>4. \A c \in Conns : \A p \in up'[c] : p \in up[c] \/ p = o BY <1>7 DEF AgentDone
  <2>5. UNCHANGED <<outbox, pc, at, done, res>> BY <1>7 DEF AgentDone, calls, hub
  <2>1. Fresh' BY <2>3, <2>5 DEF Fresh
  <2>7. \A d \in Conns : \A i \in DOMAIN outbox[d] : outbox[d][i] \in Ops \ {o}
    BY <2>3, InOutbox DEF Placed
  <2>2. Placed' BY <2>3, <2>5, <2>7 DEF Placed
  <2>6. Earned' BY <2>3, <2>4, <2>5 DEF Earned
  <2> QED BY <2>1, <2>2, <2>6
<1> QED BY <1>1, <1>2, <1>3, <1>4, <1>5, <1>6, <1>7 DEF CallStep

LEMMA TruthOfConn ==
  ASSUME Truth, Typed', NEW c \in Conns, ConnStep(c)
  PROVE  Truth'
<1> USE DEF Truth, Typed, TypeOK
<1>1. CASE Write(c)
  <2>1. PICK o \in Ops : o = Head(outbox[c]) BY <1>1 DEF Write
  <2>2. /\ outbox[c] \in Seq(Ops) /\ outbox[c] # << >> /\ outbox[c][1] = o
        /\ 1 \in DOMAIN outbox[c] /\ DOMAIN outbox[c] = 1 .. Len(outbox[c])
    BY <1>1, <2>1 DEF Write
  <2>3. /\ outbox' = [outbox EXCEPT ![c] = Tail(outbox[c])] /\ UNCHANGED <<pc, at, done, res, up>>
        /\ \A p \in Ops \ {o} : work'[p] = work[p]
    BY <1>1, <2>1 DEF Write, calls
  <2>4. work[o] = "none" /\ at[o] = c /\ pc[o] \notin {"new", "track", "send"}
        /\ res[o] # "undelivered"
    <3>1. 1 \in DOMAIN outbox[c] /\ outbox[c][1] = o BY <2>2
    <3>2. Placed OBVIOUS
    <3> HIDE DEF Truth, Typed, TypeOK
    <3> QED BY <3>1, <3>2 DEF Placed
  <2>5. Fresh' BY <2>3, <2>4 DEF Fresh
  <2>6. Earned' BY <2>3, <2>4 DEF Earned
  <2>7. ASSUME NEW d \in Conns, NEW i \in DOMAIN outbox'[d]
        PROVE  /\ pc'[outbox'[d][i]] \in {"wait", "untrack", "returned"}
               /\ at'[outbox'[d][i]] = d /\ work'[outbox'[d][i]] = "none"
               /\ res'[outbox'[d][i]] # "undelivered"
               /\ \A j \in DOMAIN outbox'[d] : outbox'[d][i] = outbox'[d][j] => i = j
    <3>1. CASE d # c
      <4>1. outbox'[d] = outbox[d] /\ outbox[d][i] \in Ops BY <3>1, <2>3, <2>7
      <4>2. outbox[d][i] # o BY <3>1, <4>1, <2>4, <2>7 DEF Placed
      <4> QED BY <4>1, <4>2, <2>3, <2>7 DEF Placed
    <3>2. CASE d = c
      <4>1. outbox'[d] = Tail(outbox[c]) BY <3>2, <2>3
      <4>2. \A j \in DOMAIN outbox'[d] : /\ j + 1 \in DOMAIN outbox[c] /\ j \in Nat /\ j >= 1
                                         /\ outbox'[d][j] = outbox[c][j + 1]
        <5> TAKE j \in DOMAIN outbox'[d]
        <5>1. DOMAIN outbox'[d] = 1 .. Len(outbox[c]) - 1 BY <4>1, <2>2
        <5>4. Len(outbox[c]) \in Nat BY <2>2
        <5>5. j \in 1 .. Len(outbox[c]) - 1 BY <5>1
        <5>6. PICK n \in Nat : n = Len(outbox[c]) BY <5>4
        <5>7. j \in 1 .. n - 1 BY <5>5, <5>6
        <5>8. j \in Nat /\ j >= 1 /\ j + 1 \in 1 .. n
          <6> HIDE DEF Truth, Typed, TypeOK
          <6> QED BY <5>7
        <5>2. j \in Nat /\ j >= 1 /\ j + 1 \in 1 .. Len(outbox[c]) BY <5>6, <5>8
        <5>3. Tail(outbox[c])[j] = outbox[c][j + 1] BY <5>1, <2>2, <4>1
        <5> QED BY <5>2, <5>3, <4>1, <2>2
      <4>3. \A j \in DOMAIN outbox'[d] : outbox[c][j + 1] \in Ops /\ outbox[c][j + 1] # o
        <5> TAKE j \in DOMAIN outbox'[d]
        <5>1. j + 1 \in DOMAIN outbox[c] /\ j + 1 # 1 BY <4>2
        <5>2. outbox[c][j + 1] # outbox[c][1]
          <6>1. 1 \in DOMAIN outbox[c] BY <2>2
          <6>2. Placed OBVIOUS
          <6> HIDE DEF Truth, Typed, TypeOK
          <6> QED BY <5>1, <6>1, <6>2 DEF Placed
        <5> QED BY <5>1, <5>2, <2>2
      <4>4. \A j \in DOMAIN outbox'[d] : outbox'[d][i] = outbox'[d][j] => i = j
        <5> SUFFICES ASSUME NEW j \in DOMAIN outbox'[d], outbox'[d][i] = outbox'[d][j] PROVE i = j
          OBVIOUS
        <5>1. i + 1 = j + 1 BY <4>2, <2>7 DEF Placed
        <5> QED BY <5>1, <4>2, <2>7
      <4>5. outbox'[d][i] = outbox[c][i + 1] /\ i + 1 \in DOMAIN outbox[c] BY <4>2, <2>7
      <4> QED BY <4>5, <4>3, <4>4, <3>2, <2>3, <2>7 DEF Placed
    <3> QED BY <3>1, <3>2
  <2>8. Placed' BY <2>7 DEF Placed
  <2> QED BY <2>5, <2>6, <2>8
<1>2. ASSUME NEW o \in Ops, Deliver(c, o) PROVE Truth'
  <2>1. done'[o] = "success" => done[o] = "success" \/ work[o] = "succeeded"
    BY <1>2 DEF Deliver, AgentAnswer
  <2>2. UNCHANGED <<outbox, pc, at, res, work>> BY <1>2 DEF Deliver, hub
  <2>3. Fresh' BY <2>2 DEF Fresh
  <2>4. Placed' BY <2>2 DEF Placed
  <2>5. \A d \in Conns : up'[d] \subseteq up[d] BY <1>2 DEF Deliver
  <2>6. \A p \in Ops : done'[p] = done[p] \/ p = o BY <1>2 DEF Deliver
  <2>7. Earned' BY <2>1, <2>2, <2>5, <2>6 DEF Earned
  <2> QED BY <2>3, <2>4, <2>7
<1>3. ASSUME NEW o \in Ops, CloseSend(c, o) PROVE Truth'
  <2>1. UNCHANGED <<outbox, pc, at, res, work, up>> BY <1>3 DEF CloseSend, side
  <2>2. Fresh' BY <2>1 DEF Fresh
  <2>3. Placed' BY <2>1 DEF Placed
  <2>4. done' = [done EXCEPT ![o] = "failure"] BY <1>3 DEF CloseSend, CloseAnswer
  <2>5. Earned' BY <2>1, <2>4 DEF Earned
  <2> QED BY <2>2, <2>3, <2>5
<1>4. CASE RecvFails(c)
  <2>1. \A d \in Conns : up'[d] \subseteq up[d] BY <1>4 DEF RecvFails
  <2> QED BY <1>4, <2>1, TruthKept DEF RecvFails, hub, calls
<1>5. CASE \/ AttachLock(c) \/ AttachClose(c) \/ AttachSet(c)
           \/ DetachClose(c) \/ DetachRemove(c) \/ CloseEnd(c)
  <2>1. UNCHANGED <<outbox, calls, side>>
    BY <1>5 DEF AttachLock, AttachClose, AttachSet, DetachClose, DetachRemove, CloseEnd, CloseStart
  <2> QED BY <2>1, TruthKept DEF calls, side
<1> QED BY <1>1, <1>2, <1>3, <1>4, <1>5 DEF ConnStep

LEMMA TruthStep == Truth /\ [Next]_vars => Truth'
<1> SUFFICES ASSUME Truth, [Next]_vars PROVE Truth'
  OBVIOUS
<1>t. Typed' BY TypedStep DEF Truth
<1>1. ASSUME NEW o \in Ops, CallStep(o) \/ Abandon(o) \/ AgentDone(o) PROVE Truth'
  BY <1>1, <1>t, TruthOfCall
<1>2. ASSUME NEW o \in Ops, CtxEnds(o) PROVE Truth'
  BY <1>2, <1>t, TruthKept DEF CtxEnds, hub, side
<1>3. ASSUME NEW c \in Conns, ConnStep(c) PROVE Truth'
  BY <1>3, <1>t, TruthOfConn
<1>4. CASE Dial \/ SessionBreaks \/ UNCHANGED vars
  <2>1. UNCHANGED <<outbox, calls, work, up>>
    BY <1>4 DEF Dial, SessionBreaks, vars, hub, side
  <2> QED BY <2>1, <1>t, TruthKept DEF calls
<1> QED BY <1>1, <1>2, <1>3, <1>4 DEF Next

LEMMA InitTyped == Init => Typed
BY HubAssumption DEF Init, Typed, TypeOK, Located, NoConn

\* Every value the hub keeps has its type, for any calls and connections.
THEOREM HubTypes == Spec => []TypeOK
<1>1. Typed => TypeOK BY DEF Typed
<1> QED BY InitTyped, TypedStep, <1>1, PTL DEF Spec

LEMMA TruthInit == Init => Truth
<1> SUFFICES ASSUME Init PROVE Truth
  OBVIOUS
<1>1. Fresh BY DEF Init, Fresh
<1>2. Placed BY DEF Init, Placed
<1>3. Earned BY DEF Init, Earned
<1> QED BY <1>1, <1>2, <1>3, InitTyped DEF Truth

-----------------------------------------------------------------------------
(* Whom a connection knows.                                                *)

\* A pending call is one that found this connection and tracked itself.
Tracked == \A c \in Conns : \A o \in pending[c] : at[o] = c /\ pc[o] \notin {"new", "track"}

\* A call between track and untrack is pending, or its answer is in the channel.
Remembered ==
    \A o \in Ops : pc[o] \in {"send", "wait"} => o \in pending[at[o]] \/ done[o] # "empty"

\* While a connection is being closed, what is pending on it and waits is
\* answered or will be.
Closing ==
    \A c \in Conns : cmu[c] # NoConn =>
        \A o \in pending[c] : pc[o] \in {"send", "wait"} => o \in toClose[c] \/ done[o] # "empty"

Memory == Typed /\ Tracked /\ Remembered /\ Closing

\* The steps that touch neither a call's place nor what connections know.
LEMMA MemoryKept ==
  ASSUME Memory, Typed', UNCHANGED <<pending, toClose, cmu, pc, at, done>>
  PROVE  Memory'
BY DEF Memory, Tracked, Remembered, Closing

\* A connection starts to close: what is pending on it is to be answered.
LEMMA MemoryAtClose ==
  ASSUME Memory, Typed', NEW g \in Conns, NEW c \in Conns, CloseStart(g, c)
  PROVE  Memory'
<1>1. UNCHANGED <<pending, pc, at, done>> BY DEF CloseStart, calls
<1>2. Tracked' BY <1>1 DEF Memory, Tracked
<1>3. Remembered' BY <1>1 DEF Memory, Remembered
<1>4. Closing'
  <2>1. toClose'[c] = pending[c] BY DEF CloseStart, Memory, Typed, TypeOK
  <2>2. \A d \in Conns \ {c} : toClose'[d] = toClose[d] /\ cmu'[d] = cmu[d]
    BY DEF CloseStart, Memory, Typed, TypeOK
  <2> QED BY <1>1, <2>1, <2>2 DEF Memory, Closing
<1> QED BY <1>2, <1>3, <1>4 DEF Memory

LEMMA MemoryOfCall ==
  ASSUME Memory, Typed', NEW o \in Ops, CallStep(o) \/ Abandon(o)
  PROVE  Memory'
<1> USE DEF Memory, Typed, TypeOK, Located, hub, side
<1>1. CASE Lookup(o)
  <2>1. UNCHANGED <<pending, toClose, cmu, done>> BY <1>1 DEF Lookup
  <2>2. \A p \in Ops \ {o} : pc'[p] = pc[p] /\ at'[p] = at[p] BY <1>1 DEF Lookup
  <2>3. pc[o] = "new" /\ pc'[o] \in {"track", "returned"} BY <1>1 DEF Lookup
  <2>4. \A c \in Conns : o \notin pending[c] BY <2>3 DEF Tracked
  <2>5. Tracked' BY <2>1, <2>2, <2>4 DEF Tracked
  <2>6. Remembered' BY <2>1, <2>2, <2>3 DEF Remembered
  <2>7. Closing' BY <2>1, <2>2, <2>4 DEF Closing
  <2> QED BY <2>5, <2>6, <2>7
<1>2. CASE Track(o)
  <2>1. PICK c \in Conns : c = at[o] BY <1>2 DEF Track
  <2>2. /\ pc[o] = "track" /\ cmu[c] = NoConn /\ pc' = [pc EXCEPT ![o] = "send"]
        /\ pending' = [pending EXCEPT ![c] = pending[c] \cup {o}]
        /\ UNCHANGED <<toClose, cmu, done, at>>
    BY <1>2, <2>1 DEF Track
  <2>3. \A d \in Conns : \A p \in pending'[d] : p \in pending[d] \/ (p = o /\ d = c) BY <2>2
  <2>4. Tracked' BY <2>1, <2>2, <2>3 DEF Tracked
  <2>5. Remembered'
    <3> SUFFICES ASSUME NEW p \in Ops, pc'[p] \in {"send", "wait"}
                 PROVE  p \in pending'[at[p]] \/ done[p] # "empty"
      BY <2>2 DEF Remembered
    <3>1. CASE p = o BY <3>1, <2>1, <2>2
    <3>2. CASE p # o
      <4>1. pc[p] \in {"send", "wait"} /\ at[p] \in Conns BY <3>2, <2>2
      <4>2. pending[at[p]] \subseteq pending'[at[p]] BY <4>1, <2>2
      <4> QED BY <4>1, <4>2 DEF Remembered
    <3> QED BY <3>1, <3>2
  <2>6. Closing'
    <3> SUFFICES ASSUME NEW d \in Conns, cmu[d] # NoConn, NEW p \in pending'[d],
                        pc'[p] \in {"send", "wait"}
                 PROVE  p \in toClose[d] \/ done[p] # "empty"
      BY <2>2 DEF Closing
    <3>1. d # c /\ p \in pending[d] BY <2>2
    <3>2. p # o BY <3>1, <2>2 DEF Tracked
    <3>3. pc'[p] = pc[p] BY <3>2, <2>2
    <3> QED BY <3>1, <3>3 DEF Closing
  <2> QED BY <2>4, <2>5, <2>6
<1>3. CASE Send(o)
  <2>1. UNCHANGED <<pending, toClose, cmu, done, at>> BY <1>3 DEF Send
  <2>2. pc[o] = "send" /\ pc'[o] = "wait" /\ \A p \in Ops \ {o} : pc'[p] = pc[p] BY <1>3 DEF Send
  <2>3. \A p \in Ops : /\ pc'[p] \in {"send", "wait"} => pc[p] \in {"send", "wait"}
                       /\ pc[p] \notin {"new", "track"} => pc'[p] \notin {"new", "track"}
    BY <2>2
  <2>4. Tracked' BY <2>1, <2>3 DEF Tracked
  <2>5. Remembered' BY <2>1, <2>3 DEF Remembered
  <2>6. Closing' BY <2>1, <2>3 DEF Closing
  <2> QED BY <2>4, <2>5, <2>6
<1>4. CASE Receive(o) \/ Abandon(o)
  <2>1. UNCHANGED <<pending, toClose, cmu, at>> BY <1>4 DEF Receive, Abandon
  <2>2. pc'[o] = "untrack" /\ \A p \in Ops \ {o} : pc'[p] = pc[p] /\ done'[p] = done[p]
    BY <1>4 DEF Receive, Abandon
  <2>3. Tracked' BY <2>1, <2>2 DEF Tracked
  <2>4. Remembered' BY <2>1, <2>2 DEF Remembered
  <2>5. Closing'
    <3> SUFFICES ASSUME NEW d \in Conns, cmu'[d] # NoConn, NEW p \in pending'[d],
                        pc'[p] \in {"send", "wait"}
                 PROVE  p \in toClose'[d] \/ done'[p] # "empty"
      BY DEF Closing
    <3>1. p \in pending[d] /\ cmu[d] # NoConn /\ toClose'[d] = toClose[d] BY <2>1
    <3>2. p \in Ops BY <3>1
    <3>3. p # o BY <2>2
    <3>4. pc'[p] = pc[p] /\ done'[p] = done[p] BY <2>2, <3>2, <3>3
    <3> QED BY <3>1, <3>4 DEF Closing
  <2> QED BY <2>3, <2>4, <2>5
<1>5. CASE Untrack(o)
  <2>1. UNCHANGED <<toClose, cmu, done, at>> BY <1>5 DEF Untrack
  <2>2. pc'[o] = "returned" /\ \A p \in Ops \ {o} : pc'[p] = pc[p] BY <1>5 DEF Untrack
  <2>3. \A c \in Conns : pending'[c] \subseteq pending[c] /\ pending[c] \ {o} \subseteq pending'[c]
    BY <1>5 DEF Untrack
  <2>4. Tracked' BY <2>1, <2>2, <2>3 DEF Tracked
  <2>5. Remembered'
    <3> SUFFICES ASSUME NEW p \in Ops, pc'[p] \in {"send", "wait"}
                 PROVE  p \in pending'[at[p]] \/ done[p] # "empty"
      BY <2>1 DEF Remembered
    <3>1. p # o /\ pc[p] \in {"send", "wait"} /\ at[p] \in Conns BY <2>2
    <3> QED BY <3>1, <2>3 DEF Remembered
  <2>6. Closing' BY <2>1, <2>2, <2>3 DEF Closing
  <2> QED BY <2>4, <2>5, <2>6
<1> QED BY <1>1, <1>2, <1>3, <1>4, <1>5 DEF CallStep

LEMMA MemoryOfConn ==
  ASSUME Memory, Typed', NEW c \in Conns, ConnStep(c)
  PROVE  Memory'
<1> USE DEF Memory, Typed, TypeOK, Located
<1>1. CASE AttachClose(c)
  <2>1. reg \in Conns /\ CloseStart(c, reg) BY <1>1 DEF AttachClose
  <2> QED BY <2>1, MemoryAtClose
<1>2. CASE DetachClose(c) BY <1>2, MemoryAtClose DEF DetachClose
<1>3. CASE CloseEnd(c)
  <2>1. UNCHANGED <<toClose, pc, at, done>> /\ toClose[c] = {} /\ cmu[c] # NoConn
    BY <1>3 DEF CloseEnd, calls
  <2>2. /\ pending'[c] = {} /\ cmu'[c] = NoConn
        /\ \A d \in Conns \ {c} : pending'[d] = pending[d] /\ cmu'[d] = cmu[d]
    BY <1>3 DEF CloseEnd
  <2>3. Tracked' BY <2>1, <2>2 DEF Tracked
  <2>4. Remembered'
    <3> SUFFICES ASSUME NEW p \in Ops, pc[p] \in {"send", "wait"}
                 PROVE  p \in pending'[at[p]] \/ done[p] # "empty"
      BY <2>1 DEF Remembered
    <3>1. at[p] \in Conns /\ (p \in pending[at[p]] \/ done[p] # "empty") BY DEF Remembered
    <3>2. CASE at[p] = c
      <4>1. p \in pending[c] => done[p] # "empty" BY <2>1 DEF Closing
      <4> QED BY <3>1, <3>2, <4>1
    <3>3. CASE at[p] # c BY <3>1, <3>3, <2>2
    <3> QED BY <3>2, <3>3
  <2>5. Closing'
    <3> SUFFICES ASSUME NEW d \in Conns, cmu'[d] # NoConn, NEW p \in pending'[d],
                        pc'[p] \in {"send", "wait"}
                 PROVE  p \in toClose'[d] \/ done'[p] # "empty"
      BY DEF Closing
    <3>1. d # c BY <2>2
    <3>2. p \in pending[d] /\ cmu[d] # NoConn BY <2>2, <3>1
    <3> QED BY <3>2, <2>1 DEF Closing
  <2> QED BY <2>3, <2>4, <2>5
<1>4. ASSUME NEW o \in Ops, CloseSend(c, o) PROVE Memory'
  <2>1. UNCHANGED <<pending, cmu, pc, at>> BY <1>4 DEF CloseSend
  <2>2. done'[o] = "failure" /\ \A p \in Ops \ {o} : done'[p] = done[p]
    BY <1>4 DEF CloseSend, CloseAnswer
  <2>3. \A d \in Conns : toClose[d] \ {o} \subseteq toClose'[d] BY <1>4 DEF CloseSend
  <2>4. Tracked' BY <2>1 DEF Tracked
  <2>5. Remembered' BY <2>1, <2>2 DEF Remembered
  <2>6. Closing'
    <3> SUFFICES ASSUME NEW d \in Conns, cmu'[d] # NoConn, NEW p \in pending'[d],
                        pc'[p] \in {"send", "wait"}
                 PROVE  p \in toClose'[d] \/ done'[p] # "empty"
      BY DEF Closing
    <3>1. p \in pending[d] /\ cmu[d] # NoConn /\ pc[p] \in {"send", "wait"} /\ p \in Ops BY <2>1
    <3>2. p \in toClose[d] \/ done[p] # "empty" BY <3>1 DEF Closing
    <3>3. CASE p = o BY <3>3, <2>2
    <3>4. CASE p # o BY <3>4, <3>1, <3>2, <2>2, <2>3
    <3> QED BY <3>3, <3>4
  <2> QED BY <2>4, <2>5, <2>6
<1>5. ASSUME NEW o \in Ops, Deliver(c, o) PROVE Memory'
  <2>1. UNCHANGED <<pending, cmu, toClose, pc, at>> BY <1>5 DEF Deliver, hub
  <2>2. \A p \in Ops : done'[p] = done[p] \/ done'[p] # "empty" BY <1>5 DEF Deliver, AgentAnswer
  <2>3. Tracked' BY <2>1 DEF Tracked
  <2>4. Remembered' BY <2>1, <2>2 DEF Remembered
  <2>5. Closing' BY <2>1, <2>2 DEF Closing
  <2> QED BY <2>3, <2>4, <2>5
<1>6. CASE AttachLock(c) \/ AttachSet(c) \/ Write(c) \/ DetachRemove(c) \/ RecvFails(c)
  <2>1. UNCHANGED <<pending, toClose, cmu, pc, at, done>>
    BY <1>6 DEF AttachLock, AttachSet, Write, DetachRemove, RecvFails, calls, hub
  <2> QED BY <2>1, MemoryKept
<1> QED BY <1>1, <1>2, <1>3, <1>4, <1>5, <1>6 DEF ConnStep

LEMMA MemoryInit == Init => Memory
BY InitTyped DEF Init, Memory, Tracked, Remembered, Closing

LEMMA MemoryStep == Memory /\ [Next]_vars => Memory'
<1> SUFFICES ASSUME Memory, [Next]_vars PROVE Memory'
  OBVIOUS
<1>t. Typed' BY TypedStep DEF Memory
<1>1. ASSUME NEW o \in Ops, CallStep(o) \/ Abandon(o) PROVE Memory'
  BY <1>1, <1>t, MemoryOfCall
<1>2. ASSUME NEW c \in Conns, ConnStep(c) PROVE Memory'
  BY <1>2, <1>t, MemoryOfConn
<1>3. ASSUME NEW o \in Ops, CtxEnds(o) \/ AgentDone(o) PROVE Memory'
  BY <1>3, <1>t, MemoryKept DEF CtxEnds, AgentDone, hub, calls
<1>4. CASE Dial \/ SessionBreaks \/ UNCHANGED vars
  BY <1>4, <1>t, MemoryKept DEF Dial, SessionBreaks, vars, hub, calls
<1> QED BY <1>1, <1>2, <1>3, <1>4 DEF Next

\* No close of a connection forgets a call that waits on it: it is still pending
\* there, or its answer lies in its channel (hub.go, closeAll).
THEOREM WaitersAreKnown == Spec => []WaiterKnown
<1>1. Memory => WaiterKnown BY DEF Memory, Remembered, WaiterKnown
<1> QED BY <1>1, MemoryInit, MemoryStep, PTL DEF Spec

-----------------------------------------------------------------------------
(* What a failure means.                                                   *)

\* A call whose failure has a reason: the node's, or the end of its connection.
Explained(o) == work[o] = "failed" \/ at[o] \in closed

\* A failure that is read or may be read has a reason; a call before its lookup
\* has no answer.
Excused ==
    \A o \in Ops : /\ done[o] = "failure" \/ res[o] = "failure" => Explained(o)
                   /\ pc[o] = "new" => done[o] = "empty" /\ res[o] = "none"

\* What closeAll has still to answer found the connection that is closed.
Answerable ==
    \A c \in Conns : \A o \in toClose[c] : at[o] = c /\ c \in closed /\ pc[o] # "new"

Failing == Truth /\ Memory /\ Excused /\ Answerable

\* A reason stays one: connections stay closed, and the verdict of the node and
\* the connection of a call that has found one do not change.
LEMMA ReasonStays ==
  ASSUME Typed, [Next]_vars, NEW o \in Ops, pc[o] # "new"
  PROVE  /\ pc'[o] # "new" /\ at'[o] = at[o]
         /\ closed \subseteq closed'
         /\ Truth /\ work[o] = "failed" => work'[o] = "failed"
<1> USE DEF Typed, TypeOK, hub, calls, side
<1>1. ASSUME NEW p \in Ops, CallStep(p) \/ CtxEnds(p) \/ Abandon(p)
      PROVE  pc'[o] # "new" /\ at'[o] = at[o] /\ UNCHANGED <<closed, work>>
  <2>1. CASE Lookup(p)
    <3>1. p # o BY <2>1 DEF Lookup
    <3> QED BY <2>1, <3>1 DEF Lookup
  <2> QED BY <1>1, <2>1 DEF CallStep, Track, Send, Receive, Untrack, CtxEnds, Abandon
<1>2. ASSUME NEW p \in Ops, AgentDone(p)
      PROVE  UNCHANGED <<pc, at, closed>> /\ (work[o] = "failed" => work'[o] = "failed")
  BY <1>2 DEF AgentDone
<1>3. ASSUME NEW c \in Conns, Write(c)
      PROVE  /\ UNCHANGED <<pc, at, closed>>
             /\ Truth /\ work[o] = "failed" => work'[o] = "failed"
  <2>1. outbox[c] \in Seq(Ops) /\ outbox[c] # << >> BY <1>3 DEF Write
  <2>2. 1 \in DOMAIN outbox[c] /\ outbox[c][1] = Head(outbox[c]) BY <2>1
  <2>3. Truth => work[Head(outbox[c])] = "none"
    <3>1. Truth => work[outbox[c][1]] = "none"
      <4> HIDE DEF Typed, TypeOK
      <4> QED BY <2>2 DEF Truth, Placed
    <3> QED BY <2>2, <3>1
  <2>4. Truth /\ work[o] = "failed" => o # Head(outbox[c]) BY <2>3
  <2>5. o # Head(outbox[c]) => work'[o] = work[o] BY <1>3 DEF Write
  <2> QED BY <1>3, <2>4, <2>5 DEF Write
<1>4. ASSUME NEW c \in Conns, ConnStep(c), ~Write(c)
      PROVE  UNCHANGED <<pc, at, work>> /\ closed \subseteq closed'
  BY <1>4 DEF ConnStep, AttachLock, AttachClose, AttachSet, DetachClose, DetachRemove, CloseStart,
              CloseEnd, RecvFails, CloseSend, Deliver
<1>5. CASE Dial \/ SessionBreaks \/ UNCHANGED vars
  BY <1>5 DEF Dial, SessionBreaks, vars
<1> QED BY <1>1, <1>2, <1>3, <1>4, <1>5 DEF Next

\* Where a failure can come from.
LEMMA NewFailure ==
  ASSUME Failing, [Next]_vars, NEW o \in Ops
  PROVE  /\ done'[o] = "failure" => done[o] = "failure" \/ (pc[o] # "new" /\ Explained(o))
         /\ res'[o] = "failure" => res[o] = "failure" \/ done[o] = "failure"
         /\ pc'[o] = "new" => pc[o] = "new" /\ done'[o] = done[o] /\ res'[o] = res[o]
<1> USE DEF Failing, Memory, Typed, TypeOK, hub, calls, side
<1>1. ASSUME NEW p \in Ops, CallStep(p)
      PROVE  /\ done'[o] = "failure" => done[o] = "failure"
             /\ res'[o] = "failure" => res[o] = "failure" \/ done[o] = "failure"
             /\ pc'[o] = "new" => pc[o] = "new" /\ done'[o] = done[o] /\ res'[o] = res[o]
  BY <1>1 DEF CallStep, Lookup, Track, Send, Receive, Untrack, Return
<1>2. ASSUME NEW p \in Ops, CtxEnds(p) \/ Abandon(p) \/ AgentDone(p)
      PROVE  /\ done' = done /\ res'[o] \in {res[o], "undelivered", "timeout"}
             /\ pc'[o] = "new" => pc[o] = "new" /\ res'[o] = res[o]
  BY <1>2 DEF CtxEnds, Abandon, AgentDone, Return, GiveUp
<1>3. ASSUME NEW c \in Conns, NEW p \in Ops, CloseSend(c, p)
      PROVE  /\ UNCHANGED <<res, pc>>
             /\ done'[o] # done[o] => pc[o] # "new" /\ Explained(o)
  BY <1>3 DEF CloseSend, Answerable, Explained
<1>4. ASSUME NEW c \in Conns, NEW p \in Ops, Deliver(c, p)
      PROVE  /\ UNCHANGED <<res, pc>>
             /\ done'[o] # done[o] => pc[o] # "new" /\ (done'[o] = "failure" => Explained(o))
  <2>1. done'[o] # done[o] => p = o /\ Waiting(c, o) /\ o \in up[c] /\ done'[o] = AgentAnswer(o)
    BY <1>4 DEF Deliver
  <2>2. Waiting(c, o) => pc[o] # "new" BY DEF Waiting, Tracked
  <2>3. o \in up[c] /\ AgentAnswer(o) = "failure" => Explained(o)
    BY DEF AgentAnswer, Explained, Truth, Earned
  <2> QED BY <1>4, <2>1, <2>2, <2>3 DEF Deliver
<1>5. ASSUME NEW c \in Conns, \/ AttachLock(c) \/ AttachClose(c) \/ AttachSet(c) \/ Write(c)
                              \/ DetachClose(c) \/ DetachRemove(c) \/ CloseEnd(c) \/ RecvFails(c)
      PROVE  UNCHANGED <<done, res, pc>>
  BY <1>5 DEF AttachLock, AttachClose, AttachSet, Write, DetachClose, DetachRemove, CloseStart,
              CloseEnd, RecvFails
<1>6. CASE Dial \/ SessionBreaks \/ UNCHANGED vars
  BY <1>6 DEF Dial, SessionBreaks, vars
<1>7. ASSUME NEW c \in Conns, ConnStep(c)
      PROVE  /\ UNCHANGED <<res, pc>>
             /\ done'[o] # done[o] => pc[o] # "new" /\ (done'[o] = "failure" => Explained(o))
  BY <1>3, <1>4, <1>5, <1>7 DEF ConnStep
<1> HIDE DEF Failing, Memory, Typed, TypeOK, hub, calls, side
<1>8. CASE \E p \in Ops : CallStep(p) BY <1>1, <1>8
<1>9. CASE \E p \in Ops : CtxEnds(p) \/ Abandon(p) \/ AgentDone(p) BY <1>2, <1>9
<1>10. CASE \E c \in Conns : ConnStep(c) BY <1>7, <1>10
<1> QED BY <1>6, <1>8, <1>9, <1>10 DEF Next

\* What closeAll has to answer is what was pending when it began.
LEMMA AnswerableStep == Failing /\ [Next]_vars => Answerable'
<1> SUFFICES ASSUME Failing, [Next]_vars, NEW c \in Conns, NEW o \in toClose'[c]
             PROVE  at'[o] = c /\ c \in closed' /\ pc'[o] # "new"
  BY DEF Answerable
<1> USE DEF Failing, Memory, Typed, TypeOK, hub, calls, side
<1>t. o \in Ops
  <2>1. toClose' \in [Conns -> SUBSET Ops]
    <3> HIDE DEF Typed, TypeOK
    <3> QED BY TypedStep DEF Typed, TypeOK
  <2> QED BY <2>1
<1>1. CASE o \in toClose[c]
  <2>1. at[o] = c /\ c \in closed /\ pc[o] # "new" BY <1>1 DEF Answerable
  <2> QED BY <1>t, <2>1, ReasonStays
<1>2. CASE o \notin toClose[c]
  <2>1. ASSUME NEW g \in Conns, NEW d \in Conns, CloseStart(g, d)
        PROVE  at'[o] = c /\ c \in closed' /\ pc'[o] # "new"
    <3>1. d = c /\ o \in pending[c] /\ UNCHANGED <<at, pc>> BY <1>2, <2>1 DEF CloseStart
    <3> QED BY <2>1, <3>1 DEF CloseStart, Tracked
  <2>2. ASSUME NEW d \in Conns, AttachClose(d) PROVE at'[o] = c /\ c \in closed' /\ pc'[o] # "new"
    BY <2>1, <2>2 DEF AttachClose
  <2>3. ASSUME NEW d \in Conns, DetachClose(d) PROVE at'[o] = c /\ c \in closed' /\ pc'[o] # "new"
    BY <2>1, <2>3 DEF DetachClose
  <2>4. ASSUME NEW d \in Conns, ConnStep(d), ~AttachClose(d), ~DetachClose(d) PROVE FALSE
    BY <1>2, <2>4 DEF ConnStep, AttachLock, AttachSet, Write, DetachRemove, CloseEnd, RecvFails,
                      CloseSend, Deliver
  <2>5. ASSUME NEW p \in Ops, CallStep(p) \/ CtxEnds(p) \/ Abandon(p) \/ AgentDone(p) PROVE FALSE
    BY <1>2, <2>5 DEF CallStep, Lookup, Track, Send, Receive, Untrack, CtxEnds, Abandon, AgentDone
  <2>6. CASE Dial \/ SessionBreaks \/ UNCHANGED vars
    BY <1>2, <2>6 DEF Dial, SessionBreaks, vars
  <2> QED BY <2>2, <2>3, <2>4, <2>5, <2>6 DEF Next
<1> QED BY <1>1, <1>2

LEMMA FailingStep == Failing /\ [Next]_vars => Failing'
<1> SUFFICES ASSUME Failing, [Next]_vars, NEW o \in Ops
             PROVE  /\ done'[o] = "failure" \/ res'[o] = "failure" => Explained(o)'
                    /\ pc'[o] = "new" => done'[o] = "empty" /\ res'[o] = "none"
  BY TruthStep, MemoryStep, AnswerableStep DEF Failing, Excused
<1>1. pc[o] # "new" /\ Explained(o) => Explained(o)'
  BY ReasonStays DEF Failing, Memory, Explained
<1>2. done[o] = "failure" \/ res[o] = "failure" => pc[o] # "new" /\ Explained(o)
  BY DEF Failing, Excused
<1> QED BY <1>1, <1>2, NewFailure DEF Failing, Excused

\* Whatever breaks, returns late or is given up: a call that returned a success
\* succeeded on its node, one that returned "not delivered" never starts, and one
\* that returned a failure failed there or lost its connection (hub.go, Execute
\* and closeAll).
THEOREM AnswersAreTruthful == Spec => []AnswersTruthful
<1>1. Init => Failing
  BY TruthInit, MemoryInit DEF Init, Failing, Excused, Answerable
<1>2. Failing => AnswersTruthful
  <2> SUFFICES ASSUME Failing, NEW o \in Ops
               PROVE  /\ res[o] = "success" => work[o] = "succeeded"
                      /\ res[o] = "undelivered" => NeverStarts(o)
                      /\ res[o] = "failure" => work[o] = "failed" \/ at[o] \in closed
    BY DEF AnswersTruthful
  <2>1. res[o] = "undelivered" => NeverStarts(o)
    BY DEF Failing, Truth, Earned, Placed, NeverStarts
  <2> QED BY <2>1 DEF Failing, Truth, Earned, Excused, Explained
<1> QED BY <1>1, <1>2, FailingStep, PTL DEF Spec

-----------------------------------------------------------------------------
(* The registry.                                                           *)

\* Whatever order replaced and broken connections end in, the registry never
\* keeps one whose goroutine is over (hub.go, attach and detach).
THEOREM RegistryIsServed == Spec => []RegistryServed
<1>1. Init => RegistryServed BY DEF Init, RegistryServed
<1>2. Typed /\ RegistryServed /\ [Next]_vars => RegistryServed'
  <2> SUFFICES ASSUME Typed, RegistryServed, [Next]_vars PROVE RegistryServed'
    OBVIOUS
  <2> USE DEF Typed, TypeOK, RegistryServed
  <2>1. ASSUME NEW c \in Conns, AttachLock(c) PROVE RegistryServed' BY <2>1 DEF AttachLock
  <2>2. ASSUME NEW c \in Conns, AttachSet(c) PROVE RegistryServed' BY <2>2 DEF AttachSet
  <2>3. ASSUME NEW c \in Conns, RecvFails(c) PROVE RegistryServed' BY <2>3 DEF RecvFails, hub
  <2>4. ASSUME NEW c \in Conns, DetachRemove(c) PROVE RegistryServed'
    BY <2>4 DEF DetachRemove, Removable
  <2>5. CASE Dial
    <3>1. UNCHANGED reg /\ \A c \in Conns : ch[c] \in {"serve", "closing"} => ch'[c] = ch[c]
      <4>1. PICK c \in Conns : ch[c] = "none" BY <2>5 DEF Dial
      <4> DEFINE S == {d \in Conns : ch[d] = "none"}
      <4>2. S \in SUBSET Nat /\ S # {} BY <4>1, HubAssumption
      <4>3. Min2(S) \in S
        <5>1. \E m \in S : \A d \in S : m <= d BY <4>2, LeastOf
        <5> QED BY <5>1 DEF Min2
      <4>4. ch' = [ch EXCEPT ![Min2(S)] = "attach"] /\ UNCHANGED reg BY <2>5 DEF Dial, hub
      <4>5. Min2(S) \in Conns /\ ch[Min2(S)] = "none" BY <4>3
      <4> HIDE DEF S
      <4> QED BY <4>4, <4>5
    <3> QED BY <3>1
  <2>6. ASSUME NEW c \in Conns,
               \/ AttachClose(c) \/ DetachClose(c) \/ CloseEnd(c) \/ Write(c)
               \/ \E o \in Ops : CloseSend(c, o) \/ Deliver(c, o)
        PROVE  RegistryServed'
    BY <2>6 DEF AttachClose, DetachClose, CloseStart, CloseEnd, Write, CloseSend, Deliver, hub
  <2>7. ASSUME NEW o \in Ops, CallStep(o) \/ CtxEnds(o) \/ Abandon(o) \/ AgentDone(o)
        PROVE  RegistryServed'
    BY <2>7 DEF CallStep, Lookup, Track, Send, Receive, Untrack, CtxEnds, Abandon, AgentDone, hub
  <2>8. CASE SessionBreaks \/ UNCHANGED vars BY <2>8 DEF SessionBreaks, vars, hub
  <2> QED BY <2>1, <2>2, <2>3, <2>4, <2>5, <2>6, <2>7, <2>8 DEF Next, ConnStep
<1> QED BY <1>1, <1>2, InitTyped, TypedStep, PTL DEF Spec

\* A connection leaves the registry by its own end only: the late end of one
\* that was replaced leaves its successor in place (hub.go, detach).
THEOREM RemovalIsOwn == Spec => OwnRemoval
<1>1. Typed /\ [Next]_vars => [\A c \in Conns : (reg = c /\ reg' = NoConn) => ch[c] = "closing"]_vars
  <2> SUFFICES ASSUME Typed, Next, NEW c \in Conns, reg = c, reg' = NoConn
               PROVE  ch[c] = "closing"
    OBVIOUS
  <2>1. c # NoConn BY HubAssumption DEF NoConn
  <2>2. reg' # reg BY <2>1
  <2>3. ASSUME NEW d \in Conns, AttachSet(d) PROVE FALSE
    BY <2>3, HubAssumption DEF AttachSet, NoConn
  <2>4. ASSUME NEW d \in Conns, DetachRemove(d) PROVE ch[c] = "closing"
    BY <2>4, <2>2 DEF DetachRemove, Removable
  <2>5. ASSUME NEW d \in Conns,
               \/ AttachLock(d) \/ AttachClose(d) \/ DetachClose(d) \/ CloseEnd(d) \/ Write(d)
               \/ RecvFails(d) \/ \E o \in Ops : CloseSend(d, o) \/ Deliver(d, o)
        PROVE  FALSE
    BY <2>5, <2>2 DEF AttachLock, AttachClose, DetachClose, CloseStart, CloseEnd, Write, RecvFails,
                      CloseSend, Deliver, hub
  <2>6. ASSUME NEW o \in Ops, CallStep(o) \/ CtxEnds(o) \/ Abandon(o) \/ AgentDone(o) PROVE FALSE
    BY <2>6, <2>2 DEF CallStep, Lookup, Track, Send, Receive, Untrack, CtxEnds, Abandon, AgentDone, hub
  <2>7. CASE Dial \/ SessionBreaks BY <2>7, <2>2 DEF Dial, SessionBreaks, hub
  <2> QED BY <2>3, <2>4, <2>5, <2>6, <2>7 DEF Next, ConnStep
<1> QED BY <1>1, InitTyped, TypedStep, PTL DEF Spec, OwnRemoval
=============================================================================
