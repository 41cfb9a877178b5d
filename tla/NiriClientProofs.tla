-------------------------- MODULE NiriClientProofs --------------------------
(***************************************************************************)
(* What NiriClient guarantees for any number of calls and paths.           *)
(*                                                                         *)
(* OnlyFailedReadsLeak is not inductive: it says nothing of a call under   *)
(* way.  ClientInv adds what the finally clause of request() finds: a call *)
(* that writes or reads holds a connection whose flag is not set, so that  *)
(* close() does not return at its first test, and no other call holds an   *)
(* open socket.                                                            *)
(***************************************************************************)
EXTENDS NiriClient, TLAPS

LEMMA ConnectionValues ==
  ASSUME NEW c \in Connections
  PROVE  /\ Unopened \in Connections /\ Opened \in Connections
         /\ CloseStarts(c) \in Connections
         /\ Released(c) \in Connections
         /\ Released(c).socket = "closed" /\ Released(c).closed = c.closed
         /\ ~c.closed => CloseStarts(c).socket = "closing"
BY DEF Connections, Unopened, Opened, CloseStarts, Released

LEMMA FailureValues ==
  ASSUME NEW c \in Connections, NEW f \in WriteFailures \cup ReadFailures
  PROVE  /\ AfterFailure(c, f) \in Connections
         /\ ErrorOf(f) \in {"NiriTimeoutError", "TransportError", "ProtocolError"}
         /\ ~c.closed /\ AfterFailure(c, f).closed =>
              AfterFailure(c, f).socket = "closed" \/ AfterFailure(c, f).poisoned
BY DEF Connections, AfterFailure, ErrorOf, WriteFailures, ReadFailures

\* What a call holds, by where it is.
Holds(r) ==
  /\ pc[r] \in {"idle", "connecting", "closing"} => conn[r].socket # "open"
  /\ pc[r] \in {"writing", "reading"} => ~conn[r].closed
  /\ pc[r] = "done" /\ conn[r].socket = "open" => conn[r].poisoned

ClientInv == TypeOK /\ \A r \in Calls : Holds(r)

LEMMA ClientInit == Init => ClientInv
<1> SUFFICES ASSUME Init PROVE ClientInv
  OBVIOUS
<1>1. Unopened \in Connections /\ Unopened.socket # "open"
  BY DEF Unopened, Connections
<1>2. TypeOK
  BY <1>1 DEF Init, TypeOK, CallStates, Backlogs, Outcomes
<1>3. ASSUME NEW r \in Calls PROVE Holds(r)
  BY <1>1 DEF Init, Holds
<1> QED BY <1>2, <1>3 DEF ClientInv

\* A step that changes only what belongs to r.
Local(r) ==
  /\ UNCHANGED <<env, socketPath, clientClosed>>
  /\ pc' = [pc EXCEPT ![r] = pc'[r]]
  /\ target' = [target EXCEPT ![r] = target'[r]]
  /\ conn' = [conn EXCEPT ![r] = conn'[r]]
  /\ backlog' = [backlog EXCEPT ![r] = backlog'[r]]
  /\ outcome' = [outcome EXCEPT ![r] = outcome'[r]]
  /\ pc'[r] \in CallStates /\ target'[r] \in Paths /\ conn'[r] \in Connections
  /\ backlog'[r] \in Backlogs /\ outcome'[r] \in Outcomes

\* Such a step has to be looked at for r alone.
LEMMA LocalStep ==
  ASSUME ClientInv, NEW r \in Calls, Local(r), Holds(r)'
  PROVE  ClientInv'
<1>1. TypeOK'
  BY DEF ClientInv, TypeOK, Local
<1>2. ASSUME NEW q \in Calls, q # r PROVE Holds(q)'
  <2>1. pc'[q] = pc[q] /\ conn'[q] = conn[q] /\ outcome'[q] = outcome[q]
    BY <1>2 DEF ClientInv, TypeOK, Local
  <2> QED BY <2>1 DEF ClientInv, Holds
<1> QED BY <1>1, <1>2 DEF ClientInv

\* The step of one call: each action leaves the other calls alone and the call
\* with what its new state allows it to hold.
LEMMA CallKeepsInv ==
  ASSUME ClientInv, NEW r \in Calls, CallStep(r)
  PROVE  ClientInv'
<1> DEFINE c == conn[r]
<1>a. /\ c \in Connections /\ pc[r] \in CallStates /\ target[r] \in Paths
      /\ backlog[r] \in Backlogs /\ outcome[r] \in Outcomes /\ socketPath \in Paths
      /\ Holds(r)
  BY DEF ClientInv, TypeOK
<1>b. /\ pc \in [Calls -> CallStates] /\ conn \in [Calls -> Connections]
      /\ target \in [Calls -> Paths] /\ backlog \in [Calls -> Backlogs]
      /\ outcome \in [Calls -> Outcomes]
  BY DEF ClientInv, TypeOK
<1>c. \* The finally clause, from a connection d.
      ASSUME NEW d \in Connections, Finally(r, d),
             d.closed => d.socket = "closed" \/ d.poisoned
      PROVE  /\ pc' = [pc EXCEPT ![r] = pc'[r]] /\ conn' = [conn EXCEPT ![r] = conn'[r]]
             /\ pc'[r] \in CallStates /\ conn'[r] \in Connections
             /\ Holds(r)'
  <2>1. /\ conn'[r] = CloseStarts(d) /\ pc'[r] = IF CloseSuspends(d) THEN "closing" ELSE "done"
        /\ pc' = [pc EXCEPT ![r] = pc'[r]] /\ conn' = [conn EXCEPT ![r] = conn'[r]]
    BY <1>b, <1>c DEF Finally, Goes
  <2>2. CASE d.closed
    BY <2>1, <2>2, <1>c DEF CloseSuspends, CloseStarts, Holds, CallStates
  <2>3. CASE ~d.closed
    BY <2>1, <2>3, <1>c, ConnectionValues DEF CloseSuspends, Holds, CallStates
  <2>4. d.closed \in BOOLEAN
    BY DEF Connections
  <2> QED BY <2>1, <2>2, <2>3, <2>4
<1>1. CASE RequestRejected(r)
  <2>1. Local(r) /\ Holds(r)'
    BY <1>1, <1>a, <1>b DEF RequestRejected, Goes, Yields, Local, Holds, CallStates, Outcomes
  <2> QED BY <2>1, LocalStep
<1>2. CASE RequestStarts(r)
  <2>1. Local(r) /\ Holds(r)'
    BY <1>2, <1>a, <1>b DEF RequestStarts, Goes, Local, Holds, CallStates
  <2> QED BY <2>1, LocalStep
<1>3. CASE ConnectTimesOut(r)
  <2>1. Local(r) /\ Holds(r)'
    BY <1>3, <1>a, <1>b DEF ConnectTimesOut, Goes, Yields, Local, Holds, CallStates, Outcomes
  <2> QED BY <2>1, LocalStep
<1>4. CASE ConnectRefused(r)
  <2>1. Local(r) /\ Holds(r)'
    BY <1>4, <1>a, <1>b DEF ConnectRefused, Goes, Yields, Local, Holds, CallStates, Outcomes
  <2> QED BY <2>1, LocalStep
<1>5. ASSUME NEW held \in Backlogs, ConnectOpens(r, held) PROVE ClientInv'
  <2>1. /\ pc'[r] \in {"writing", "reading"} /\ conn'[r] = Opened /\ backlog'[r] = held
        /\ Local(r)
    BY <1>5, <1>a, <1>b, ConnectionValues DEF ConnectOpens, Goes, Local, CallStates
  <2>2. Holds(r)'
    BY <2>1 DEF Holds, Opened
  <2> QED BY <2>1, <2>2, LocalStep
<1>6. CASE DrainReturns(r)
  <2>1. Local(r) /\ Holds(r)'
    BY <1>6, <1>a, <1>b DEF DrainReturns, Goes, Local, Holds, CallStates
  <2> QED BY <2>1, LocalStep
<1>7. ASSUME NEW f \in WriteFailures, WriteFails(r, f) PROVE ClientInv'
  <2>1. /\ outcome' = [outcome EXCEPT ![r] = ErrorOf(f)]
        /\ Finally(r, AfterFailure(c, f))
        /\ UNCHANGED <<env, socketPath, clientClosed, target, backlog>>
    BY <1>7 DEF WriteFails, Yields
  <2>2. outcome'[r] \in Outcomes
    BY <2>1, <1>a, <1>b, FailureValues DEF Outcomes
  <2>3. /\ AfterFailure(c, f) \in Connections
        /\ AfterFailure(c, f).closed =>
             AfterFailure(c, f).socket = "closed" \/ AfterFailure(c, f).poisoned
    BY <1>a, FailureValues, <1>7 DEF Holds, WriteFails
  <2> QED BY <2>1, <2>2, <2>3, <1>a, <1>b, <1>c, LocalStep DEF Local
<1>8. ASSUME NEW what \in {"reply", "badreply"}, ReplyArrives(r, what) PROVE ClientInv'
  <2>1. /\ outcome' = [outcome EXCEPT ![r] = what]
        /\ Finally(r, c) /\ ~c.closed
        /\ UNCHANGED <<env, socketPath, clientClosed, target, backlog>>
    BY <1>8, <1>a DEF ReplyArrives, Yields, Holds
  <2>2. outcome'[r] \in Outcomes
    BY <2>1, <1>b DEF Outcomes
  <2> QED BY <2>1, <2>2, <1>a, <1>b, <1>c, LocalStep DEF Local
<1>9. ASSUME NEW f \in ReadFailures, ReadFails(r, f) PROVE ClientInv'
  <2>1. /\ outcome' = [outcome EXCEPT ![r] = ErrorOf(f)]
        /\ Finally(r, AfterFailure(c, f))
        /\ UNCHANGED <<env, socketPath, clientClosed, target, backlog>>
    BY <1>9 DEF ReadFails, Yields
  <2>2. outcome'[r] \in Outcomes
    BY <2>1, <1>a, <1>b, FailureValues DEF Outcomes
  <2>3. /\ AfterFailure(c, f) \in Connections
        /\ AfterFailure(c, f).closed =>
             AfterFailure(c, f).socket = "closed" \/ AfterFailure(c, f).poisoned
    BY <1>a, FailureValues, <1>9 DEF Holds, ReadFails
  <2> QED BY <2>1, <2>2, <2>3, <1>a, <1>b, <1>c, LocalStep DEF Local
<1>10. CASE CloseFinishes(r)
  <2>1. Local(r) /\ Holds(r)'
    BY <1>10, <1>a, <1>b DEF CloseFinishes, Goes, Local, Holds, CallStates
  <2> QED BY <2>1, LocalStep
<1>11. CASE RequestCancelled(r)
  <2>1. /\ outcome' = [outcome EXCEPT ![r] = "cancelled"] /\ "cancelled" \in Outcomes
        /\ UNCHANGED <<env, socketPath, clientClosed, target, backlog>>
    BY <1>11 DEF RequestCancelled, Yields, Outcomes
  <2>2. CASE pc[r] \in {"connecting", "closing"} /\ Goes(r, "done") /\ UNCHANGED conn
    <3>1. Local(r) /\ Holds(r)'
      BY <2>1, <2>2, <1>a, <1>b DEF Goes, Local, Holds, CallStates
    <3> QED BY <3>1, LocalStep
  <2>3. CASE pc[r] \in {"writing", "reading"} /\ Finally(r, c)
    <3>1. ~c.closed
      BY <2>3, <1>a DEF Holds
    <3> QED BY <2>1, <2>3, <3>1, <1>a, <1>b, <1>c, LocalStep DEF Local
  <2> QED BY <1>11, <2>2, <2>3 DEF RequestCancelled
<1> QED BY <1>1, <1>2, <1>3, <1>4, <1>5, <1>6, <1>7, <1>8, <1>9, <1>10, <1>11 DEF CallStep

LEMMA ClientStep == ClientInv /\ [Next]_vars => ClientInv'
<1> SUFFICES ASSUME ClientInv, [Next]_vars PROVE ClientInv'
  OBVIOUS
<1>1. ASSUME NEW r \in Calls, CallStep(r) PROVE ClientInv'
  BY <1>1, CallKeepsInv
<1>2. ASSUME NEW r \in Calls, PeerReads(r) PROVE ClientInv'
  <2>1. Local(r)
    BY <1>2 DEF PeerReads, ClientInv, TypeOK, Local, Backlogs
  <2>2. Holds(r)'
    BY <1>2 DEF PeerReads, ClientInv, Holds
  <2> QED BY <2>1, <2>2, LocalStep
<1>3. ASSUME NEW r \in Calls, SocketReleased(r) PROVE ClientInv'
  <2>1. /\ conn[r] \in Connections /\ Holds(r)
        /\ conn' = [conn EXCEPT ![r] = Released(conn[r])]
        /\ conn'[r] = Released(conn[r])
        /\ UNCHANGED <<env, socketPath, clientClosed, pc, target, backlog, outcome>>
    BY <1>3 DEF SocketReleased, ClientInv, TypeOK
  <2>2. Local(r)
    BY <2>1, ConnectionValues DEF ClientInv, TypeOK, Local
  <2>3. Holds(r)'
    BY <2>1, ConnectionValues DEF Holds
  <2> QED BY <2>2, <2>3, LocalStep
<1>4. CASE Close
  BY <1>4 DEF Close, ClientInv, TypeOK, Holds
<1>5. CASE EnvironmentChanges
  BY <1>5 DEF EnvironmentChanges, ClientInv, TypeOK, Holds
<1>6. CASE UNCHANGED vars
  BY <1>6 DEF vars, ClientInv, TypeOK, Holds
<1> QED BY <1>1, <1>2, <1>3, <1>4, <1>5, <1>6 DEF Next

\* The state of every call keeps its shape (client.py:50-53, 96-122).
THEOREM ClientTypeCorrect == Spec => []TypeOK
<1>1. ClientInv => TypeOK
  BY DEF ClientInv
<1> QED BY <1>1, ClientInit, ClientStep, PTL DEF Spec

\* Whatever the number of calls, and however they fail or are cancelled, a call
\* that is over still holds an open socket only if a failed read left it so
\* (client.py:111-122, connection.py:108-140, 168-176).
THEOREM OnlyReadsLeak == Spec => []OnlyFailedReadsLeak
<1>1. ClientInv => OnlyFailedReadsLeak
  BY DEF ClientInv, Holds, OnlyFailedReadsLeak
<1> QED BY <1>1, ClientInit, ClientStep, PTL DEF Spec
=============================================================================
