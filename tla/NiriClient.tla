----------------------------- MODULE NiriClient -----------------------------
(***************************************************************************)
(* NiriClient (src/niri_pypc/api/client.py): concurrent request() calls,    *)
(* each on a connection of its own, and close().                            *)
(*                                                                         *)
(* An action is the code of one call between two suspension points.  What  *)
(* the compositor does is nondeterministic: it may refuse, stall, answer   *)
(* well or badly, or go away.                                              *)
(***************************************************************************)
EXTENDS UnixConnection

CONSTANTS
  Calls,  \* request() calls
  Paths   \* values of NIRI_SOCKET

ASSUME PathsAssumption == Paths # {}

VARIABLES
  env,         \* the value of NIRI_SOCKET; socket_path is not configured
  socketPath,  \* _socket_path
  clientClosed,\* _closed
  pc,          \* where each call is
  target,      \* the path each call connects to
  conn,        \* the connection of each call
  backlog,     \* how much of the request of the call the transport still holds
  outcome      \* what the call returns or raises

vars == <<env, socketPath, clientClosed, pc, target, conn, backlog, outcome>>

None == "None"
\* The write buffer of the transport: empty, below or above the mark at which
\* drain() suspends.
Backlogs == {"none", "low", "high"}

CallStates == {"idle", "connecting", "writing", "reading", "closing", "done"}
Outcomes == {None, "reply", "badreply", "cancelled",
             "LifecycleError", "NiriTimeoutError", "TransportError", "ProtocolError"}

\* create(): the configuration resolves the path, once.
Init ==
  /\ env \in Paths
  /\ socketPath = env
  /\ clientClosed = FALSE
  /\ pc = [r \in Calls |-> "idle"]
  /\ target = [r \in Calls |-> env]
  /\ conn = [r \in Calls |-> Unopened]
  /\ backlog = [r \in Calls |-> "none"]
  /\ outcome = [r \in Calls |-> None]

Goes(r, where) == pc' = [pc EXCEPT ![r] = where]
Yields(r, what) == outcome' = [outcome EXCEPT ![r] = what]

RequestRejected(r) ==
  /\ pc[r] = "idle" /\ clientClosed
  /\ Goes(r, "done") /\ Yields(r, "LifecycleError")
  /\ UNCHANGED <<env, socketPath, clientClosed, target, conn, backlog>>

RequestStarts(r) ==
  /\ pc[r] = "idle" /\ ~clientClosed
  /\ Goes(r, "connecting")
  /\ target' = [target EXCEPT ![r] = socketPath]
  /\ UNCHANGED <<env, socketPath, clientClosed, conn, backlog, outcome>>

ConnectTimesOut(r) ==
  /\ pc[r] = "connecting"
  /\ Goes(r, "done") /\ Yields(r, "NiriTimeoutError")
  /\ UNCHANGED <<env, socketPath, clientClosed, target, conn, backlog>>

ConnectRefused(r) ==
  /\ pc[r] = "connecting"
  /\ Goes(r, "done") /\ Yields(r, "TransportError")
  /\ UNCHANGED <<env, socketPath, clientClosed, target, conn, backlog>>

\* The connection opens and write_frame hands the request over; drain() only
\* suspends if the compositor does not take enough of it.
ConnectOpens(r, held) ==
  /\ pc[r] = "connecting"
  /\ conn' = [conn EXCEPT ![r] = Opened]
  /\ backlog' = [backlog EXCEPT ![r] = held]
  /\ Goes(r, IF held = "high" THEN "writing" ELSE "reading")
  /\ UNCHANGED <<env, socketPath, clientClosed, target, outcome>>

\* Mutant: the finally clause is missing.
FinallyForgotten(r, c) ==
  /\ conn' = [conn EXCEPT ![r] = c]
  /\ Goes(r, "done")

\* The finally clause of request(), from a connection in state c.
Finally(r, c) ==
  /\ conn' = [conn EXCEPT ![r] = CloseStarts(c)]
  /\ Goes(r, IF CloseSuspends(c) THEN "closing" ELSE "done")

DrainReturns(r) ==
  /\ pc[r] = "writing" /\ backlog[r] # "high"
  /\ Goes(r, "reading")
  /\ UNCHANGED <<env, socketPath, clientClosed, target, conn, backlog, outcome>>

WriteFails(r, f) ==
  /\ pc[r] = "writing"
  /\ Yields(r, ErrorOf(f))
  /\ Finally(r, AfterFailure(conn[r], f))
  /\ UNCHANGED <<env, socketPath, clientClosed, target, backlog>>

\* A frame arrives; it may not validate or may be the compositor's error.
ReplyArrives(r, what) ==
  /\ pc[r] = "reading"
  /\ Yields(r, what)
  /\ Finally(r, conn[r])
  /\ UNCHANGED <<env, socketPath, clientClosed, target, backlog>>

\* Mutant: no timeout is passed to read_frame.
ReadFailsInTime(r, f) ==
  /\ pc[r] = "reading" /\ f # "late"
  /\ Yields(r, ErrorOf(f))
  /\ Finally(r, AfterFailure(conn[r], f))
  /\ UNCHANGED <<env, socketPath, clientClosed, target, backlog>>

ReadFails(r, f) ==
  /\ pc[r] = "reading"
  /\ Yields(r, ErrorOf(f))
  /\ Finally(r, AfterFailure(conn[r], f))
  /\ UNCHANGED <<env, socketPath, clientClosed, target, backlog>>

\* wait_closed() returns in the finally clause.
CloseFinishes(r) ==
  /\ pc[r] = "closing" /\ conn[r].socket = "closed"
  /\ Goes(r, "done")
  /\ UNCHANGED <<env, socketPath, clientClosed, target, conn, backlog, outcome>>

\* The caller cancels request().
RequestCancelled(r) ==
  /\ \/ /\ pc[r] \in {"connecting", "closing"}
        /\ Goes(r, "done")
        /\ UNCHANGED conn
     \/ /\ pc[r] \in {"writing", "reading"}
        /\ Finally(r, conn[r])
  /\ Yields(r, "cancelled")
  /\ UNCHANGED <<env, socketPath, clientClosed, target, backlog>>

\* close() of the client: it does not know the calls in flight.
Close ==
  /\ clientClosed' = TRUE
  /\ UNCHANGED <<env, socketPath, pc, target, conn, backlog, outcome>>

EnvironmentChanges ==
  /\ env' \in Paths
  /\ UNCHANGED <<socketPath, clientClosed, pc, target, conn, backlog, outcome>>

\* The compositor takes more of the request.
PeerReads(r) ==
  /\ backlog[r] # "none"
  /\ backlog' = [backlog EXCEPT ![r] = IF @ = "high" THEN "low" ELSE "none"]
  /\ UNCHANGED <<env, socketPath, clientClosed, pc, target, conn, outcome>>

\* A closing transport flushes its buffer before connection_lost.
SocketReleased(r) ==
  /\ conn[r].socket = "closing" /\ backlog[r] = "none"
  /\ conn' = [conn EXCEPT ![r] = Released(@)]
  /\ UNCHANGED <<env, socketPath, clientClosed, pc, target, backlog, outcome>>

CallStep(r) ==
  \/ RequestRejected(r) \/ RequestStarts(r)
  \/ ConnectTimesOut(r) \/ ConnectRefused(r)
  \/ \E held \in Backlogs : ConnectOpens(r, held)
  \/ DrainReturns(r)
  \/ \E f \in WriteFailures : WriteFails(r, f)
  \/ \E what \in {"reply", "badreply"} : ReplyArrives(r, what)
  \/ \E f \in ReadFailures : ReadFails(r, f)
  \/ CloseFinishes(r)
  \/ RequestCancelled(r)

Next ==
  \/ \E r \in Calls : CallStep(r) \/ PeerReads(r) \/ SocketReleased(r)
  \/ Close
  \/ EnvironmentChanges

Spec == Init /\ [][Next]_vars

\* The event loop runs what is ready and its timers expire: connect_timeout
\* around the connection, request_timeout around the read, nothing else.
LoopFairness ==
  \A r \in Calls :
    /\ WF_vars(ConnectTimesOut(r)) /\ WF_vars(ReadFails(r, "late"))
    /\ WF_vars(DrainReturns(r)) /\ WF_vars(CloseFinishes(r)) /\ WF_vars(SocketReleased(r))

FairSpec == Spec /\ LoopFairness

\* In addition the compositor keeps reading what it is sent.
ResponsiveSpec == FairSpec /\ \A r \in Calls : WF_vars(PeerReads(r))

(***************************************************************************)
(* Properties.                                                             *)
(***************************************************************************)
\* The shape of the state of NiriClient and of the locals of its calls
\* (client.py:50-53, 96-122).
TypeOK ==
  /\ env \in Paths /\ socketPath \in Paths /\ clientClosed \in BOOLEAN
  /\ pc \in [Calls -> CallStates]
  /\ target \in [Calls -> Paths]
  /\ conn \in [Calls -> Connections]
  /\ backlog \in [Calls -> Backlogs]
  /\ outcome \in [Calls -> Outcomes]

\* A call that is over has let go of its socket on every path but one, however
\* it was cancelled or failed: only a read that timed out, met the end of the
\* stream or overran leaves it open (client.py:111-122, connection.py:108-140,
\* 168-176).
OnlyFailedReadsLeak ==
  \A r \in Calls : pc[r] = "done" /\ conn[r].socket = "open" => conn[r].poisoned

\* Every request() returns or raises, whatever the compositor answers and
\* however often the call is cancelled (client.py:96-122).
RequestSettles == \A r \in Calls : pc[r] \in {"connecting", "writing", "reading", "closing"} ~> pc[r] = "done"

\* Each request closes its connection (client.py:121-122).
RequestReleasesSocket == \A r \in Calls : pc[r] = "done" => conn[r].socket # "open"
=============================================================================
