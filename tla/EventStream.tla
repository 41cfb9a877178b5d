---------------------------- MODULE EventStream ----------------------------
(***************************************************************************)
(* NiriEventStream (src/niri_pypc/api/event_stream.py): a task that opens  *)
(* the stream, the background reader task, the tasks that call next() and  *)
(* the tasks that call close(), all on one asyncio event loop.              *)
(*                                                                         *)
(* An action is the code a task runs between two points where it really    *)
(* suspends.  The order in which the loop runs ready tasks is left open;   *)
(* the frames the compositor sends are numbered in wire order.             *)
(***************************************************************************)
EXTENDS Lifecycle, UnixConnection, Naturals, FiniteSets, SequencesExt

CONSTANTS
  Consumers,    \* tasks that call next(), again and again
  Closers,      \* tasks that call close()
  Cancellable,  \* the closers whose close() the application may cancel
  Capacity,     \* event_queue_capacity
  Mode,         \* backpressure_mode
  MaxEvents     \* bound: how many events the compositor publishes

ASSUME ConsumersAssumption == IsFiniteSet(Consumers)
ASSUME ClosersAssumption   == Cancellable \subseteq Closers
ASSUME CapacityAssumption  == Capacity \in Nat \ {0}
ASSUME ModeAssumption      == Mode \in {"DROP_OLDEST", "FAIL_FAST"}
ASSUME BoundAssumption     == MaxEvents \in Nat

None   == "None"
Errors == {"TransportError", "ProtocolError", "DecodeError"}

(***************************************************************************)
(* Queue items: _EventItem, _ErrorItem and _ClosedItem.                    *)
(***************************************************************************)
Items == [kind : {"event", "error", "closed"}, seq : Nat, cause : Errors \cup {None}]

EventItem(n) == [kind |-> "event",  seq |-> n, cause |-> None]
ErrorItem(e) == [kind |-> "error",  seq |-> 0, cause |-> e]
ClosedItem   == [kind |-> "closed", seq |-> 0, cause |-> None]

IsEvent(item) == item.kind = "event"

VARIABLES
  lifecycle,      \* _lifecycle.state
  connector,      \* where the task in connect() is
  conn,           \* the UnixConnection
  connRef,        \* _connection is not None
  reader,         \* where the reader task is
  closer,         \* where each task in close() is
  terminalCause,  \* _terminal_cause
  terminalEvent,  \* _terminal_event.is_set()
  items,          \* _queue: the items in it
  waiters,        \* _queue: tasks parked in get(), oldest first
  woken,          \* _queue: tasks whose get() was woken and has not yet run
  outcome,        \* what each consumer's last next() returned or raised
  received,       \* history: number of the last event accepted from the wire
  taken,          \* history: the items get() returned, in order
  dropped,        \* history: events evicted with the warning of DROP_OLDEST
  discarded       \* history: events evicted by _enqueue_terminal

queueVars   == <<items, waiters, woken>>
connVars    == <<conn, connRef>>
signalVars  == <<terminalCause, terminalEvent>>
historyVars == <<received, taken, dropped, discarded>>
vars == <<lifecycle, connector, connVars, reader, closer, signalVars,
          queueVars, outcome, historyVars>>

\* "unwinding": cancelled in read_frame, its finally clause still to run;
\* "aborting": cancelled before its first step or inside the finally clause,
\* so that no line of it runs any more.
ReaderStates == {"none", "scheduled", "reading", "unwinding", "closing", "aborting", "done"}
ConnectorStates == {"new", "opening", "bootstrapping", "failing", "connected", "failed", "cancelled"}
CloserStates == {"idle", "await_reader", "await_conn", "cancelled", "returned"}

Init ==
  /\ lifecycle = "INIT"
  /\ connector = "new"
  /\ conn = Unopened
  /\ connRef = FALSE
  /\ reader = "none"
  /\ closer = [k \in Closers |-> "idle"]
  /\ terminalCause = None
  /\ terminalEvent = FALSE
  /\ items = <<>> /\ waiters = <<>> /\ woken = {}
  /\ outcome = [c \in Consumers |-> None]
  /\ received = 0
  /\ taken = <<>> /\ dropped = {} /\ discarded = {}

(***************************************************************************)
(* The asyncio.Queue the stream is built on.                               *)
(***************************************************************************)
Full == Len(items) >= Capacity

\* _wakeup_next: resolve the oldest getter that is still pending.
WakeNext(wokenNow) ==
  IF waiters = <<>>
  THEN waiters' = waiters /\ woken' = wokenNow
  ELSE waiters' = Tail(waiters) /\ woken' = wokenNow \cup {Head(waiters)}

\* put_nowait of an item behind the items in q.
Put(q, item) == items' = Append(q, item) /\ WakeNext(woken)

(***************************************************************************)
(* Terminal signalling.                                                    *)
(***************************************************************************)
SignalTerminal(cause) ==
  /\ terminalCause' = IF cause # None /\ terminalCause = None THEN cause ELSE terminalCause
  /\ terminalEvent' = TRUE

\* Mutant: the terminal item is put whether or not there is room.
EnqueueTerminalUnbounded(item) == Put(items, item) /\ UNCHANGED discarded

\* Mutant: QueueFull is ignored.
EnqueueTerminalIfRoom(item) ==
  /\ IF Full THEN UNCHANGED queueVars ELSE Put(items, item)
  /\ UNCHANGED discarded

\* A full queue loses its oldest item, without a warning.
EnqueueTerminal(item) ==
  /\ Put(IF Full THEN Tail(items) ELSE items, item)
  /\ discarded' = IF Full /\ IsEvent(Head(items))
                  THEN discarded \cup {Head(items).seq} ELSE discarded

(***************************************************************************)
(* connect() and _bootstrap().                                             *)
(***************************************************************************)
streamVars == <<reader, closer, signalVars, queueVars, outcome, historyVars>>

Connect ==
  /\ connector = "new"
  /\ connector' = "opening"
  /\ lifecycle' = TransitionTo(lifecycle, "CONNECTING")
  /\ UNCHANGED <<connVars, streamVars>>

\* resolve_socket_path() or UnixConnection.connect() raises: nothing cleans up.
ConnectRefused ==
  /\ connector = "opening"
  /\ connector' = "failed"
  /\ UNCHANGED <<lifecycle, connVars, streamVars>>

ConnectOpens ==
  /\ connector = "opening"
  /\ connector' = "bootstrapping"
  /\ conn' = Opened
  /\ connRef' = TRUE
  /\ UNCHANGED <<lifecycle, streamVars>>

\* The write or the read of the handshake fails, or the reply is not Handled.
BootstrapFailures == WriteFailures \cup ReadFailures \cup {"badreply"}

AfterBootstrapFailure(f) == IF f = "badreply" THEN conn ELSE AfterFailure(conn, f)

ConnectFails ==
  /\ connector' = "failed"
  /\ connRef' = FALSE
  /\ lifecycle' = TransitionTo(lifecycle, "CLOSED")

BootstrapFails(f) ==
  /\ connector = "bootstrapping"
  /\ conn' = CloseStarts(AfterBootstrapFailure(f))
  /\ IF CloseSuspends(AfterBootstrapFailure(f))
     THEN connector' = "failing" /\ UNCHANGED <<connRef, lifecycle>>
     ELSE ConnectFails
  /\ UNCHANGED streamVars

BootstrapCleanedUp ==
  /\ connector = "failing" /\ conn.socket = "closed"
  /\ ConnectFails
  /\ UNCHANGED <<conn, streamVars>>

BootstrapSucceeds ==
  /\ connector = "bootstrapping"
  /\ connector' = "connected"
  /\ lifecycle' = TransitionTo(lifecycle, "READY")
  /\ reader' = "scheduled"
  /\ UNCHANGED <<connVars, closer, signalVars, queueVars, outcome, historyVars>>

\* CancelledError is not an Exception: no handler of connect() runs.
ConnectCancelled ==
  /\ connector \in {"opening", "bootstrapping", "failing"}
  /\ connector' = "cancelled"
  /\ UNCHANGED <<lifecycle, connVars, streamVars>>

(***************************************************************************)
(* The reader task: _run_reader() and _close_reader_resources().           *)
(***************************************************************************)
ReaderStarts ==
  /\ reader = "scheduled"
  /\ reader' = "reading"
  /\ UNCHANGED <<lifecycle, connector, connVars, closer, signalVars, queueVars, outcome, historyVars>>

\* The finally clause, from a connection in state c to its next suspension.
\* A reader that gets to the end here has published an error, so the
\* ClosedItem of _close_reader_resources is not due.
ReaderTearsDown(c) ==
  /\ conn' = CloseStarts(c)
  /\ IF CloseSuspends(c)
     THEN /\ reader' = "closing"
          /\ lifecycle' = TransitionTo(lifecycle, "CLOSING")
          /\ UNCHANGED connRef
     ELSE /\ reader' = "done"
          /\ lifecycle' = TransitionTo(lifecycle, "CLOSED")
          /\ connRef' = FALSE

\* Mutant: the return after the failure is missing.
ReaderFailsAndContinues(cause, c) ==
  /\ SignalTerminal(cause)
  /\ EnqueueTerminal(ErrorItem(cause))
  /\ conn' = c
  /\ UNCHANGED <<lifecycle, connRef, reader, connector, closer, outcome, received, taken, dropped>>

ReaderFails(cause, c) ==
  /\ SignalTerminal(cause)
  /\ EnqueueTerminal(ErrorItem(cause))
  /\ ReaderTearsDown(c)
  /\ UNCHANGED <<connector, closer, outcome, received, taken, dropped>>

\* read_frame raises; the reader sets no timeout, so it is never "late".
ReaderReadFails(f) ==
  /\ reader = "reading"
  /\ ReaderFails(ErrorOf(f), AfterFailure(conn, f))

\* A frame that is not a JSON event.
ReaderDecodeFails ==
  /\ reader = "reading"
  /\ ReaderFails("DecodeError", conn)

\* A frame that is one, put behind the items in q.
Publishes(q, item) ==
  /\ reader = "reading" /\ received < MaxEvents
  /\ Put(q, item)
  /\ received' = received + 1
  /\ UNCHANGED <<lifecycle, connector, connVars, reader, closer, signalVars,
                 outcome, taken, discarded>>

ReaderEnqueues ==
  /\ ~Full
  /\ Publishes(items, EventItem(received + 1))
  /\ UNCHANGED dropped

\* Mutant: the eviction takes the newest item.
ReaderDropsNewest ==
  /\ Full /\ Mode = "DROP_OLDEST"
  /\ Publishes(SubSeq(items, 1, Len(items) - 1), EventItem(received + 1))
  /\ dropped' = dropped \cup {items[Len(items)].seq}

\* Mutant: it is the evicted item that is put.
ReaderRequeuesOldest ==
  /\ Full /\ Mode = "DROP_OLDEST"
  /\ Publishes(Tail(items), Head(items))
  /\ dropped' = dropped \cup {received + 1}

\* Mutant: the mode is not looked at.
ReaderDropsInEveryMode ==
  /\ Full
  /\ Publishes(Tail(items), EventItem(received + 1))
  /\ dropped' = dropped \cup {Head(items).seq}

ReaderDropsOldest ==
  /\ Full /\ Mode = "DROP_OLDEST"
  /\ Publishes(Tail(items), EventItem(received + 1))
  /\ dropped' = dropped \cup {Head(items).seq}

ReaderOverflows ==
  /\ reader = "reading" /\ received < MaxEvents
  /\ Full /\ Mode = "FAIL_FAST"
  /\ ReaderFails("ProtocolError", conn)

\* A cancelled read_frame: only the finally clause runs.
ReaderUnwinds ==
  /\ reader = "unwinding"
  /\ ReaderTearsDown(conn)
  /\ UNCHANGED <<connector, closer, signalVars, queueVars, outcome, historyVars>>

\* wait_closed() returns to the finally clause.
ReaderFinishes ==
  /\ reader = "closing" /\ conn.socket = "closed"
  /\ reader' = "done"
  /\ connRef' = FALSE
  /\ lifecycle' = TransitionTo(lifecycle, "CLOSED")
  /\ IF terminalCause = None
     THEN SignalTerminal(None) /\ EnqueueTerminal(ClosedItem)
     ELSE UNCHANGED <<signalVars, queueVars, discarded>>
  /\ UNCHANGED <<connector, conn, closer, outcome, received, taken, dropped>>

ReaderAborts ==
  /\ reader = "aborting"
  /\ reader' = "done"
  /\ UNCHANGED <<lifecycle, connector, connVars, closer, signalVars, queueVars, outcome, historyVars>>

\* Mutant: the cancel is missing.
CancelIgnored(r) == r

\* The reader task after reader_task.cancel().
Cancelled(r) ==
  CASE r \in {"scheduled", "closing"} -> "aborting"
    [] r = "reading"                  -> "unwinding"
    [] OTHER                          -> r

(***************************************************************************)
(* next().                                                                 *)
(***************************************************************************)
IsIdle(c) == c \notin woken /\ c \notin ToSet(waiters)

\* Mutant: only the lifecycle is looked at.
RejectedWhenClosed == lifecycle = "CLOSED"

Rejected == \/ terminalEvent /\ items = <<>>
            \/ lifecycle = "CLOSED"

\* What next() never touches.
nextFrame == <<lifecycle, connector, connVars, reader, closer, signalVars,
               received, dropped, discarded>>

\* What next() makes of the item get() returned to it.
OutcomeOf(item) == CASE item.kind = "event"  -> "event"
                     [] item.kind = "error"  -> item.cause
                     [] item.kind = "closed" -> "closed"

Take(c) ==
  /\ items # <<>>
  /\ items' = Tail(items)
  /\ taken' = Append(taken, Head(items))
  /\ outcome' = [outcome EXCEPT ![c] = OutcomeOf(Head(items))]
  /\ UNCHANGED <<nextFrame, waiters>>

Park(c) ==
  /\ items = <<>>
  /\ waiters' = Append(waiters, c)
  /\ UNCHANGED <<nextFrame, items, outcome, taken>>

\* Mutant: the cause is forgotten.
RejectedCleanly == "closed"

\* What next() raises without looking at the queue.
RejectedWith == IF terminalCause = None THEN "closed" ELSE terminalCause

NextRejected(c) ==
  /\ connector = "connected" /\ IsIdle(c) /\ Rejected
  /\ outcome' = [outcome EXCEPT ![c] = RejectedWith]
  /\ UNCHANGED <<nextFrame, queueVars, taken>>

NextTakes(c) ==
  /\ connector = "connected" /\ IsIdle(c) /\ ~Rejected
  /\ Take(c)
  /\ UNCHANGED woken

NextParks(c) ==
  /\ connector = "connected" /\ IsIdle(c) /\ ~Rejected
  /\ Park(c)
  /\ UNCHANGED woken

\* A woken get() looks at the queue again: another call may have emptied it.
NextResumes(c) ==
  /\ c \in woken
  /\ woken' = woken \ {c}
  /\ Take(c)

NextParksAgain(c) ==
  /\ c \in woken
  /\ woken' = woken \ {c}
  /\ Park(c)

\* Mutant: the wake-up of an abandoned get() is not handed on.
NextAbandonedLosingWakeup(c) ==
  /\ outcome' = [outcome EXCEPT ![c] = "abandoned"]
  /\ waiters' = SelectSeq(waiters, LAMBDA w : w # c)
  /\ woken' = woken \ {c}
  /\ ~IsIdle(c)
  /\ UNCHANGED <<nextFrame, items, taken>>

\* The timeout of next() expires, or its task is cancelled.  A get() that was
\* already woken hands its wake-up on.
NextAbandoned(c) ==
  /\ outcome' = [outcome EXCEPT ![c] = "abandoned"]
  /\ \/ /\ \E i \in 1..Len(waiters) : waiters[i] = c /\ waiters' = RemoveAt(waiters, i)
        /\ UNCHANGED woken
     \/ /\ c \in woken
        /\ IF items = <<>>
           THEN waiters' = waiters /\ woken' = woken \ {c}
           ELSE WakeNext(woken \ {c})
  /\ UNCHANGED <<nextFrame, items, taken>>

(***************************************************************************)
(* close().                                                                *)
(***************************************************************************)
\* Mutant: the terminal item is missing.
CloseEndsSilently(k) ==
  /\ closer' = [closer EXCEPT ![k] = "returned"]
  /\ connRef' = FALSE
  /\ SignalTerminal(None)
  /\ lifecycle' = TransitionTo(lifecycle, "CLOSED")
  /\ UNCHANGED <<queueVars, discarded>>

\* The end of close(), from the point where the connection is closed.
CloseEnds(k) ==
  /\ closer' = [closer EXCEPT ![k] = "returned"]
  /\ connRef' = FALSE
  /\ SignalTerminal(None)
  /\ EnqueueTerminal(ClosedItem)
  /\ lifecycle' = TransitionTo(lifecycle, "CLOSED")

\* From the return of the awaited reader to the next suspension or the end.
CloseStream(k) ==
  /\ conn' = CloseStarts(conn)
  /\ IF connRef /\ CloseSuspends(conn)
     THEN /\ closer' = [closer EXCEPT ![k] = "await_conn"]
          /\ lifecycle' = TransitionTo(lifecycle, "CLOSING")
          /\ UNCHANGED <<connRef, signalVars, queueVars, discarded>>
     ELSE CloseEnds(k)

\* Mutant: a stream that somebody has begun to close counts as closed.
CloseNoopWhenClosing(k) ==
  /\ connector = "connected" /\ closer[k] \in {"idle", "cancelled"}
  /\ lifecycle \in {"CLOSING", "CLOSED"}
  /\ closer' = [closer EXCEPT ![k] = "returned"]
  /\ UNCHANGED <<lifecycle, connector, connVars, reader, signalVars, queueVars, outcome, historyVars>>

CloseNoop(k) ==
  /\ connector = "connected" /\ closer[k] \in {"idle", "cancelled"}
  /\ lifecycle = "CLOSED"
  /\ closer' = [closer EXCEPT ![k] = "returned"]
  /\ UNCHANGED <<lifecycle, connector, connVars, reader, signalVars, queueVars, outcome, historyVars>>

CloseCancelsReader(k) ==
  /\ connector = "connected" /\ closer[k] \in {"idle", "cancelled"}
  /\ lifecycle # "CLOSED" /\ reader # "done"
  /\ closer' = [closer EXCEPT ![k] = "await_reader"]
  /\ lifecycle' = TransitionTo(lifecycle, "CLOSING")
  /\ reader' = Cancelled(reader)
  /\ UNCHANGED <<connector, connVars, signalVars, queueVars, outcome, historyVars>>

\* close() on a stream whose reader is gone but which is not CLOSED.
CloseWithoutReader(k) ==
  /\ connector = "connected" /\ closer[k] \in {"idle", "cancelled"}
  /\ lifecycle # "CLOSED" /\ reader = "done"
  /\ CloseStream(k)
  /\ UNCHANGED <<connector, reader, outcome, received, taken, dropped>>

\* Mutant: close() goes on without waiting for the reader to end.
CloseDoesNotAwaitReader(k) ==
  /\ closer[k] = "await_reader"
  /\ CloseStream(k)
  /\ UNCHANGED <<connector, reader, outcome, received, taken, dropped>>

CloseResumes(k) ==
  /\ closer[k] = "await_reader" /\ reader = "done"
  /\ CloseStream(k)
  /\ UNCHANGED <<connector, reader, outcome, received, taken, dropped>>

CloseFinishes(k) ==
  /\ closer[k] = "await_conn" /\ conn.socket = "closed"
  /\ CloseEnds(k)
  /\ UNCHANGED <<connector, conn, reader, outcome, received, taken, dropped>>

\* Cancelling a close() that awaits the reader cancels the reader again, and
\* the CancelledError that comes back is swallowed.  Cancelling one that waits
\* for the socket ends it on the spot.
CloseCancelled(k) ==
  /\ k \in Cancellable
  /\ \/ /\ closer[k] = "await_reader" /\ reader' = Cancelled(reader)
        /\ UNCHANGED closer
     \/ /\ closer[k] = "await_conn"
        /\ closer' = [closer EXCEPT ![k] = "cancelled"]
        /\ UNCHANGED reader
  /\ UNCHANGED <<lifecycle, connector, connVars, signalVars, queueVars, outcome, historyVars>>

\* The event loop calls connection_lost on a socket that is being closed.
SocketReleased ==
  /\ conn.socket = "closing"
  /\ conn' = Released(conn)
  /\ UNCHANGED <<lifecycle, connector, connRef, reader, closer, signalVars, queueVars, outcome, historyVars>>

(***************************************************************************)
(* The specification.                                                      *)
(***************************************************************************)
ConnectStep ==
  \/ Connect \/ ConnectRefused \/ ConnectOpens
  \/ \E f \in BootstrapFailures : BootstrapFails(f)
  \/ BootstrapCleanedUp \/ BootstrapSucceeds \/ ConnectCancelled

ReaderStep ==
  \/ ReaderStarts
  \/ \E f \in ReadFailures \ {"late"} : ReaderReadFails(f)
  \/ ReaderDecodeFails
  \/ ReaderEnqueues \/ ReaderDropsOldest \/ ReaderOverflows
  \/ ReaderUnwinds \/ ReaderFinishes \/ ReaderAborts

ConsumerStep(c) ==
  \/ NextRejected(c) \/ NextTakes(c) \/ NextParks(c)
  \/ NextResumes(c) \/ NextParksAgain(c) \/ NextAbandoned(c)

CloserStep(k) ==
  \/ CloseNoop(k) \/ CloseCancelsReader(k) \/ CloseWithoutReader(k)
  \/ CloseResumes(k) \/ CloseFinishes(k) \/ CloseCancelled(k)

Next ==
  \/ ConnectStep
  \/ ReaderStep
  \/ SocketReleased
  \/ \E c \in Consumers : ConsumerStep(c)
  \/ \E k \in Closers : CloserStep(k)

Spec == Init /\ [][Next]_vars

\* The event loop runs every task that is ready and every callback that is
\* due.  Nothing obliges the compositor to send, a consumer to call next(),
\* a timeout to expire or anyone to call close().
Fairness ==
  /\ WF_vars(ReaderStarts) /\ WF_vars(ReaderUnwinds)
  /\ WF_vars(ReaderFinishes) /\ WF_vars(ReaderAborts)
  /\ WF_vars(SocketReleased)
  /\ \A c \in Consumers : WF_vars(NextResumes(c) \/ NextParksAgain(c))
  /\ \A k \in Closers : WF_vars(CloseResumes(k)) /\ WF_vars(CloseFinishes(k))

FairSpec == Spec /\ Fairness
=============================================================================
