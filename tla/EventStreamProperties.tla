----------------------- MODULE EventStreamProperties -----------------------
(***************************************************************************)
(* What NiriEventStream promises, stated over the model of EventStream.     *)
(***************************************************************************)
EXTENDS EventStream

\* The shape of the state of NiriEventStream (event_stream.py:46-53), with the
\* capacity of its queue: no step leaves more items in it than
\* event_queue_capacity, the forced put of a terminal item included.
TypeOK ==
  /\ lifecycle \in LifecycleStates
  /\ connector \in ConnectorStates
  /\ conn \in Connections
  /\ connRef \in BOOLEAN
  /\ reader \in ReaderStates
  /\ closer \in [Closers -> CloserStates]
  /\ terminalCause \in Errors \cup {None}
  /\ terminalEvent \in BOOLEAN
  /\ items \in Seq(Items) /\ Len(items) <= Capacity
  /\ waiters \in Seq(Consumers)
  /\ woken \in SUBSET Consumers
  /\ outcome \in [Consumers -> {None, "event", "closed", "abandoned"} \cup Errors]
  /\ received \in Nat
  /\ taken \in Seq(Items)
  /\ dropped \in SUBSET Nat
  /\ discarded \in SUBSET Nat

\* No wake-up is lost between the puts of the reader and of close() and the
\* gets, timeouts and cancellations of next() (event_stream.py:106-119,
\* 159-171, 234): as long as a get() is parked, every item in the queue has a
\* woken get() of its own that is still to run.
NoLostWakeup == waiters # <<>> => Len(items) <= Cardinality(woken)

\* A task is in at most one place of the queue's bookkeeping: parked once, or
\* woken, or neither (event_stream.py:234).  NoLostWakeup rests on it.
WaitersDistinct ==
  /\ \A i, j \in 1..Len(waiters) : waiters[i] = waiters[j] => i = j
  /\ \A i \in 1..Len(waiters) : waiters[i] \notin woken

WakeupInv == TypeOK /\ WaitersDistinct /\ NoLostWakeup

\* Whoever of the reader and the closers moves the stream to CLOSED
\* (event_stream.py:187-207, 267-293), nothing runs behind a closed stream: the
\* reader task is over, the connection is let go and the terminal event is set.
ClosedIsQuiescent ==
  connector = "connected" /\ lifecycle = "CLOSED" =>
    reader = "done" /\ ~connRef /\ conn.closed /\ terminalEvent

\* Why that holds: which states of the four parties go together.  Only a reader
\* that is gone lets a closer touch the connection, and only the reader and the
\* closers that outlive it move the stream on (event_stream.py:66-85, 187-207,
\* 267-293).
LifecycleInv ==
  /\ connector = "new" => lifecycle = "INIT"
  /\ connector \in {"opening", "bootstrapping", "failing"} => lifecycle = "CONNECTING"
  /\ connector = "bootstrapping" => connRef /\ conn = Opened
  /\ reader = "none" <=> connector # "connected"
  /\ reader = "none" => \A k \in Closers : closer[k] = "idle"
  /\ reader \in {"scheduled", "reading"} => lifecycle = "READY"
  /\ reader \in {"scheduled", "reading", "unwinding"} => connRef /\ ~conn.closed
  /\ reader \in {"unwinding", "closing", "aborting"} => lifecycle = "CLOSING"
  /\ reader = "closing" => conn.closed
  /\ reader = "done" => lifecycle \in {"CLOSING", "CLOSED"}
  /\ \A k \in Closers : closer[k] # "idle" => lifecycle \in {"CLOSING", "CLOSED"}
  /\ \A k \in Closers : closer[k] = "await_conn" => reader = "done" /\ conn.closed
  /\ terminalCause # None => terminalEvent
  /\ ClosedIsQuiescent

\* Everything get() returned, then everything it is still to return.
Log == taken \o items

\* No consumer obtains an event behind an error or closed item: the reader
\* stops at its first failure and close() ends it before it publishes
\* (event_stream.py:140-179, 278-290).
TerminalLast ==
  \A i, j \in 1..Len(Log) : i < j /\ ~IsEvent(Log[i]) => ~IsEvent(Log[j])

\* Events come out of next() in the order of the wire and none comes twice,
\* whatever was evicted (event_stream.py:158-171, 234-243).
WireOrder ==
  \A i, j \in 1..Len(Log) : i < j /\ IsEvent(Log[i]) /\ IsEvent(Log[j]) => Log[i].seq < Log[j].seq

\* Why the last two hold: nothing but events is published while the reader can
\* still publish one, and none from the future.
LogInv ==
  /\ reader \in {"none", "scheduled", "reading"} => \A i \in 1..Len(Log) : IsEvent(Log[i])
  /\ \A i \in 1..Len(Log) : Log[i].seq <= received
  /\ TerminalLast
  /\ WireOrder

\* A slow consumer sees the newest events: those in the queue are consecutive
\* and end with the last one the reader accepted (event_stream.py:159-171).
KeepsNewest ==
  LET events == {i \in 1..Len(items) : IsEvent(items[i])}
  IN \A i \in events : items[i].seq + Cardinality(events) = received + i

\* FAIL_FAST trades the stream for completeness: as long as nothing terminal
\* happened, what was taken and what is queued is every event of the wire, from
\* the first one on (event_stream.py:159, 169-179).
GaplessWhileOpen ==
  Mode = "FAIL_FAST" /\ ~terminalEvent =>
    Len(Log) = received /\ \A i \in 1..Len(Log) : Log[i] = EventItem(i)

\* A failure of the reader cannot get lost, even when close() competes for the
\* last place of the queue: until the stream is CLOSED, where next() raises
\* _terminal_cause itself, the error item is in the queue or was taken
\* (event_stream.py:106-119, 223-225, 289-293).
FailureStaysObservable ==
  terminalCause # None =>
    \/ lifecycle = "CLOSED"
    \/ \E i \in 1..Len(Log) : Log[i] = ErrorItem(terminalCause)

\* A next() that reports a clean end (which async for swallows) means that the
\* reader did not fail, and one that reports a failure names the failure that
\* ended the stream (event_stream.py:215-230, 242-251, 261-265).
TerminalReportsAgree ==
  \A c \in Consumers :
    /\ outcome[c] = "closed" => terminalCause = None
    /\ outcome[c] \in Errors => outcome[c] = terminalCause

\* Once the terminal event is set no next() stays parked in get() without a
\* wake-up on its way (event_stream.py:121-124, 215-222).
NobodyParkedAfterTerminal == terminalEvent => waiters = <<>>

(***************************************************************************)
(* The stream as a subscription.                                           *)
(***************************************************************************)
SeqsOf(s) == {s[i].seq : i \in {j \in 1..Len(s) : IsEvent(s[j])}}

Subscription == INSTANCE EventSubscription WITH
  Lossy     <- Mode = "DROP_OLDEST",
  published <- received,
  pending   <- SeqsOf(items),
  delivered <- SeqsOf(taken),
  lost      <- dropped \cup discarded,
  over      <- reader \notin {"none", "scheduled", "reading"}

\* NiriEventStream implements the bounded, lossy, ordered subscription: each
\* step of any of its tasks is one step of it or none (event_stream.py:106-293).
ImplementsSubscription == Subscription!Spec

\* The documented loss: the only events that go missing are the ones dropped
\* with a warning (event_stream.py:106-119 against 159-168).
OnlyWarnedDrops == discarded = {}

\* A connect() that raised, and a stream that is CLOSED, have let go of their
\* socket, however the handshake or the reader failed and whoever closed the
\* stream.  The one exception is a read that failed by a timeout, the end of the
\* stream or an overrun: it sets _closed and leaves the writer, and close() then
\* does nothing (event_stream.py:77-81, 187-199, 285-286, connection.py:108-140,
\* 168-176).
OnlyPoisonedSocketsLeak ==
  connector = "failed" \/ (connector = "connected" /\ lifecycle = "CLOSED") =>
    conn.socket # "open" \/ conn.poisoned

\* Every close() returns, unless its task is cancelled, although it waits for a
\* reader that may itself be waiting for the socket (event_stream.py:278-286).
CloseReturns ==
  \A k \in Closers :
    closer[k] \in {"await_reader", "await_conn"} ~> closer[k] \in {"returned", "cancelled"}

\* A next() that is parked when the stream starts to close is settled
\* (event_stream.py:187-207, 289-290).
ParkedNextSettles ==
  \A c \in Consumers : lifecycle \in {"CLOSING", "CLOSED"} /\ ~IsIdle(c) ~> IsIdle(c)

\* A stream whose reader has failed closes by itself, and one that close()
\* has begun to close is CLOSED in the end (event_stream.py:184-207, 292-293).
ClosingEnds == lifecycle = "CLOSING" ~> lifecycle = "CLOSED"
=============================================================================
