------------------------- MODULE EventStreamProofs -------------------------
(***************************************************************************)
(* Theorems about NiriEventStream, for any number of consumers and closers,*)
(* any capacity and either backpressure mode: the shape of its state, the  *)
(* wake-ups of its queue, what CLOSED means, the order in which next()     *)
(* hands things out and, in the second half, what is delivered.            *)
(***************************************************************************)
EXTENDS EventStreamProperties, TLAPS, FiniteSetTheorems, SequenceTheorems

(***************************************************************************)
(* Lemmas on the operators the actions are built from.                     *)
(***************************************************************************)
\* What list.remove leaves of the queue of getters (event_stream.py:234).
LEMMA RemoveAtLemma ==
  ASSUME NEW S, NEW s \in Seq(S), NEW i \in 1..Len(s)
  PROVE  /\ RemoveAt(s, i) \in Seq(S)
         /\ Len(RemoveAt(s, i)) = Len(s) - 1
         /\ \A j \in 1..(Len(s) - 1) :
              RemoveAt(s, i)[j] = IF j < i THEN s[j] ELSE s[j + 1]
<1> DEFINE p == SubSeq(s, 1, i - 1)
           q == SubSeq(s, i + 1, Len(s))
<1>1. p \in Seq(S) /\ Len(p) = i - 1 /\ \A j \in 1..(i - 1) : p[j] = s[j]
  OBVIOUS
<1>2. q \in Seq(S) /\ Len(q) = Len(s) - i /\ \A j \in 1..(Len(s) - i) : q[j] = s[i + j]
  OBVIOUS
<1> HIDE DEF p, q
<1>3. p \o q \in Seq(S) /\ Len(p \o q) = Len(s) - 1
  <2>1. p \in Seq(S) /\ q \in Seq(S)
    BY <1>1, <1>2
  <2>2. p \o q \in Seq(S) /\ Len(p \o q) = Len(p) + Len(q)
    BY <2>1, ConcatProperties, Zenon
  <2> QED
    BY <1>1, <1>2, <2>2
<1>4. ASSUME NEW j \in 1..(Len(s) - 1)
      PROVE  (p \o q)[j] = IF j < i THEN s[j] ELSE s[j + 1]
  <2>1. CASE j < i
    BY <1>1, <1>2, <2>1
  <2>2. CASE ~(j < i)
    <3>1. (p \o q)[j] = q[j - (i - 1)]
      BY <1>1, <1>2, <2>2
    <3> QED
      BY <1>2, <2>2, <3>1
  <2> QED
    BY <2>1, <2>2
<1> QED
  BY <1>3, <1>4 DEF RemoveAt, p, q

\* Connection values stay connection values.
LEMMA ConnectionLemma ==
  ASSUME NEW c \in Connections
  PROVE  /\ CloseStarts(c) \in Connections
         /\ CloseStarts(c).closed
         /\ Released(c) \in Connections
         /\ Released(c).closed = c.closed
         /\ \A f \in WriteFailures \cup ReadFailures : AfterFailure(c, f) \in Connections
BY DEF Connections, CloseStarts, Released, AfterFailure, WriteFailures, ReadFailures

\* transition_to only moves between the five states.
LEMMA TransitionLemma ==
  ASSUME NEW s \in LifecycleStates, NEW t \in LifecycleStates
  PROVE  /\ TransitionTo(s, t) \in LifecycleStates
         /\ TransitionTo(s, "CLOSED") = "CLOSED"
         /\ TransitionTo("INIT", "CONNECTING") = "CONNECTING"
         /\ TransitionTo("CONNECTING", "READY") = "READY"
         /\ s \in {"READY", "CLOSING"} => TransitionTo(s, "CLOSING") = "CLOSING"
BY DEF TransitionTo, Accepts, ValidTransitions, LifecycleStates

\* The item constructors build items.
LEMMA ItemLemma ==
  /\ \A n \in Nat : EventItem(n) \in Items /\ IsEvent(EventItem(n))
  /\ \A e \in Errors : ErrorItem(e) \in Items /\ ~IsEvent(ErrorItem(e))
  /\ ClosedItem \in Items /\ ~IsEvent(ClosedItem)
BY DEF EventItem, ErrorItem, ClosedItem, Items, IsEvent, Errors, None

\* Every read failure is mapped to one of the errors the stream can report.
LEMMA ErrorOfLemma == \A f \in ReadFailures \ {"late"} : ErrorOf(f) \in Errors
BY DEF ErrorOf, ReadFailures, Errors

\* A wake-up moves one task from the parked to the woken (asyncio.Queue).
LEMMA WakeLemma ==
  ASSUME TypeOK, NEW w \in SUBSET Consumers, WakeNext(w)
  PROVE  waiters' \in Seq(Consumers) /\ woken' \in SUBSET Consumers
<1> USE DEF WakeNext, TypeOK
<1>1. CASE waiters = <<>>
  BY <1>1
<1>2. CASE waiters # <<>>
  <2>1. Head(waiters) \in Consumers /\ Tail(waiters) \in Seq(Consumers)
    BY <1>2
  <2> QED
    BY <1>2, <2>1
<1> QED
  BY <1>1, <1>2

\* A put that has room keeps the queue within its capacity.
LEMMA PutLemma ==
  ASSUME TypeOK, NEW q \in Seq(Items), Len(q) < Capacity, NEW x \in Items, Put(q, x)
  PROVE  /\ items' \in Seq(Items) /\ Len(items') <= Capacity
         /\ waiters' \in Seq(Consumers) /\ woken' \in SUBSET Consumers
<1>1. items' \in Seq(Items) /\ Len(items') <= Capacity
  BY CapacityAssumption DEF Put
<1>2. waiters' \in Seq(Consumers) /\ woken' \in SUBSET Consumers
  BY WakeLemma DEF Put, TypeOK
<1> QED
  BY <1>1, <1>2

\* A full queue is not empty, so its oldest item can be evicted
\* (event_stream.py:106-119, 161-168).
LEMMA FullLemma ==
  ASSUME TypeOK, Full
  PROVE  /\ items # <<>> /\ Head(items) \in Items /\ Head(items).seq \in Nat
         /\ Tail(items) \in Seq(Items) /\ Len(Tail(items)) < Capacity
<1>1. items \in Seq(Items) /\ Len(items) >= Capacity /\ Len(items) <= Capacity
  BY DEF TypeOK, Full
<1>2. items # <<>>
  BY <1>1, CapacityAssumption
<1>3. Head(items) \in Items
  BY <1>1, <1>2
<1>4. Tail(items) \in Seq(Items) /\ Len(Tail(items)) = Len(items) - 1
  BY <1>1, <1>2
<1>5. Head(items).seq \in Nat
  BY <1>3 DEF Items
<1> QED
  BY <1>1, <1>2, <1>3, <1>4, <1>5, CapacityAssumption

\* The forced put of a terminal item keeps the queue within its capacity
\* (event_stream.py:106-119).
LEMMA EnqueueTerminalLemma ==
  ASSUME TypeOK, NEW x \in Items, EnqueueTerminal(x)
  PROVE  /\ items' \in Seq(Items) /\ Len(items') <= Capacity
         /\ waiters' \in Seq(Consumers) /\ woken' \in SUBSET Consumers
         /\ discarded' \in SUBSET Nat
<1>1. CASE Full
  BY <1>1, FullLemma, PutLemma DEF EnqueueTerminal, TypeOK
<1>2. CASE ~Full
  <2>1. items \in Seq(Items) /\ Len(items) < Capacity
    BY <1>2, CapacityAssumption DEF TypeOK, Full
  <2> QED
    BY <1>2, <2>1, PutLemma DEF EnqueueTerminal, TypeOK
<1> QED
  BY <1>1, <1>2

\* _signal_terminal records one of the errors the stream can report.
LEMMA SignalLemma ==
  ASSUME TypeOK, NEW e \in Errors \cup {None}, SignalTerminal(e)
  PROVE  terminalCause' \in Errors \cup {None} /\ terminalEvent'
BY DEF TypeOK, SignalTerminal

\* get() hands over the oldest item (event_stream.py:234-251).
LEMMA TakeLemma ==
  ASSUME TypeOK, NEW c \in Consumers, Take(c)
  PROVE  /\ items' \in Seq(Items) /\ Len(items') <= Capacity
         /\ taken' \in Seq(Items)
         /\ outcome' \in [Consumers -> {None, "event", "closed", "abandoned"} \cup Errors]
<1>1. items \in Seq(Items) /\ items # <<>>
  BY DEF TypeOK, Take, nextFrame
<1>2. Head(items) \in Items /\ Tail(items) \in Seq(Items) /\ Len(Tail(items)) = Len(items) - 1
  BY <1>1
<1>3. OutcomeOf(Head(items)) \in {None, "event", "closed", "abandoned"} \cup Errors
  BY <1>2 DEF OutcomeOf, Items
<1>4. taken' \in Seq(Items)
  BY <1>2 DEF TypeOK, Take, nextFrame
<1>5. outcome' \in [Consumers -> {None, "event", "closed", "abandoned"} \cup Errors]
  BY <1>3 DEF TypeOK, Take, nextFrame
<1>6. items' \in Seq(Items) /\ Len(items') <= Capacity
  BY <1>1, <1>2, CapacityAssumption DEF TypeOK, Take, nextFrame
<1> QED
  BY <1>4, <1>5, <1>6

(***************************************************************************)
(* Type correctness.                                                       *)
(***************************************************************************)
\* The initial state of NiriEventStream has the right shape.
LEMMA InitType == Init => TypeOK
<1> SUFFICES ASSUME Init PROVE TypeOK
  OBVIOUS
<1>1. /\ lifecycle \in LifecycleStates /\ connector \in ConnectorStates
      /\ conn \in Connections /\ reader \in ReaderStates
  BY DEF Init, LifecycleStates, ConnectorStates, Connections, Unopened, ReaderStates
<1>2. closer \in [Closers -> CloserStates]
  BY DEF Init, CloserStates
<1>3. items \in Seq(Items) /\ Len(items) <= Capacity
  BY CapacityAssumption DEF Init
<1>4. waiters \in Seq(Consumers) /\ taken \in Seq(Items)
  BY DEF Init
<1>5. outcome \in [Consumers -> {None, "event", "closed", "abandoned"} \cup Errors]
  BY DEF Init
<1> QED
  BY <1>1, <1>2, <1>3, <1>4, <1>5 DEF Init, TypeOK

\* The steps of connect() preserve the shape (event_stream.py:56-104).
LEMMA ConnectType == TypeOK /\ ConnectStep => TypeOK'
<1> SUFFICES ASSUME TypeOK, ConnectStep PROVE TypeOK'
  OBVIOUS
<1> USE DEF streamVars, connVars, signalVars, queueVars, historyVars
<1>1. "CLOSED" \in LifecycleStates /\ "CONNECTING" \in LifecycleStates /\ "READY" \in LifecycleStates
  BY DEF LifecycleStates
<1>2. Opened \in Connections
  BY DEF Opened, Connections
<1>3. CASE Connect
  BY <1>1, <1>3, TransitionLemma DEF TypeOK, Connect, ConnectorStates
<1>4. CASE ConnectRefused
  BY <1>4 DEF TypeOK, ConnectRefused, ConnectorStates
<1>5. CASE ConnectOpens
  BY <1>2, <1>5 DEF TypeOK, ConnectOpens, ConnectorStates
<1>6. ASSUME NEW f \in BootstrapFailures, BootstrapFails(f) PROVE TypeOK'
  <2>1. conn' \in Connections
    BY <1>6, ConnectionLemma DEF TypeOK, BootstrapFails, BootstrapFailures, AfterBootstrapFailure, ConnectFails
  <2>2. lifecycle' \in LifecycleStates
    BY <1>1, <1>6, TransitionLemma DEF TypeOK, BootstrapFails, ConnectFails
  <2> QED
    BY <1>6, <2>1, <2>2 DEF TypeOK, BootstrapFails, ConnectorStates, ConnectFails
<1>7. CASE BootstrapCleanedUp
  BY <1>1, <1>7, TransitionLemma DEF TypeOK, BootstrapCleanedUp, ConnectorStates, ConnectFails
<1>8. CASE BootstrapSucceeds
  BY <1>1, <1>8, TransitionLemma DEF TypeOK, BootstrapSucceeds, ConnectorStates, ReaderStates
<1>9. CASE ConnectCancelled
  BY <1>9 DEF TypeOK, ConnectCancelled, ConnectorStates
<1> QED
  BY <1>3, <1>4, <1>5, <1>6, <1>7, <1>8, <1>9 DEF ConnectStep

\* A reader that ends with an error preserves the shape
\* (event_stream.py:140-143, 147-156, 172-187).
LEMMA ReaderFailsType ==
  ASSUME TypeOK, NEW e \in Errors, NEW c \in Connections, ReaderFails(e, c)
  PROVE  TypeOK'
<1> USE DEF connVars, signalVars, queueVars, historyVars
<1>1. "CLOSED" \in LifecycleStates /\ "CLOSING" \in LifecycleStates
  BY DEF LifecycleStates
<1>2. lifecycle' \in LifecycleStates /\ conn' \in Connections
  BY <1>1, TransitionLemma, ConnectionLemma DEF TypeOK, ReaderFails, ReaderTearsDown
<1>3. terminalCause' \in Errors \cup {None} /\ terminalEvent'
  BY SignalLemma DEF ReaderFails
<1>4. /\ items' \in Seq(Items) /\ Len(items') <= Capacity
      /\ waiters' \in Seq(Consumers) /\ woken' \in SUBSET Consumers
      /\ discarded' \in SUBSET Nat
  BY ItemLemma, EnqueueTerminalLemma DEF ReaderFails
<1> QED
  BY <1>2, <1>3, <1>4 DEF TypeOK, ReaderFails, ReaderTearsDown, ReaderStates

\* The steps of the reader task preserve the shape (event_stream.py:126-207).
LEMMA ReaderType == TypeOK /\ ReaderStep => TypeOK'
<1> SUFFICES ASSUME TypeOK, ReaderStep PROVE TypeOK'
  OBVIOUS
<1> USE DEF connVars, signalVars, queueVars, historyVars
<1>1. "CLOSED" \in LifecycleStates /\ "CLOSING" \in LifecycleStates
  BY DEF LifecycleStates
<1>2. "ProtocolError" \in Errors /\ "DecodeError" \in Errors /\ conn \in Connections
  BY DEF Errors, TypeOK
<1>3. CASE ReaderStarts
  BY <1>3 DEF TypeOK, ReaderStarts, ReaderStates
<1>4. ASSUME NEW f \in ReadFailures \ {"late"}, ReaderReadFails(f) PROVE TypeOK'
  <2>1. AfterFailure(conn, f) \in Connections
    BY <1>2, ConnectionLemma
  <2> QED
    BY <1>4, <2>1, ErrorOfLemma, ReaderFailsType DEF ReaderReadFails
<1>5. CASE ReaderDecodeFails
  BY <1>2, <1>5, ReaderFailsType DEF ReaderDecodeFails
<1>6. CASE ReaderEnqueues
  <2>1. items \in Seq(Items) /\ Len(items) < Capacity /\ EventItem(received + 1) \in Items
    BY <1>6, ItemLemma, CapacityAssumption DEF TypeOK, ReaderEnqueues, Full, Publishes
  <2>2. /\ items' \in Seq(Items) /\ Len(items') <= Capacity
        /\ waiters' \in Seq(Consumers) /\ woken' \in SUBSET Consumers
    BY <1>6, <2>1, PutLemma DEF ReaderEnqueues, Publishes
  <2> QED
    BY <1>6, <2>2 DEF TypeOK, ReaderEnqueues, Publishes
<1>7. CASE ReaderDropsOldest
  <2>1. /\ Tail(items) \in Seq(Items) /\ Len(Tail(items)) < Capacity
        /\ EventItem(received + 1) \in Items /\ Head(items).seq \in Nat
    BY <1>7, FullLemma, ItemLemma DEF TypeOK, ReaderDropsOldest, Publishes
  <2>2. /\ items' \in Seq(Items) /\ Len(items') <= Capacity
        /\ waiters' \in Seq(Consumers) /\ woken' \in SUBSET Consumers
    BY <1>7, <2>1, PutLemma DEF ReaderDropsOldest, Publishes
  <2>3. received' \in Nat
    BY <1>7 DEF TypeOK, ReaderDropsOldest, Publishes
  <2>4. dropped' \in SUBSET Nat
    <3>1. dropped' = dropped \cup {Head(items).seq} /\ dropped \in SUBSET Nat
      BY <1>7 DEF TypeOK, ReaderDropsOldest, Publishes
    <3> QED
      BY <2>1, <3>1, Zenon
  <2> QED
    BY <1>7, <2>2, <2>3, <2>4 DEF TypeOK, ReaderDropsOldest, Publishes
<1>8. CASE ReaderOverflows
  BY <1>2, <1>8, ReaderFailsType DEF ReaderOverflows
<1>9. CASE ReaderUnwinds
  <2>1. lifecycle' \in LifecycleStates /\ conn' \in Connections
    BY <1>1, <1>9, TransitionLemma, ConnectionLemma DEF TypeOK, ReaderUnwinds, ReaderTearsDown
  <2> QED
    BY <1>9, <2>1 DEF TypeOK, ReaderUnwinds, ReaderTearsDown, ReaderStates
<1>10. CASE ReaderFinishes
  <2>1. lifecycle' \in LifecycleStates
    BY <1>1, <1>10, TransitionLemma DEF TypeOK, ReaderFinishes
  <2>2. terminalCause' \in Errors \cup {None} /\ terminalEvent' \in BOOLEAN
    BY <1>10, SignalLemma DEF TypeOK, ReaderFinishes
  <2>3. /\ items' \in Seq(Items) /\ Len(items') <= Capacity
        /\ waiters' \in Seq(Consumers) /\ woken' \in SUBSET Consumers
        /\ discarded' \in SUBSET Nat
    BY <1>10, ItemLemma, EnqueueTerminalLemma DEF TypeOK, ReaderFinishes
  <2> QED
    BY <1>10, <2>1, <2>2, <2>3 DEF TypeOK, ReaderFinishes, ReaderStates
<1>11. CASE ReaderAborts
  BY <1>11 DEF TypeOK, ReaderAborts, ReaderStates
<1> QED
  BY <1>3, <1>4, <1>5, <1>6, <1>7, <1>8, <1>9, <1>10, <1>11 DEF ReaderStep

\* The steps of next() preserve the shape (event_stream.py:209-256).
LEMMA ConsumerType == TypeOK /\ (\E c \in Consumers : ConsumerStep(c)) => TypeOK'
<1> SUFFICES ASSUME TypeOK, NEW c \in Consumers, ConsumerStep(c) PROVE TypeOK'
  OBVIOUS
<1> USE DEF connVars, signalVars, queueVars, historyVars
<1>1. CASE NextRejected(c)
  <2>1. outcome' \in [Consumers -> {None, "event", "closed", "abandoned"} \cup Errors]
    BY <1>1 DEF TypeOK, NextRejected, RejectedWith, nextFrame
  <2> QED
    BY <1>1, <2>1 DEF TypeOK, NextRejected, RejectedWith, nextFrame
<1>2. ASSUME Take(c), woken' \in SUBSET Consumers PROVE TypeOK'
  BY <1>2, TakeLemma DEF TypeOK, Take, nextFrame
<1>3. CASE NextTakes(c)
  BY <1>2, <1>3 DEF TypeOK, NextTakes, nextFrame
<1>4. CASE NextResumes(c)
  BY <1>2, <1>4 DEF TypeOK, NextResumes, nextFrame
<1>5. ASSUME Park(c), woken' \in SUBSET Consumers PROVE TypeOK'
  <2>1. waiters' \in Seq(Consumers)
    BY <1>5 DEF TypeOK, Park, nextFrame
  <2> QED
    BY <1>5, <2>1 DEF TypeOK, Park, nextFrame
<1>6. CASE NextParks(c)
  BY <1>5, <1>6 DEF TypeOK, NextParks, nextFrame
<1>7. CASE NextParksAgain(c)
  BY <1>5, <1>7 DEF TypeOK, NextParksAgain, nextFrame
<1>8. CASE NextAbandoned(c)
  <2>1. outcome' \in [Consumers -> {None, "event", "closed", "abandoned"} \cup Errors]
    BY <1>8 DEF TypeOK, NextAbandoned, nextFrame
  <2>2. waiters' \in Seq(Consumers) /\ woken' \in SUBSET Consumers
    <3>1. ASSUME NEW i \in 1..Len(waiters), waiters' = RemoveAt(waiters, i)
          PROVE  waiters' \in Seq(Consumers)
      BY <3>1, RemoveAtLemma DEF TypeOK
    <3>2. woken \ {c} \in SUBSET Consumers
      BY DEF TypeOK
    <3>3. WakeNext(woken \ {c}) => waiters' \in Seq(Consumers) /\ woken' \in SUBSET Consumers
      BY <3>2, WakeLemma
    <3> QED
      BY <1>8, <3>1, <3>2, <3>3 DEF NextAbandoned, TypeOK, nextFrame
  <2> QED
    BY <1>8, <2>1, <2>2 DEF TypeOK, NextAbandoned, nextFrame
<1> QED
  BY <1>1, <1>3, <1>4, <1>6, <1>7, <1>8 DEF ConsumerStep

\* The steps of close() preserve the shape (event_stream.py:267-293).
LEMMA CloserType == TypeOK /\ (\E k \in Closers : CloserStep(k)) => TypeOK'
<1> SUFFICES ASSUME TypeOK, NEW k \in Closers, CloserStep(k) PROVE TypeOK'
  OBVIOUS
<1> USE DEF connVars, signalVars, queueVars, historyVars
<1>1. "CLOSED" \in LifecycleStates /\ "CLOSING" \in LifecycleStates
  BY DEF LifecycleStates
<1>2. ASSUME NEW s \in CloserStates PROVE [closer EXCEPT ![k] = s] \in [Closers -> CloserStates]
  BY DEF TypeOK
<1>3. "await_reader" \in CloserStates /\ "await_conn" \in CloserStates
      /\ "returned" \in CloserStates /\ "cancelled" \in CloserStates
  BY DEF CloserStates
<1>4. Cancelled(reader) \in ReaderStates
  BY DEF TypeOK, Cancelled, ReaderStates
<1>5. EnqueueTerminal(ClosedItem) =>
        /\ items' \in Seq(Items) /\ Len(items') <= Capacity
        /\ waiters' \in Seq(Consumers) /\ woken' \in SUBSET Consumers
        /\ discarded' \in SUBSET Nat
  BY ItemLemma, EnqueueTerminalLemma
<1>6. SignalTerminal(None) => terminalCause' \in Errors \cup {None} /\ terminalEvent' \in BOOLEAN
  BY SignalLemma
<1>7. TransitionTo(lifecycle, "CLOSED") \in LifecycleStates
      /\ TransitionTo(lifecycle, "CLOSING") \in LifecycleStates
  BY <1>1, TransitionLemma DEF TypeOK
<1>8. ASSUME CloseStream(k), UNCHANGED <<connector, reader, outcome, received, taken, dropped>>
      PROVE  TypeOK'
  <2>1. conn' \in Connections
    BY <1>8, ConnectionLemma DEF TypeOK, CloseStream, CloseEnds
  <2>2. CASE connRef /\ CloseSuspends(conn)
    BY <1>2, <1>3, <1>7, <1>8, <2>1, <2>2 DEF TypeOK, CloseStream, CloseEnds
  <2>3. CASE ~(connRef /\ CloseSuspends(conn))
    BY <1>2, <1>3, <1>5, <1>6, <1>7, <1>8, <2>1, <2>3 DEF TypeOK, CloseStream, CloseEnds
  <2> QED
    BY <2>2, <2>3
<1>9. CASE CloseNoop(k)
  BY <1>2, <1>3, <1>9 DEF TypeOK, CloseNoop
<1>10. CASE CloseCancelsReader(k)
  BY <1>2, <1>3, <1>4, <1>7, <1>10 DEF TypeOK, CloseCancelsReader
<1>11. CASE CloseWithoutReader(k)
  BY <1>8, <1>11 DEF CloseWithoutReader
<1>12. CASE CloseResumes(k)
  BY <1>8, <1>12 DEF CloseResumes
<1>13. CASE CloseFinishes(k)
  BY <1>2, <1>3, <1>5, <1>6, <1>7, <1>13 DEF TypeOK, CloseFinishes, CloseEnds
<1>14. CASE CloseCancelled(k)
  BY <1>2, <1>3, <1>4, <1>14 DEF TypeOK, CloseCancelled
<1> QED
  BY <1>9, <1>10, <1>11, <1>12, <1>13, <1>14 DEF CloserStep

\* Every step preserves the shape.
LEMMA StepType == TypeOK /\ [Next]_vars => TypeOK'
<1> SUFFICES ASSUME TypeOK, [Next]_vars PROVE TypeOK'
  OBVIOUS
<1>1. CASE SocketReleased
  <2>1. conn' \in Connections
    BY <1>1, ConnectionLemma DEF TypeOK, SocketReleased
  <2> QED
    BY <1>1, <2>1 DEF TypeOK, SocketReleased, connVars, signalVars, queueVars, historyVars
<1>2. CASE UNCHANGED vars
  BY <1>2 DEF TypeOK, vars, connVars, signalVars, queueVars, historyVars
<1> QED
  BY <1>1, <1>2, ConnectType, ReaderType, ConsumerType, CloserType DEF Next

\* The state of NiriEventStream always has the right shape, and the queue never
\* holds more than event_queue_capacity items, forced terminal items included.
THEOREM TypeCorrect == Spec => []TypeOK
BY InitType, StepType, PTL DEF Spec

(***************************************************************************)
(* No wake-up is lost.                                                     *)
(***************************************************************************)
\* The sets of tasks are finite, so they can be counted.
LEMMA WokenFinite ==
  ASSUME NEW w \in SUBSET Consumers
  PROVE  IsFiniteSet(w) /\ Cardinality(w) \in Nat
BY ConsumersAssumption, FS_Subset, FS_CardinalityType

\* _wakeup_next keeps the bookkeeping straight and adds one woken task if there
\* was one to wake.
LEMMA WakeKeeps ==
  ASSUME TypeOK, WaitersDistinct, NEW w \in SUBSET woken, WakeNext(w)
  PROVE  /\ WaitersDistinct'
         /\ waiters # <<>> => Cardinality(woken') = Cardinality(w) + 1
         /\ waiters = <<>> => waiters' = <<>>
<1>1. w \in SUBSET Consumers /\ waiters \in Seq(Consumers)
  BY DEF TypeOK
<1>2. CASE waiters = <<>>
  BY <1>2 DEF WaitersDistinct, WakeNext
<1>3. CASE waiters # <<>>
  <2> DEFINE h == Head(waiters)
  <2>1. /\ waiters' = Tail(waiters) /\ woken' = w \cup {h}
        /\ Len(Tail(waiters)) = Len(waiters) - 1 /\ h = waiters[1]
        /\ \A i \in 1..(Len(waiters) - 1) : Tail(waiters)[i] = waiters[i + 1]
    BY <1>1, <1>3 DEF WakeNext
  <2>2. h \notin w
    BY <1>1, <1>3, <2>1 DEF WaitersDistinct
  <2>3. Cardinality(w \cup {h}) = Cardinality(w) + 1
    BY <1>1, <2>2, WokenFinite, FS_AddElement
  <2>4. ASSUME NEW i \in 1..Len(waiters'), NEW j \in 1..Len(waiters'), waiters'[i] = waiters'[j]
        PROVE  i = j
    BY <1>1, <2>1, <2>4 DEF WaitersDistinct
  <2>5. ASSUME NEW i \in 1..Len(waiters') PROVE waiters'[i] \notin woken'
    <3>1. waiters'[i] = waiters[i + 1] /\ i + 1 \in 1..Len(waiters)
      BY <1>1, <2>1
    <3>2. waiters[i + 1] # h /\ waiters[i + 1] \notin woken
      BY <1>1, <1>3, <2>1, <3>1 DEF WaitersDistinct
    <3> QED
      BY <2>1, <3>1, <3>2
  <2> QED
    BY <1>3, <2>1, <2>3, <2>4, <2>5 DEF WaitersDistinct
<1> QED
  BY <1>2, <1>3

\* A put wakes a task for the item it adds, and an eviction before it only
\* makes the queue shorter (event_stream.py:106-119, 159-171).
LEMMA PutKeeps ==
  ASSUME WakeupInv, NEW x, NEW q \in Seq(Items), Len(q) <= Len(items), Put(q, x)
  PROVE  WaitersDistinct' /\ NoLostWakeup'
<1>1. WakeNext(woken) /\ items' = Append(q, x) /\ TypeOK /\ WaitersDistinct
  BY DEF Put, WakeupInv
<1>2. /\ WaitersDistinct'
      /\ waiters # <<>> => Cardinality(woken') = Cardinality(woken) + 1
      /\ waiters = <<>> => waiters' = <<>>
  BY <1>1, WakeKeeps
<1>3. Len(items') = Len(q) + 1 /\ Len(items) \in Nat /\ Cardinality(woken) \in Nat
  BY <1>1, WokenFinite DEF TypeOK
<1>4. waiters # <<>> => Len(items) <= Cardinality(woken)
  BY DEF WakeupInv, NoLostWakeup
<1> QED
  BY <1>2, <1>3, <1>4 DEF NoLostWakeup

\* The same for the forced put of a terminal item (event_stream.py:106-119).
LEMMA EnqueueTerminalKeeps ==
  ASSUME WakeupInv, NEW x, EnqueueTerminal(x)
  PROVE  WaitersDistinct' /\ NoLostWakeup'
<1>1. TypeOK /\ items \in Seq(Items)
  BY DEF WakeupInv, TypeOK
<1>2. CASE Full
  <2>1. Tail(items) \in Seq(Items) /\ Len(Tail(items)) <= Len(items)
    BY <1>1, <1>2, FullLemma
  <2> QED
    BY <1>2, <2>1, PutKeeps DEF EnqueueTerminal
<1>3. CASE ~Full
  BY <1>1, <1>3, PutKeeps DEF EnqueueTerminal
<1> QED
  BY <1>2, <1>3

\* The steps of the reader and of the closers either leave the queue alone or
\* put one item (event_stream.py:126-207, 267-293).
LEMMA ProducerKeeps ==
  ASSUME WakeupInv, ReaderStep \/ \E k \in Closers : CloserStep(k)
  PROVE  WaitersDistinct' /\ NoLostWakeup'
<1> USE DEF connVars, signalVars, queueVars, historyVars
<1>1. UNCHANGED queueVars => WaitersDistinct' /\ NoLostWakeup'
  BY DEF WakeupInv, WaitersDistinct, NoLostWakeup
<1>2. \A x : EnqueueTerminal(x) => WaitersDistinct' /\ NoLostWakeup'
  BY EnqueueTerminalKeeps
<1>3. TypeOK /\ items \in Seq(Items)
  BY DEF WakeupInv, TypeOK
<1>4. CASE ReaderStep
  <2>1. ASSUME NEW e, NEW c, ReaderFails(e, c) PROVE WaitersDistinct' /\ NoLostWakeup'
    BY <1>2, <2>1 DEF ReaderFails
  <2>2. CASE ReaderEnqueues
    BY <1>3, <2>2, PutKeeps DEF ReaderEnqueues, Publishes
  <2>3. CASE ReaderDropsOldest
    <3>1. Tail(items) \in Seq(Items) /\ Len(Tail(items)) <= Len(items)
      BY <1>3, <2>3, FullLemma DEF ReaderDropsOldest, Publishes
    <3> QED
      BY <2>3, <3>1, PutKeeps DEF ReaderDropsOldest, Publishes
  <2>4. CASE ReaderFinishes
    BY <1>1, <1>2, <2>4 DEF ReaderFinishes
  <2>5. CASE ReaderStarts \/ ReaderUnwinds \/ ReaderAborts
    BY <1>1, <2>5 DEF ReaderStarts, ReaderUnwinds, ReaderAborts
  <2> QED
    BY <1>4, <2>1, <2>2, <2>3, <2>4, <2>5
       DEF ReaderStep, ReaderReadFails, ReaderDecodeFails, ReaderOverflows
<1>5. ASSUME NEW k \in Closers, CloserStep(k) PROVE WaitersDistinct' /\ NoLostWakeup'
  <2>1. CloseStream(k) => WaitersDistinct' /\ NoLostWakeup'
    BY <1>1, <1>2 DEF CloseStream, CloseEnds
  <2> QED
    BY <1>1, <1>2, <1>5, <2>1
       DEF CloserStep, CloseNoop, CloseCancelsReader, CloseWithoutReader, CloseResumes,
           CloseFinishes, CloseCancelled, CloseEnds
<1> QED
  BY <1>4, <1>5

\* A get() that takes an item gives up at most one wake-up for it, and one that
\* parks does so on an empty queue; an abandoned get() hands its wake-up on
\* (event_stream.py:234-240).
LEMMA ConsumerKeeps ==
  ASSUME WakeupInv, NEW c \in Consumers, ConsumerStep(c)
  PROVE  WaitersDistinct' /\ NoLostWakeup'
<1> USE DEF connVars, signalVars, queueVars, historyVars
<1>1. TypeOK /\ WaitersDistinct /\ NoLostWakeup /\ items \in Seq(Items)
      /\ waiters \in Seq(Consumers) /\ woken \in SUBSET Consumers
  BY DEF WakeupInv, TypeOK
<1>2. Len(items) \in Nat /\ IsFiniteSet(woken) /\ Cardinality(woken) \in Nat
  BY <1>1, WokenFinite
<1>3. c \in woken => Cardinality(woken \ {c}) = Cardinality(woken) - 1
  BY <1>2, FS_RemoveElement
<1>4. CASE NextRejected(c)
  BY <1>1, <1>4 DEF NextRejected, WaitersDistinct, NoLostWakeup, RejectedWith, nextFrame
<1>5. ASSUME Take(c) PROVE Len(items') = Len(items) - 1 /\ UNCHANGED waiters
  BY <1>1, <1>5 DEF Take, nextFrame
<1>6. CASE NextTakes(c)
  BY <1>1, <1>2, <1>5, <1>6 DEF NextTakes, WaitersDistinct, NoLostWakeup, nextFrame
<1>7. CASE NextResumes(c)
  BY <1>1, <1>2, <1>3, <1>5, <1>7 DEF NextResumes, WaitersDistinct, NoLostWakeup, nextFrame
<1>8. ASSUME Park(c), woken' \in SUBSET woken, c \notin woken', c \notin ToSet(waiters)
      PROVE  WaitersDistinct' /\ NoLostWakeup'
  <2>1. /\ Len(waiters') = Len(waiters) + 1 /\ waiters'[Len(waiters) + 1] = c
        /\ \A i \in 1..Len(waiters) : waiters'[i] = waiters[i] /\ waiters[i] # c
    BY <1>1, <1>8 DEF Park, ToSet, nextFrame
  <2>2. NoLostWakeup'
    <3>1. Len(items') = 0
      BY <1>8 DEF Park, nextFrame
    <3>2. Cardinality(woken') \in Nat
      BY <1>1, <1>8, WokenFinite
    <3> QED
      BY <3>1, <3>2 DEF NoLostWakeup
  <2>3. WaitersDistinct'
    BY <1>1, <1>8, <2>1 DEF WaitersDistinct
  <2> QED
    BY <2>2, <2>3
<1>9. CASE NextParks(c)
  BY <1>8, <1>9 DEF NextParks, IsIdle, nextFrame
<1>10. CASE NextParksAgain(c)
  <2>1. c \notin ToSet(waiters)
    BY <1>1, <1>10 DEF NextParksAgain, WaitersDistinct, ToSet, nextFrame
  <2> QED
    BY <1>8, <1>10, <2>1 DEF NextParksAgain, nextFrame
<1>11. CASE NextAbandoned(c)
  <2>1. ASSUME NEW i \in 1..Len(waiters), waiters' = RemoveAt(waiters, i), UNCHANGED <<woken, items>>
        PROVE  WaitersDistinct' /\ NoLostWakeup'
    <3>1. /\ Len(waiters') = Len(waiters) - 1
          /\ \A j \in 1..(Len(waiters) - 1) :
               waiters'[j] = IF j < i THEN waiters[j] ELSE waiters[j + 1]
      BY <1>1, <2>1, RemoveAtLemma
    <3>2. WaitersDistinct'
      <4> DEFINE old(j) == IF j < i THEN j ELSE j + 1
      <4>1. \A j \in 1..Len(waiters') : old(j) \in 1..Len(waiters) /\ waiters'[j] = waiters[old(j)]
        BY <1>1, <3>1
      <4>2. \A j, l \in 1..Len(waiters') : old(j) = old(l) => j = l
        BY <1>1, <3>1
      <4> HIDE DEF old
      <4>3. ASSUME NEW j \in 1..Len(waiters'), NEW l \in 1..Len(waiters'), waiters'[j] = waiters'[l]
            PROVE  j = l
        <5>1. old(j) = old(l)
          BY <1>1, <4>1, <4>3 DEF WaitersDistinct
        <5> QED
          BY <4>2, <5>1
      <4>4. ASSUME NEW j \in 1..Len(waiters') PROVE waiters'[j] \notin woken'
        BY <1>1, <2>1, <4>1 DEF WaitersDistinct
      <4> QED
        BY <4>3, <4>4 DEF WaitersDistinct
    <3>3. NoLostWakeup'
      BY <1>1, <2>1, <3>1 DEF NoLostWakeup
    <3> QED
      BY <3>2, <3>3
  <2>2. ASSUME c \in woken, items = <<>>, waiters' = waiters, woken' = woken \ {c}, items' = items
        PROVE  WaitersDistinct' /\ NoLostWakeup'
    <3>1. Len(items') = 0 /\ Cardinality(woken') \in Nat
      BY <1>1, <2>2, WokenFinite
    <3>2. WaitersDistinct'
      BY <1>1, <2>2 DEF WaitersDistinct
    <3> QED
      BY <3>1, <3>2 DEF NoLostWakeup
  <2>3. ASSUME c \in woken, WakeNext(woken \ {c}), items' = items
        PROVE  WaitersDistinct' /\ NoLostWakeup'
    <3>1. /\ WaitersDistinct'
          /\ waiters # <<>> => Cardinality(woken') = Cardinality(woken \ {c}) + 1
          /\ waiters = <<>> => waiters' = <<>>
      BY <1>1, <2>3, WakeKeeps
    <3> QED
      BY <1>1, <1>2, <1>3, <2>3, <3>1 DEF NoLostWakeup
  <2> QED
    BY <1>11, <2>1, <2>2, <2>3 DEF NextAbandoned, nextFrame
<1> QED
  BY <1>4, <1>6, <1>7, <1>9, <1>10, <1>11 DEF ConsumerStep

\* In the initial state nobody is parked.
LEMMA InitWakeup == Init => WakeupInv
<1> SUFFICES ASSUME Init PROVE WakeupInv
  OBVIOUS
<1>1. TypeOK
  BY InitType
<1>2. WaitersDistinct /\ NoLostWakeup
  BY DEF Init, WaitersDistinct, NoLostWakeup
<1> QED
  BY <1>1, <1>2 DEF WakeupInv

\* Every step of the stream keeps the wake-ups.
LEMMA StepWakeup == WakeupInv /\ [Next]_vars => WakeupInv'
<1> SUFFICES ASSUME WakeupInv, [Next]_vars PROVE WakeupInv'
  OBVIOUS
<1>1. TypeOK'
  BY StepType DEF WakeupInv
<1>2. ASSUME UNCHANGED queueVars PROVE WaitersDistinct' /\ NoLostWakeup'
  BY <1>2 DEF WakeupInv, WaitersDistinct, NoLostWakeup, queueVars
<1>3. ASSUME ConnectStep PROVE WaitersDistinct' /\ NoLostWakeup'
  BY <1>2, <1>3
     DEF ConnectStep, Connect, ConnectRefused, ConnectOpens, BootstrapFails, BootstrapCleanedUp,
         BootstrapSucceeds, ConnectCancelled, streamVars, queueVars, ConnectFails
<1>4. ASSUME SocketReleased \/ UNCHANGED vars PROVE WaitersDistinct' /\ NoLostWakeup'
  BY <1>2, <1>4 DEF SocketReleased, vars, queueVars
<1> QED
  BY <1>1, <1>3, <1>4, ProducerKeeps, ConsumerKeeps DEF Next, WakeupInv

\* For any number of concurrent next() calls, with timeouts, cancellations,
\* overflows and terminal items in between, no get() stays parked while the
\* queue holds an item nobody has been woken for.
THEOREM WakeupsKept == Spec => []NoLostWakeup
<1>1. Spec => []WakeupInv
  BY InitWakeup, StepWakeup, PTL DEF Spec
<1>2. WakeupInv => NoLostWakeup
  BY DEF WakeupInv
<1> QED
  BY <1>1, <1>2, PTL

(***************************************************************************)
(* The lifecycle.                                                          *)
(***************************************************************************)
\* Transitions, as the actions use them.
LEMMA Transitions ==
  /\ TransitionTo("INIT", "CONNECTING") = "CONNECTING"
  /\ TransitionTo("CONNECTING", "READY") = "READY"
  /\ TransitionTo("READY", "CLOSING") = "CLOSING"
  /\ TransitionTo("CLOSING", "CLOSING") = "CLOSING"
  /\ \A s \in LifecycleStates : TransitionTo(s, "CLOSED") = "CLOSED"
BY DEF TransitionTo, Accepts, ValidTransitions, LifecycleStates

\* The initial state satisfies the lifecycle invariant.
LEMMA InitLifecycle == Init => LifecycleInv
BY DEF Init, LifecycleInv, ClosedIsQuiescent

\* connect() hands out a stream that is READY, or none (event_stream.py:56-104).
LEMMA ConnectLifecycle == TypeOK /\ LifecycleInv /\ ConnectStep => LifecycleInv'
<1> SUFFICES ASSUME TypeOK, LifecycleInv, ConnectStep PROVE LifecycleInv'
  OBVIOUS
<1> USE DEF LifecycleInv, ClosedIsQuiescent, connVars, signalVars, queueVars, historyVars, streamVars
<1>1. CASE Connect
  BY <1>1, Transitions DEF Connect
<1>2. CASE ConnectRefused \/ ConnectOpens \/ ConnectCancelled
  BY <1>2 DEF ConnectRefused, ConnectOpens, ConnectCancelled
<1>3. ASSUME NEW f \in BootstrapFailures, BootstrapFails(f) PROVE LifecycleInv'
  BY <1>3, Transitions DEF BootstrapFails, ConnectFails
<1>4. CASE BootstrapCleanedUp
  BY <1>4, Transitions DEF BootstrapCleanedUp, ConnectFails
<1>5. CASE BootstrapSucceeds
  BY <1>5, Transitions DEF BootstrapSucceeds, Opened
<1> QED
  BY <1>1, <1>2, <1>3, <1>4, <1>5 DEF ConnectStep

\* The reader leaves READY when it stops, and leaves a quiescent stream when it
\* is the one that closes it (event_stream.py:126-207).
LEMMA ReaderLifecycle == TypeOK /\ LifecycleInv /\ ReaderStep => LifecycleInv'
<1> SUFFICES ASSUME TypeOK, LifecycleInv, ReaderStep PROVE LifecycleInv'
  OBVIOUS
<1> USE DEF LifecycleInv, ClosedIsQuiescent, connVars, signalVars, queueVars, historyVars
<1>1. lifecycle \in LifecycleStates /\ conn \in Connections
  BY DEF TypeOK
<1>2. ASSUME reader = "reading", NEW e \in Errors, NEW c \in Connections, ReaderFails(e, c)
      PROVE  LifecycleInv'
  <2>1. terminalEvent'
    BY <1>2 DEF ReaderFails, SignalTerminal
  <2>2. conn' \in Connections /\ conn'.closed
    BY <1>2, ConnectionLemma DEF ReaderFails, ReaderTearsDown
  <2>3. CASE CloseSuspends(c)
    BY <1>2, <2>1, <2>2, <2>3, Transitions DEF ReaderFails, ReaderTearsDown
  <2>4. CASE ~CloseSuspends(c)
    BY <1>1, <1>2, <2>1, <2>2, <2>4, Transitions DEF ReaderFails, ReaderTearsDown
  <2> QED
    BY <2>3, <2>4
<1>3. ASSUME NEW f \in ReadFailures \ {"late"}, ReaderReadFails(f) PROVE LifecycleInv'
  BY <1>1, <1>2, <1>3, ConnectionLemma, ErrorOfLemma DEF ReaderReadFails
<1>4. CASE ReaderDecodeFails
  BY <1>1, <1>2, <1>4 DEF ReaderDecodeFails, Errors
<1>5. CASE ReaderOverflows
  BY <1>1, <1>2, <1>5 DEF ReaderOverflows, Errors
<1>6. CASE ReaderStarts \/ ReaderEnqueues \/ ReaderDropsOldest \/ ReaderAborts
  BY <1>6 DEF ReaderStarts, ReaderEnqueues, ReaderDropsOldest, ReaderAborts, Publishes
<1>7. CASE ReaderUnwinds
  <2>1. CloseSuspends(conn) /\ conn'.closed
    BY <1>1, <1>7, ConnectionLemma DEF ReaderUnwinds, ReaderTearsDown, CloseSuspends
  <2> QED
    BY <1>7, <2>1, Transitions DEF ReaderUnwinds, ReaderTearsDown
<1>8. CASE ReaderFinishes
  <2>1. terminalEvent'
    BY <1>8 DEF ReaderFinishes, SignalTerminal
  <2> QED
    BY <1>1, <1>8, <2>1, Transitions DEF ReaderFinishes
<1> QED
  BY <1>3, <1>4, <1>5, <1>6, <1>7, <1>8 DEF ReaderStep

\* However many close() calls there are and wherever they are cancelled, none
\* of them closes a stream whose reader is alive (event_stream.py:267-293).
LEMMA CloserLifecycle ==
  TypeOK /\ LifecycleInv /\ (\E k \in Closers : CloserStep(k)) => LifecycleInv'
<1> SUFFICES ASSUME TypeOK, LifecycleInv, NEW k \in Closers, CloserStep(k) PROVE LifecycleInv'
  OBVIOUS
<1> USE DEF LifecycleInv, ClosedIsQuiescent, connVars, signalVars, queueVars, historyVars
<1>1. /\ lifecycle \in LifecycleStates /\ conn \in Connections /\ reader \in ReaderStates
      /\ closer \in [Closers -> CloserStates]
  BY DEF TypeOK
<1>2. ASSUME reader = "done", CloseStream(k), UNCHANGED <<connector, reader>> PROVE LifecycleInv'
  <2>1. conn' \in Connections /\ conn'.closed
    BY <1>1, <1>2, ConnectionLemma DEF CloseStream, CloseEnds
  <2>2. CASE connRef /\ CloseSuspends(conn)
    BY <1>1, <1>2, <2>1, <2>2, Transitions DEF CloseStream, CloseEnds
  <2>3. CASE ~(connRef /\ CloseSuspends(conn))
    BY <1>1, <1>2, <2>1, <2>3, Transitions DEF CloseStream, SignalTerminal, CloseEnds
  <2> QED
    BY <2>2, <2>3
<1>3. CASE CloseNoop(k)
  BY <1>1, <1>3 DEF CloseNoop
<1>4. CASE CloseCancelsReader(k)
  BY <1>1, <1>4, Transitions DEF CloseCancelsReader, Cancelled, ReaderStates
<1>5. CASE CloseWithoutReader(k) \/ CloseResumes(k)
  BY <1>2, <1>5 DEF CloseWithoutReader, CloseResumes
<1>6. CASE CloseFinishes(k)
  BY <1>1, <1>6, Transitions DEF CloseFinishes, SignalTerminal, CloseEnds
<1>7. CASE CloseCancelled(k)
  BY <1>1, <1>7 DEF CloseCancelled, Cancelled, ReaderStates
<1> QED
  BY <1>3, <1>4, <1>5, <1>6, <1>7 DEF CloserStep

\* Every step preserves the lifecycle invariant.
LEMMA StepLifecycle == TypeOK /\ LifecycleInv /\ [Next]_vars => LifecycleInv'
<1> SUFFICES ASSUME TypeOK, LifecycleInv, [Next]_vars PROVE LifecycleInv'
  OBVIOUS
<1> USE DEF LifecycleInv, ClosedIsQuiescent, connVars, signalVars, queueVars, historyVars
<1>1. CASE SocketReleased
  <2>1. conn'.closed = conn.closed
    BY <1>1, ConnectionLemma DEF SocketReleased, TypeOK
  <2>2. connector # "bootstrapping"
    BY <1>1 DEF SocketReleased, Opened
  <2> QED
    BY <1>1, <2>1, <2>2 DEF SocketReleased
<1>2. ASSUME NEW c \in Consumers, ConsumerStep(c) PROVE LifecycleInv'
  BY <1>2 DEF ConsumerStep, NextRejected, NextTakes, NextParks, NextResumes, NextParksAgain,
              NextAbandoned, Take, Park, RejectedWith, nextFrame
<1>3. CASE UNCHANGED vars
  BY <1>3 DEF vars
<1> QED
  BY <1>1, <1>2, <1>3, ConnectLifecycle, ReaderLifecycle, CloserLifecycle DEF Next

\* The lifecycle invariant holds in every reachable state.
LEMMA LifecycleInvariance == Spec => [](TypeOK /\ LifecycleInv)
<1>1. Init => TypeOK /\ LifecycleInv
  BY InitType, InitLifecycle
<1>2. (TypeOK /\ LifecycleInv) /\ [Next]_vars => (TypeOK /\ LifecycleInv)'
  BY StepType, StepLifecycle
<1> QED
  BY <1>1, <1>2, PTL DEF Spec

\* Whoever closes the stream, and whichever close() calls are cancelled on the
\* way, CLOSED means that the reader is over, the connection let go and the
\* terminal event set.
THEOREM ClosedMeansQuiescent == Spec => []ClosedIsQuiescent
<1>1. LifecycleInv => ClosedIsQuiescent
  BY DEF LifecycleInv
<1> QED
  BY <1>1, LifecycleInvariance, PTL

\* What every step makes of the connection: a socket stays open behind a set
\* flag only when a failed read has set it.
ReleasedOrPoisoned(c) == c.closed /\ c.socket = "open" => c.poisoned

LEMMA ReleaseLemma ==
  ASSUME NEW c \in Connections, ReleasedOrPoisoned(c)
  PROVE  /\ ReleasedOrPoisoned(CloseStarts(c))
         /\ ReleasedOrPoisoned(Released(c))
         /\ \A f \in WriteFailures \cup ReadFailures : ReleasedOrPoisoned(AfterFailure(c, f))
BY DEF Connections, CloseStarts, Released, AfterFailure, WriteFailures, ReadFailures, ReleasedOrPoisoned

\* The connection of a connect() that has not opened one, or has raised, and
\* what its flag says of its socket.
ConnectInv ==
  /\ connector \in {"new", "opening", "failing", "failed"} => conn.closed
  /\ ReleasedOrPoisoned(conn)

\* connect() raises with its connection closed, and nothing but a failed read
\* sets the flag without closing the writer (event_stream.py:66-104,
\* connection.py:108-173).
LEMMA StepConnect == TypeOK /\ LifecycleInv /\ ConnectInv /\ [Next]_vars => ConnectInv'
<1> SUFFICES ASSUME TypeOK, LifecycleInv, ConnectInv, [Next]_vars PROVE ConnectInv'
  OBVIOUS
<1> USE DEF ConnectInv, connVars, streamVars
<1>1. conn \in Connections /\ ReleasedOrPoisoned(conn)
  BY DEF TypeOK
<1>2. CASE ConnectStep
  <2>1. CASE Connect \/ ConnectRefused \/ ConnectCancelled \/ BootstrapSucceeds
    BY <2>1 DEF Connect, ConnectRefused, ConnectCancelled, BootstrapSucceeds
  <2>2. CASE ConnectOpens
    BY <2>2 DEF ConnectOpens, ReleasedOrPoisoned, Opened
  <2>3. ASSUME NEW f \in BootstrapFailures, BootstrapFails(f) PROVE ConnectInv'
    <3>1. /\ AfterBootstrapFailure(f) \in Connections
          /\ ReleasedOrPoisoned(AfterBootstrapFailure(f))
      BY <1>1, ConnectionLemma, ReleaseLemma DEF AfterBootstrapFailure, BootstrapFailures
    <3>2. conn' = CloseStarts(AfterBootstrapFailure(f)) /\ connector' \in {"failing", "failed"}
      BY <2>3 DEF BootstrapFails, ConnectFails
    <3> QED
      BY <3>1, <3>2, ConnectionLemma, ReleaseLemma
  <2>4. CASE BootstrapCleanedUp
    <3>1. conn.closed /\ UNCHANGED conn /\ connector' = "failed"
      BY <2>4 DEF BootstrapCleanedUp, ConnectFails
    <3> QED
      BY <3>1
  <2> QED
    BY <1>2, <2>1, <2>2, <2>3, <2>4 DEF ConnectStep
<1>3. ASSUME NEW c \in Connections, ReleasedOrPoisoned(c), ReaderTearsDown(c)
      PROVE  ReleasedOrPoisoned(conn')
  BY <1>3, ReleaseLemma DEF ReaderTearsDown
<1>4. CASE ReaderStep
  <2>1. connector = "connected" /\ connector' = connector
    BY <1>4 DEF ReaderStep, LifecycleInv, ReaderStarts, ReaderReadFails, ReaderDecodeFails, ReaderEnqueues,
                ReaderDropsOldest, ReaderOverflows, ReaderUnwinds, ReaderFinishes, ReaderAborts,
                ReaderFails, Publishes
  <2>2. ASSUME NEW f \in ReadFailures, ReaderReadFails(f) PROVE ReleasedOrPoisoned(conn')
    <3>1. AfterFailure(conn, f) \in Connections /\ ReleasedOrPoisoned(AfterFailure(conn, f))
      BY <1>1, ConnectionLemma, ReleaseLemma
    <3> QED
      BY <1>3, <2>2, <3>1 DEF ReaderReadFails, ReaderFails
  <2>3. ASSUME ReaderDecodeFails \/ ReaderOverflows \/ ReaderUnwinds PROVE ReleasedOrPoisoned(conn')
    <3>1. ReaderTearsDown(conn)
      BY <2>3 DEF ReaderDecodeFails, ReaderOverflows, ReaderUnwinds, ReaderFails
    <3> QED
      BY ONLY <1>1, <1>3, <3>1
  <2>4. ASSUME ReaderStarts \/ ReaderEnqueues \/ ReaderDropsOldest \/ ReaderFinishes \/ ReaderAborts
        PROVE  ReleasedOrPoisoned(conn')
    BY <1>1, <2>4 DEF ReaderStarts, ReaderEnqueues, ReaderDropsOldest, Publishes, ReaderFinishes, ReaderAborts
  <2>5. ReleasedOrPoisoned(conn')
    BY <1>4, <2>2, <2>3, <2>4 DEF ReaderStep
  <2> QED
    BY <2>1, <2>5
<1>5. ASSUME NEW k \in Closers, CloserStep(k) PROVE ConnectInv'
  <2>1. connector = "connected" /\ connector' = connector
    BY <1>5 DEF CloserStep, LifecycleInv, CloseNoop, CloseCancelsReader, CloseWithoutReader, CloseResumes,
                CloseFinishes, CloseCancelled
  <2>2. conn' = conn \/ conn' = CloseStarts(conn)
    BY <1>5 DEF CloserStep, CloseNoop, CloseCancelsReader, CloseWithoutReader, CloseResumes,
                CloseFinishes, CloseCancelled, CloseStream
  <2> QED
    BY <1>1, <2>1, <2>2, ReleaseLemma
<1>6. ASSUME NEW c \in Consumers, ConsumerStep(c) PROVE ConnectInv'
  BY <1>6 DEF ConsumerStep, NextRejected, NextTakes, NextParks, NextResumes, NextParksAgain,
              NextAbandoned, Take, Park, RejectedWith, nextFrame
<1>7. CASE SocketReleased
  BY <1>1, <1>7, ConnectionLemma, ReleaseLemma DEF SocketReleased
<1>8. CASE UNCHANGED vars
  BY <1>8 DEF vars
<1> QED
  BY <1>2, <1>4, <1>5, <1>6, <1>7, <1>8 DEF Next

\* However connect() or the stream fails, and whoever closes it, the socket is
\* let go unless a failed read had set _closed and left the writer alone
\* (event_stream.py:77-81, connection.py:108-140, 157-173).
THEOREM UnpoisonedSocketsGo == Spec => []OnlyPoisonedSocketsLeak
<1>1. Init => ConnectInv
  BY DEF Init, ConnectInv, ReleasedOrPoisoned, Unopened
<1>2. (TypeOK /\ LifecycleInv) /\ ConnectInv /\ [Next]_vars => ConnectInv'
  BY StepConnect
<1>3. LifecycleInv /\ ConnectInv => OnlyPoisonedSocketsLeak
  BY DEF LifecycleInv, ClosedIsQuiescent, ConnectInv, ReleasedOrPoisoned, OnlyPoisonedSocketsLeak
<1> QED
  BY <1>1, <1>2, <1>3, LifecycleInvariance, PTL DEF Spec

(***************************************************************************)
(* The order of what next() hands out.                                     *)
(***************************************************************************)
\* The reader may still publish an event.
Publishing == {"none", "scheduled", "reading"}

\* The log keeps its entries.
LogKept == Len(Log') = Len(Log) /\ \A i \in 1..Len(Log) : Log'[i] = Log[i]

\* The log gains x at the end and may have lost entries before it.
LogGains(x) ==
  /\ Len(Log') >= 1 /\ Log'[Len(Log')] = x
  /\ \E f \in [1..(Len(Log') - 1) -> 1..Len(Log)] :
       /\ \A i, j \in 1..(Len(Log') - 1) : i < j => f[i] < f[j]
       /\ \A i \in 1..(Len(Log') - 1) : Log'[i] = Log[f[i]]

\* The entries of a concatenation.
LEMMA ConcatLemma ==
  ASSUME NEW S, NEW s \in Seq(S), NEW t \in Seq(S)
  PROVE  /\ s \o t \in Seq(S) /\ Len(s \o t) = Len(s) + Len(t)
         /\ \A i \in 1..Len(s \o t) : (s \o t)[i] = IF i <= Len(s) THEN s[i] ELSE t[i - Len(s)]
<1>1. /\ s \o t \in Seq(S) /\ Len(s \o t) = Len(s) + Len(t)
      /\ \A i \in 1..Len(s) + Len(t) : (s \o t)[i] = IF i <= Len(s) THEN s[i] ELSE t[i - Len(s)]
  BY ConcatProperties, Zenon
<1> QED
  BY <1>1

\* The log is what was taken, then the queue; before and after a step.
LEMMA LogLemma ==
  ASSUME TypeOK, TypeOK'
  PROVE  /\ Log \in Seq(Items) /\ Len(Log) = Len(taken) + Len(items)
         /\ \A i \in 1..Len(Log) :
              Log[i] = IF i <= Len(taken) THEN taken[i] ELSE items[i - Len(taken)]
         /\ Log' \in Seq(Items) /\ Len(Log') = Len(taken') + Len(items')
         /\ \A i \in 1..Len(Log') :
              Log'[i] = IF i <= Len(taken') THEN taken'[i] ELSE items'[i - Len(taken')]
<1>1. /\ taken \in Seq(Items) /\ items \in Seq(Items)
      /\ taken' \in Seq(Items) /\ items' \in Seq(Items)
  BY DEF TypeOK
<1> QED
  BY <1>1, ConcatLemma, Zenon DEF Log

\* A get() moves the boundary inside the log and nothing else.
LEMMA TakeKeepsLog ==
  ASSUME TypeOK, TypeOK', NEW c, Take(c)
  PROVE  LogKept
<1> DEFINE n == Len(taken)  m == Len(items)
<1>1. /\ items \in Seq(Items) /\ items # <<>> /\ taken \in Seq(Items)
      /\ items' = Tail(items) /\ taken' = Append(taken, Head(items))
  BY DEF TypeOK, Take, nextFrame
<1>2. /\ n \in Nat /\ m \in Nat
      /\ Len(items') = m - 1 /\ \A i \in 1..(m - 1) : items'[i] = items[i + 1]
      /\ Len(taken') = n + 1 /\ taken'[n + 1] = items[1]
      /\ \A i \in 1..n : taken'[i] = taken[i]
  BY <1>1
<1>3. /\ Len(Log) = n + m /\ Len(Log') = Len(taken') + Len(items')
      /\ \A i \in 1..Len(Log) : Log[i] = IF i <= n THEN taken[i] ELSE items[i - n]
      /\ \A i \in 1..Len(Log') :
           Log'[i] = IF i <= Len(taken') THEN taken'[i] ELSE items'[i - Len(taken')]
  BY LogLemma
<1> HIDE DEF n, m
<1>4. Len(Log') = Len(Log)
  BY <1>2, <1>3
<1>5. ASSUME NEW i \in 1..Len(Log) PROVE Log'[i] = Log[i]
  <2>1. CASE i <= n
    <3>1. i \in 1..n /\ i <= Len(taken') /\ i \in 1..Len(Log')
      BY <1>2, <1>4, <2>1
    <3>2. Log'[i] = taken'[i]
      BY <1>3, <3>1
    <3>3. Log[i] = taken[i]
      BY <1>3, <2>1
    <3> QED
      BY <1>2, <3>1, <3>2, <3>3
  <2>2. CASE i = n + 1
    <3>1. Log'[n + 1] = taken'[n + 1]
      BY <1>2, <1>3, <1>4, <2>2
    <3>2. Log[n + 1] = items[(n + 1) - n] /\ (n + 1) - n = 1
      BY <1>2, <1>3, <2>2
    <3> QED
      BY <1>2, <2>2, <3>1, <3>2
  <2>3. CASE i > n + 1
    <3>1. i - (n + 1) \in 1..(m - 1) /\ (i - (n + 1)) + 1 = i - n
      BY <1>2, <1>3, <2>3
    <3>2. items'[i - (n + 1)] = items[i - n]
      BY <1>2, <3>1
    <3>3. Log'[i] = items'[i - (n + 1)]
      BY <1>2, <1>3, <1>4, <2>3
    <3>4. Log[i] = items[i - n]
      BY <1>2, <1>3, <2>3
    <3> QED
      BY <3>2, <3>3, <3>4
  <2> QED
    BY <1>2, <1>3, <2>1, <2>2, <2>3
<1> QED
  BY <1>4, <1>5 DEF LogKept

\* A put adds one entry (event_stream.py:161, 171).
LEMMA PutGrowsLog ==
  ASSUME TypeOK, TypeOK', NEW x, Put(items, x), taken' = taken
  PROVE  LogGains(x)
<1> DEFINE n == Len(taken)  m == Len(items)
<1>1. items \in Seq(Items) /\ taken \in Seq(Items) /\ items' = Append(items, x)
  BY DEF TypeOK, Put
<1>2. /\ n \in Nat /\ m \in Nat /\ Len(items') = m + 1
      /\ items'[m + 1] = x /\ \A i \in 1..m : items'[i] = items[i]
  BY <1>1
<1>3. /\ Len(Log) = n + m /\ Len(Log') = n + Len(items')
      /\ \A i \in 1..Len(Log) : Log[i] = IF i <= n THEN taken[i] ELSE items[i - n]
      /\ \A i \in 1..Len(Log') : Log'[i] = IF i <= n THEN taken[i] ELSE items'[i - n]
  BY LogLemma
<1> HIDE DEF n, m
<1>4. Len(Log') = n + m + 1 /\ Log'[n + m + 1] = x
  BY <1>2, <1>3
<1>5. \A i \in 1..(Len(Log') - 1) : Log'[i] = Log[i]
  BY <1>2, <1>3, <1>4
<1> DEFINE f == [i \in 1..(Len(Log') - 1) |-> i]
<1>6. f \in [1..(Len(Log') - 1) -> 1..Len(Log)]
  BY <1>2, <1>3, <1>4
<1>7. /\ \A i, j \in 1..(Len(Log') - 1) : i < j => f[i] < f[j]
      /\ \A i \in 1..(Len(Log') - 1) : Log'[i] = Log[f[i]]
  BY <1>5
<1> HIDE DEF f
<1>8. Len(Log') >= 1 /\ Log'[Len(Log')] = x
  BY <1>2, <1>4
<1> QED
  BY <1>6, <1>7, <1>8 DEF LogGains

\* An eviction before the put takes the oldest entry of the queue out of the
\* middle of the log (event_stream.py:111-117, 162-168).
LEMMA EvictingPutGrowsLog ==
  ASSUME TypeOK, TypeOK', NEW x, items # <<>>, Put(Tail(items), x), taken' = taken
  PROVE  LogGains(x)
<1> DEFINE n == Len(taken)  m == Len(items)
<1>1. /\ items \in Seq(Items) /\ taken \in Seq(Items) /\ items' = Append(Tail(items), x)
      /\ Tail(items) \in Seq(Items) /\ Len(Tail(items)) = Len(items) - 1
      /\ \A i \in 1..(Len(items) - 1) : Tail(items)[i] = items[i + 1]
  BY DEF TypeOK, Put
<1>2. /\ n \in Nat /\ m \in Nat /\ m >= 1 /\ Len(items') = m
      /\ items'[m] = x /\ \A i \in 1..(m - 1) : items'[i] = items[i + 1]
  BY <1>1
<1>3. /\ Len(Log) = n + m /\ Len(Log') = n + Len(items')
      /\ \A i \in 1..Len(Log) : Log[i] = IF i <= n THEN taken[i] ELSE items[i - n]
      /\ \A i \in 1..Len(Log') : Log'[i] = IF i <= n THEN taken[i] ELSE items'[i - n]
  BY LogLemma
<1> HIDE DEF n, m
<1>4. Len(Log') = n + m /\ Log'[n + m] = x
  BY <1>2, <1>3
<1> DEFINE f == [i \in 1..(Len(Log') - 1) |-> IF i <= n THEN i ELSE i + 1]
<1>5. f \in [1..(Len(Log') - 1) -> 1..Len(Log)]
  BY <1>2, <1>3, <1>4
<1>6. \A i, j \in 1..(Len(Log') - 1) : i < j => f[i] < f[j]
  BY <1>2, <1>4
<1>7. ASSUME NEW i \in 1..(Len(Log') - 1) PROVE Log'[i] = Log[f[i]]
  <2>1. CASE i <= n
    BY <1>2, <1>3, <1>4, <2>1
  <2>2. CASE i > n
    <3>1. i - n \in 1..(m - 1) /\ (i - n) + 1 = (i + 1) - n /\ f[i] = i + 1
      BY <1>2, <1>4, <2>2
    <3>2. items'[i - n] = items[(i + 1) - n]
      BY <1>2, <3>1
    <3>3. Log'[i] = items'[i - n]
      BY <1>2, <1>3, <1>4, <2>2
    <3>4. Log[i + 1] = items[(i + 1) - n]
      BY <1>2, <1>3, <1>4, <2>2
    <3> QED
      BY <3>1, <3>2, <3>3, <3>4
  <2> QED
    BY <1>2, <2>1, <2>2
<1> HIDE DEF f
<1>8. Len(Log') >= 1 /\ Log'[Len(Log')] = x
  BY <1>2, <1>4
<1> QED
  BY <1>5, <1>6, <1>7, <1>8 DEF LogGains

\* The forced put of a terminal item, in both cases (event_stream.py:106-119).
LEMMA EnqueueTerminalGrowsLog ==
  ASSUME TypeOK, TypeOK', NEW x, EnqueueTerminal(x), taken' = taken
  PROVE  LogGains(x)
<1>1. CASE Full
  BY <1>1, FullLemma, EvictingPutGrowsLog DEF EnqueueTerminal
<1>2. CASE ~Full
  BY <1>2, PutGrowsLog DEF EnqueueTerminal
<1> QED
  BY <1>1, <1>2

\* The log invariant survives a step that keeps the log, if the reader does not
\* come back to life.
LEMMA KeptLogInv ==
  ASSUME LogInv, LogKept, received' = received, reader' \in Publishing => reader \in Publishing
  PROVE  LogInv'
BY DEF LogInv, LogKept, Publishing, TerminalLast, WireOrder, IsEvent

\* It survives the next event of the wire, if only events are in the log.
LEMMA EventLogInv ==
  ASSUME TypeOK, TypeOK', LogInv, reader \in Publishing, LogGains(EventItem(received + 1)),
         received' = received + 1, reader' \in Publishing
  PROVE  LogInv'
<1> DEFINE x == EventItem(received + 1)
<1>1. /\ Len(Log) \in Nat /\ Len(Log') \in Nat /\ received \in Nat
      /\ \A i \in 1..Len(Log) : Log[i].seq \in Nat
  <2>1. Log \in Seq(Items) /\ Log' \in Seq(Items)
    BY LogLemma
  <2>2. \A i \in 1..Len(Log) : Log[i] \in Items
    BY <2>1
  <2> QED
    BY <2>1, <2>2 DEF TypeOK, Items
<1>2. x.seq = received + 1 /\ x.kind = "event"
  BY DEF EventItem
<1>3. /\ Len(Log') >= 1 /\ Log'[Len(Log')] = x
      /\ \E f \in [1..(Len(Log') - 1) -> 1..Len(Log)] :
           /\ \A i, j \in 1..(Len(Log') - 1) : i < j => f[i] < f[j]
           /\ \A i \in 1..(Len(Log') - 1) : Log'[i] = Log[f[i]]
  BY DEF LogGains
<1>4. PICK f \in [1..(Len(Log') - 1) -> 1..Len(Log)] :
           /\ \A i, j \in 1..(Len(Log') - 1) : i < j => f[i] < f[j]
           /\ \A i \in 1..(Len(Log') - 1) : Log'[i] = Log[f[i]]
  BY <1>3
<1> HIDE DEF x
<1>5. ASSUME NEW i \in 1..Len(Log') PROVE IsEvent(Log'[i])
  <2>1. CASE i = Len(Log')
    BY <1>2, <1>3, <2>1 DEF IsEvent
  <2>2. CASE i # Len(Log')
    <3>1. i \in 1..(Len(Log') - 1)
      BY <1>1, <2>2
    <3>2. f[i] \in 1..Len(Log) /\ Log'[i] = Log[f[i]]
      BY <1>4, <3>1
    <3> QED
      BY <3>2 DEF LogInv, Publishing
  <2> QED
    BY <2>1, <2>2
<1>6. ASSUME NEW i \in 1..(Len(Log') - 1)
      PROVE  Log'[i].seq <= received /\ Log'[i].seq \in Nat
  <2>1. f[i] \in 1..Len(Log) /\ Log'[i] = Log[f[i]]
    BY <1>4
  <2>2. \A k \in 1..Len(Log) : Log[k].seq <= received
    BY DEF LogInv
  <2> QED
    BY <1>1, <2>1, <2>2
<1>7. ASSUME NEW i \in 1..Len(Log') PROVE Log'[i].seq <= received'
  <2>1. CASE i = Len(Log')
    <3>1. Log'[i].seq = received + 1
      BY <1>2, <1>3, <2>1
    <3> QED
      BY <1>1, <3>1
  <2>2. CASE i # Len(Log')
    <3>1. i \in 1..(Len(Log') - 1)
      BY <1>1, <2>2
    <3>2. Log'[i].seq <= received /\ Log'[i].seq \in Nat
      BY <1>6, <3>1
    <3> QED
      BY <1>1, <3>2
  <2> QED
    BY <2>1, <2>2
<1>8. ASSUME NEW i \in 1..Len(Log'), NEW j \in 1..Len(Log'), i < j PROVE Log'[i].seq < Log'[j].seq
  <2>1. i \in 1..(Len(Log') - 1)
    BY <1>1, <1>8
  <2>2. CASE j = Len(Log')
    <3>1. Log'[j].seq = received + 1
      BY <1>2, <1>3, <2>2
    <3>2. Log'[i].seq <= received /\ Log'[i].seq \in Nat
      BY <1>6, <2>1
    <3> QED
      BY <1>1, <3>1, <3>2
  <2>3. CASE j # Len(Log')
    <3>1. j \in 1..(Len(Log') - 1)
      BY <1>1, <2>3
    <3>2. /\ f[i] \in 1..Len(Log) /\ f[j] \in 1..Len(Log) /\ f[i] < f[j]
          /\ Log'[i] = Log[f[i]] /\ Log'[j] = Log[f[j]]
      BY <1>4, <1>8, <2>1, <3>1
    <3>3. IsEvent(Log[f[i]]) /\ IsEvent(Log[f[j]])
      BY <3>2 DEF LogInv, Publishing
    <3> QED
      BY <3>2, <3>3 DEF LogInv, WireOrder
  <2> QED
    BY <2>2, <2>3
<1> QED
  BY <1>5, <1>7, <1>8 DEF LogInv, TerminalLast, WireOrder

\* It survives a terminal item, if the reader has stopped.
LEMMA TerminalLogInv ==
  ASSUME TypeOK, TypeOK', LogInv, NEW x \in Items, ~IsEvent(x), x.seq = 0, LogGains(x),
         received' = received, reader' \notin Publishing
  PROVE  LogInv'
<1>1. /\ Len(Log) \in Nat /\ Len(Log') \in Nat /\ received \in Nat
  BY LogLemma DEF TypeOK
<1>2. /\ Len(Log') >= 1 /\ Log'[Len(Log')] = x
      /\ \E f \in [1..(Len(Log') - 1) -> 1..Len(Log)] :
           /\ \A i, j \in 1..(Len(Log') - 1) : i < j => f[i] < f[j]
           /\ \A i \in 1..(Len(Log') - 1) : Log'[i] = Log[f[i]]
  BY DEF LogGains
<1>3. PICK f \in [1..(Len(Log') - 1) -> 1..Len(Log)] :
           /\ \A i, j \in 1..(Len(Log') - 1) : i < j => f[i] < f[j]
           /\ \A i \in 1..(Len(Log') - 1) : Log'[i] = Log[f[i]]
  BY <1>2
<1>4. ASSUME NEW i \in 1..Len(Log') PROVE Log'[i].seq <= received'
  <2>1. CASE i = Len(Log')
    BY <1>1, <1>2, <2>1
  <2>2. CASE i # Len(Log')
    <3>1. i \in 1..(Len(Log') - 1)
      BY <1>1, <2>2
    <3>2. f[i] \in 1..Len(Log) /\ Log'[i] = Log[f[i]]
      BY <1>3, <3>1
    <3>3. \A k \in 1..Len(Log) : Log[k].seq <= received
      BY DEF LogInv
    <3> QED
      BY <3>2, <3>3
  <2> QED
    BY <2>1, <2>2
<1>5. ASSUME NEW i \in 1..Len(Log'), NEW j \in 1..Len(Log'), i < j
      PROVE  /\ ~IsEvent(Log'[i]) => ~IsEvent(Log'[j])
             /\ IsEvent(Log'[i]) /\ IsEvent(Log'[j]) => Log'[i].seq < Log'[j].seq
  <2>1. CASE j = Len(Log')
    BY <1>2, <2>1
  <2>2. CASE j # Len(Log')
    <3>1. i \in 1..(Len(Log') - 1) /\ j \in 1..(Len(Log') - 1)
      BY <1>1, <1>5, <2>2
    <3>2. /\ f[i] \in 1..Len(Log) /\ f[j] \in 1..Len(Log) /\ f[i] < f[j]
          /\ Log'[i] = Log[f[i]] /\ Log'[j] = Log[f[j]]
      BY <1>3, <1>5, <3>1
    <3> QED
      BY <3>2 DEF LogInv, TerminalLast, WireOrder
  <2> QED
    BY <2>1, <2>2
<1> QED
  BY <1>4, <1>5 DEF LogInv, Publishing, TerminalLast, WireOrder, IsEvent

\* A step that touches neither the queue nor the log keeps the log.
LEMMA QuietKeepsLog == UNCHANGED <<items, taken>> => LogKept
BY DEF LogKept, Log

\* The steps of the reader (event_stream.py:126-207).
LEMMA ReaderLog == TypeOK /\ TypeOK' /\ LogInv /\ ReaderStep => LogInv'
<1> SUFFICES ASSUME TypeOK, TypeOK', LogInv, ReaderStep PROVE LogInv'
  OBVIOUS
<1> USE DEF connVars, signalVars, queueVars, historyVars, Publishing
<1>1. ASSUME NEW e \in Errors, NEW c, ReaderFails(e, c) PROVE LogInv'
  <2>1. ErrorItem(e) \in Items /\ ~IsEvent(ErrorItem(e)) /\ ErrorItem(e).seq = 0
    BY ItemLemma DEF ErrorItem
  <2>2. LogGains(ErrorItem(e))
    BY <1>1, EnqueueTerminalGrowsLog DEF ReaderFails
  <2>3. received' = received /\ reader' \notin Publishing
    BY <1>1 DEF ReaderFails, ReaderTearsDown
  <2> QED
    BY <2>1, <2>2, <2>3, TerminalLogInv
<1>2. ASSUME NEW f \in ReadFailures \ {"late"}, ReaderReadFails(f) PROVE LogInv'
  BY <1>1, <1>2, ErrorOfLemma DEF ReaderReadFails
<1>3. CASE ReaderDecodeFails
  BY <1>1, <1>3 DEF ReaderDecodeFails, Errors
<1>4. CASE ReaderOverflows
  BY <1>1, <1>4 DEF ReaderOverflows, Errors
<1>5. CASE ReaderEnqueues
  BY <1>5, PutGrowsLog, EventLogInv DEF ReaderEnqueues, Publishes
<1>6. CASE ReaderDropsOldest
  BY <1>6, FullLemma, EvictingPutGrowsLog, EventLogInv DEF ReaderDropsOldest, Publishes
<1>7. CASE ReaderFinishes
  <2>1. CASE terminalCause = None
    <3>1. ClosedItem \in Items /\ ~IsEvent(ClosedItem) /\ ClosedItem.seq = 0
      BY ItemLemma DEF ClosedItem
    <3>2. LogGains(ClosedItem)
      BY <1>7, <2>1, EnqueueTerminalGrowsLog DEF ReaderFinishes
    <3> QED
      BY <1>7, <3>1, <3>2, TerminalLogInv DEF ReaderFinishes
  <2>2. CASE terminalCause # None
    BY <1>7, <2>2, QuietKeepsLog, KeptLogInv DEF ReaderFinishes
  <2> QED
    BY <2>1, <2>2
<1>8. CASE ReaderStarts \/ ReaderUnwinds \/ ReaderAborts
  BY <1>8, QuietKeepsLog, KeptLogInv DEF ReaderStarts, ReaderUnwinds, ReaderTearsDown, ReaderAborts
<1> QED
  BY <1>2, <1>3, <1>4, <1>5, <1>6, <1>7, <1>8 DEF ReaderStep

\* The steps of close() (event_stream.py:267-293).
LEMMA CloserLog ==
  TypeOK /\ TypeOK' /\ LifecycleInv /\ LogInv /\ (\E k \in Closers : CloserStep(k)) => LogInv'
<1> SUFFICES ASSUME TypeOK, TypeOK', LifecycleInv, LogInv, NEW k \in Closers, CloserStep(k)
             PROVE  LogInv'
  OBVIOUS
<1> USE DEF connVars, signalVars, queueVars, historyVars, Publishing
<1>1. ASSUME EnqueueTerminal(ClosedItem), UNCHANGED <<reader, received, taken>>, reader = "done"
      PROVE  LogInv'
  <2>1. ClosedItem \in Items /\ ~IsEvent(ClosedItem) /\ ClosedItem.seq = 0
    BY ItemLemma DEF ClosedItem
  <2>2. LogGains(ClosedItem)
    BY <1>1, EnqueueTerminalGrowsLog
  <2> QED
    BY <1>1, <2>1, <2>2, TerminalLogInv
<1>2. ASSUME UNCHANGED <<items, taken, received>>, reader' \in Publishing => reader \in Publishing
      PROVE  LogInv'
  BY <1>2, QuietKeepsLog, KeptLogInv
<1>3. CASE CloseNoop(k)
  BY <1>2, <1>3 DEF CloseNoop
<1>4. CASE CloseCancelsReader(k)
  BY <1>2, <1>4 DEF CloseCancelsReader, Cancelled
<1>5. ASSUME CloseStream(k), UNCHANGED <<reader, received, taken>>, reader = "done" PROVE LogInv'
  BY <1>1, <1>2, <1>5 DEF CloseStream, CloseEnds
<1>6. CASE CloseWithoutReader(k) \/ CloseResumes(k)
  BY <1>5, <1>6 DEF CloseWithoutReader, CloseResumes
<1>7. CASE CloseFinishes(k)
  BY <1>1, <1>7 DEF CloseFinishes, LifecycleInv, CloseEnds
<1>8. CASE CloseCancelled(k)
  BY <1>2, <1>8 DEF CloseCancelled, Cancelled
<1> QED
  BY <1>3, <1>4, <1>6, <1>7, <1>8 DEF CloserStep

\* Every step preserves the log invariant.
LEMMA StepLog == TypeOK /\ TypeOK' /\ LifecycleInv /\ LogInv /\ [Next]_vars => LogInv'
<1> SUFFICES ASSUME TypeOK, TypeOK', LifecycleInv, LogInv, [Next]_vars PROVE LogInv'
  OBVIOUS
<1> USE DEF connVars, signalVars, queueVars, historyVars
<1>1. ASSUME UNCHANGED <<items, taken, received>>, reader' \in Publishing => reader \in Publishing
      PROVE  LogInv'
  BY <1>1, QuietKeepsLog, KeptLogInv
<1>2. CASE ConnectStep
  BY <1>1, <1>2
     DEF ConnectStep, Connect, ConnectRefused, ConnectOpens, BootstrapFails, BootstrapCleanedUp,
         BootstrapSucceeds, ConnectCancelled, streamVars, LifecycleInv, Publishing, ConnectFails
<1>3. CASE SocketReleased \/ UNCHANGED vars
  BY <1>1, <1>3 DEF SocketReleased, vars
<1>4. ASSUME NEW c \in Consumers, ConsumerStep(c) PROVE LogInv'
  <2>1. CASE Take(c)
    BY <2>1, TakeKeepsLog, KeptLogInv DEF Take, nextFrame
  <2>2. CASE ~Take(c)
    BY <1>1, <1>4, <2>2
       DEF ConsumerStep, NextRejected, NextTakes, NextParks, NextResumes, NextParksAgain,
           NextAbandoned, Park, RejectedWith, nextFrame
  <2> QED
    BY <2>1, <2>2
<1> QED
  BY <1>2, <1>3, <1>4, ReaderLog, CloserLog DEF Next

\* The log invariant holds in every reachable state.
LEMMA LogInvariance == Spec => []LogInv
<1>1. Init => LogInv
  BY DEF Init, LogInv, Log, TerminalLast, WireOrder
<1>2. (TypeOK /\ LifecycleInv /\ LogInv) /\ [Next]_vars => (TypeOK /\ LifecycleInv /\ LogInv)'
  BY StepType, StepLifecycle, StepLog
<1>3. Init => TypeOK /\ LifecycleInv
  BY InitType, InitLifecycle
<1> QED
  BY <1>1, <1>2, <1>3, PTL DEF Spec

\* However close(), the failures of the reader and the overflow of the queue
\* interleave, no next() obtains an event once one has obtained the end.
THEOREM NothingAfterTheEnd == Spec => []TerminalLast
<1>1. LogInv => TerminalLast
  BY DEF LogInv
<1> QED
  BY <1>1, LogInvariance, PTL

\* Events leave the stream in the order of the wire, each at most once.
THEOREM OrderPreserved == Spec => []WireOrder
<1>1. LogInv => WireOrder
  BY DEF LogInv
<1> QED
  BY <1>1, LogInvariance, PTL

---------------------------------------------------------------------------
(***************************************************************************)
(* What is delivered, for any number of consumers and closers and any      *)
(* capacity: every event under FAIL_FAST, the newest ones under            *)
(* DROP_OLDEST, and the failure that ended the stream; that the whole is   *)
(* an EventSubscription; and what a single consumer is told at the end.    *)
(*                                                                         *)
(* The tasks have some thirty steps; to the queue they do five things.     *)
(***************************************************************************)

\* The calls of close() that are still to come or to return.
StillClosing == {k \in Closers : closer[k] # "returned"}

\* Nothing, though the reader may come to its end.
Quiet ==
  /\ UNCHANGED <<items, taken, received, dropped, discarded, terminalCause, terminalEvent>>
  /\ reader' \in Publishing => reader \in Publishing
  /\ lifecycle = "CLOSED" => lifecycle' = "CLOSED"

\* A get() returns an item.
Delivers ==
  /\ \E c \in Consumers : Take(c)
  /\ UNCHANGED <<received, dropped, discarded, terminalCause, terminalEvent, reader, lifecycle>>

\* The reader accepts the next event of the wire.
AcceptsEvent ==
  /\ ReaderEnqueues \/ ReaderDropsOldest
  /\ reader = "reading" /\ received' = received + 1
  /\ UNCHANGED <<terminalCause, terminalEvent, reader, lifecycle, taken, discarded>>

\* The end of the stream is announced with the item x.
Announces(x) ==
  /\ EnqueueTerminal(x)
  /\ UNCHANGED <<taken, received, dropped>>
  /\ reader' \notin Publishing
  /\ terminalEvent'

ReaderAnnounces(e) ==
  /\ reader = "reading"
  /\ SignalTerminal(e)
  /\ Announces(ErrorItem(e))

CloseAnnounces ==
  /\ reader \notin Publishing
  /\ SignalTerminal(None)
  /\ Announces(ClosedItem)
  /\ lifecycle' = "CLOSED"

Effect ==
  \/ Quiet \/ Delivers \/ AcceptsEvent \/ CloseAnnounces
  \/ \E e \in Errors : ReaderAnnounces(e)

\* The reader: all its failures announce themselves (event_stream.py:126-207).
LEMMA ReaderEffect == TypeOK /\ ReaderStep => Effect
<1> SUFFICES ASSUME TypeOK, ReaderStep PROVE Effect
  OBVIOUS
<1> USE DEF connVars, signalVars, queueVars, historyVars, Publishing
<1>0. lifecycle \in LifecycleStates
  BY DEF TypeOK
<1>1. ASSUME NEW e \in Errors, NEW c, reader = "reading", ReaderFails(e, c) PROVE Effect
  <2>1. ReaderAnnounces(e)
    BY <1>1 DEF ReaderFails, ReaderTearsDown, ReaderAnnounces, Announces, SignalTerminal
  <2> QED BY <2>1 DEF Effect
<1>2. ASSUME NEW f \in ReadFailures \ {"late"}, ReaderReadFails(f) PROVE Effect
  BY <1>1, <1>2, ErrorOfLemma DEF ReaderReadFails
<1>3. CASE ReaderDecodeFails \/ ReaderOverflows
  BY <1>1, <1>3 DEF ReaderDecodeFails, ReaderOverflows, Errors
<1>4. CASE ReaderEnqueues \/ ReaderDropsOldest
  <2>1. AcceptsEvent
    BY <1>4 DEF ReaderEnqueues, ReaderDropsOldest, Publishes, AcceptsEvent
  <2> QED BY <2>1 DEF Effect
<1>5. CASE ReaderFinishes
  <2>1. lifecycle' = "CLOSED"
    BY <1>0, <1>5, Transitions DEF ReaderFinishes
  <2>2. CASE terminalCause = None
    <3>1. CloseAnnounces
      BY <1>5, <2>1, <2>2 DEF ReaderFinishes, CloseAnnounces, Announces, SignalTerminal
    <3> QED BY <3>1 DEF Effect
  <2>3. CASE terminalCause # None
    <3>1. Quiet
      BY <1>5, <2>1, <2>3 DEF ReaderFinishes, Quiet
    <3> QED BY <3>1 DEF Effect
  <2> QED BY <2>2, <2>3
<1>6. CASE ReaderUnwinds
  <2>1. lifecycle = "CLOSED" => lifecycle' = "CLOSED"
    BY <1>6 DEF ReaderUnwinds, ReaderTearsDown, TransitionTo, Accepts, ValidTransitions, LifecycleStates
  <2>2. Quiet
    BY <1>6, <2>1 DEF ReaderUnwinds, ReaderTearsDown, Quiet
  <2> QED BY <2>2 DEF Effect
<1>7. CASE ReaderStarts \/ ReaderAborts
  <2>1. Quiet
    BY <1>7 DEF ReaderStarts, ReaderAborts, Quiet
  <2> QED BY <2>1 DEF Effect
<1> QED
  BY <1>2, <1>3, <1>4, <1>5, <1>6, <1>7 DEF ReaderStep

\* close(): it announces the end only behind a reader that is gone, and then
\* returns (event_stream.py:267-293).
LEMMA CloserEffect ==
  ASSUME TypeOK, LifecycleInv, NEW k \in Closers, CloserStep(k)
  PROVE  \/ Quiet /\ UNCHANGED <<waiters, woken>> /\ StillClosing' \subseteq StillClosing
         \/ CloseAnnounces /\ k \in StillClosing /\ StillClosing' = StillClosing \ {k}
<1> USE DEF connVars, signalVars, queueVars, historyVars, Publishing
<1> DEFINE Goal == \/ Quiet /\ UNCHANGED <<waiters, woken>> /\ StillClosing' \subseteq StillClosing
                   \/ CloseAnnounces /\ k \in StillClosing /\ StillClosing' = StillClosing \ {k}
<1>0. lifecycle \in LifecycleStates
  BY DEF TypeOK
<1>1. /\ UNCHANGED closer => StillClosing' = StillClosing
      /\ \A t \in CloserStates : closer' = [closer EXCEPT ![k] = t] /\ closer[k] # "returned"
           => StillClosing' \subseteq StillClosing
      /\ closer' = [closer EXCEPT ![k] = "returned"] => StillClosing' = StillClosing \ {k}
  BY DEF StillClosing, TypeOK
<1>2. ASSUME CloseEnds(k), closer[k] # "returned", reader = "done", UNCHANGED <<reader, received, taken, dropped>>
      PROVE  Goal
  <2>1. CloseAnnounces
    BY <1>0, <1>2, Transitions DEF CloseEnds, CloseAnnounces, Announces, SignalTerminal
  <2> QED BY <1>1, <1>2, <2>1 DEF CloseEnds, StillClosing
<1>3. ASSUME CloseStream(k), closer[k] # "returned", reader = "done", UNCHANGED <<reader, received, taken, dropped>>
      PROVE  Goal
  <2>1. CASE CloseEnds(k)
    BY <1>2, <1>3, <2>1
  <2>2. CASE ~CloseEnds(k)
    <3>1. Quiet /\ UNCHANGED <<waiters, woken>>
      BY <1>3, <2>2 DEF CloseStream, Quiet, TransitionTo, Accepts, ValidTransitions, LifecycleStates
    <3>2. closer' = [closer EXCEPT ![k] = "await_conn"]
      BY <1>3, <2>2 DEF CloseStream
    <3> QED BY <1>1, <1>3, <3>1, <3>2 DEF CloserStates
  <2> QED BY <2>1, <2>2
<1>4. CASE CloseNoop(k)
  <2>1. Quiet /\ UNCHANGED <<waiters, woken>>
    BY <1>4 DEF CloseNoop, Quiet
  <2> QED BY <1>1, <1>4, <2>1 DEF CloseNoop
<1>5. CASE CloseCancelsReader(k)
  <2>1. Quiet /\ UNCHANGED <<waiters, woken>>
    BY <1>5 DEF CloseCancelsReader, Quiet, Cancelled
  <2> QED BY <1>1, <1>5, <2>1 DEF CloseCancelsReader, CloserStates
<1>6. CASE CloseWithoutReader(k) \/ CloseResumes(k)
  BY <1>3, <1>6 DEF CloseWithoutReader, CloseResumes
<1>7. CASE CloseFinishes(k)
  BY <1>2, <1>7 DEF CloseFinishes, LifecycleInv
<1>8. CASE CloseCancelled(k)
  <2>1. Quiet /\ UNCHANGED <<waiters, woken>>
    BY <1>8 DEF CloseCancelled, Quiet, Cancelled
  <2> QED BY <1>1, <1>8, <2>1 DEF CloseCancelled, CloserStates
<1> QED
  BY <1>4, <1>5, <1>6, <1>7, <1>8 DEF CloserStep

\* Every step of the stream.
LEMMA StepEffect == TypeOK /\ LifecycleInv /\ [Next]_vars => Effect
<1> SUFFICES ASSUME TypeOK, LifecycleInv, [Next]_vars PROVE Effect
  OBVIOUS
<1> USE DEF connVars, signalVars, queueVars, historyVars, Publishing
<1>1. CASE ConnectStep
  <2>1. Quiet
    BY <1>1, Transitions
       DEF ConnectStep, Connect, ConnectRefused, ConnectOpens, BootstrapFails, BootstrapCleanedUp,
           BootstrapSucceeds, ConnectCancelled, streamVars, LifecycleInv, ConnectFails, Quiet
  <2> QED BY <2>1 DEF Effect
<1>2. CASE SocketReleased \/ UNCHANGED vars
  <2>1. Quiet
    BY <1>2 DEF SocketReleased, vars, Quiet
  <2> QED BY <2>1 DEF Effect
<1>3. ASSUME NEW c \in Consumers, ConsumerStep(c) PROVE Effect
  <2>1. CASE Take(c)
    <3>1. Delivers
      BY <2>1 DEF Take, nextFrame, Delivers
    <3> QED BY <3>1 DEF Effect
  <2>2. CASE ~Take(c)
    <3>1. Quiet
      BY <1>3, <2>2
         DEF ConsumerStep, NextRejected, NextTakes, NextParks, NextResumes, NextParksAgain,
             NextAbandoned, Park, RejectedWith, nextFrame, Quiet
    <3> QED BY <3>1 DEF Effect
  <2> QED BY <2>1, <2>2
<1> QED
  BY <1>1, <1>2, <1>3, ReaderEffect, CloserEffect DEF Next, Effect

(***************************************************************************)
(* The failure.                                                            *)
(***************************************************************************)
\* A reader that can still publish has not failed.
FailureInv ==
  /\ reader \in Publishing => terminalCause = None
  /\ FailureStaysObservable

LEMMA EffectFailure ==
  ASSUME TypeOK, TypeOK', FailureInv, Effect
  PROVE  FailureInv'
<1> USE DEF FailureInv, FailureStaysObservable, Publishing
<1>1. ASSUME LogKept, UNCHANGED terminalCause,
             reader' \in Publishing => reader \in Publishing,
             lifecycle = "CLOSED" => lifecycle' = "CLOSED"
      PROVE  FailureInv'
  BY <1>1 DEF LogKept
<1>2. CASE Quiet
  BY <1>1, <1>2, QuietKeepsLog DEF Quiet
<1>3. CASE Delivers
  BY <1>1, <1>3, TakeKeepsLog DEF Delivers
<1>4. CASE AcceptsEvent
  BY <1>4 DEF AcceptsEvent
<1>5. CASE CloseAnnounces
  BY <1>5 DEF CloseAnnounces, Announces
<1>6. ASSUME NEW e \in Errors, ReaderAnnounces(e) PROVE FailureInv'
  <2>1. LogGains(ErrorItem(e))
    BY <1>6, EnqueueTerminalGrowsLog DEF ReaderAnnounces, Announces
  <2>2. Len(Log') \in 1..Len(Log') /\ Log'[Len(Log')] = ErrorItem(e)
    <3>1. Len(Log') \in Nat
      BY LogLemma
    <3> QED BY <2>1, <3>1 DEF LogGains
  <2>3. terminalCause' = e /\ reader' \notin Publishing
    BY <1>6 DEF ReaderAnnounces, Announces, SignalTerminal, Errors, None
  <2> QED BY <2>2, <2>3
<1> QED BY <1>2, <1>3, <1>4, <1>5, <1>6 DEF Effect

\* However close() and the overflow of the queue compete with the error item,
\* the failure that ended the stream can be seen by whoever calls next().
THEOREM FailureNotLost == Spec => []FailureStaysObservable
<1>1. Init => TypeOK /\ LifecycleInv /\ FailureInv
  <2>1. Init => FailureInv
    BY DEF Init, FailureInv, FailureStaysObservable
  <2> QED BY <2>1, InitType, InitLifecycle
<1>2. (TypeOK /\ LifecycleInv /\ FailureInv) /\ [Next]_vars => (TypeOK /\ LifecycleInv /\ FailureInv)'
  BY StepType, StepLifecycle, StepEffect, EffectFailure
<1>3. FailureInv => FailureStaysObservable
  BY DEF FailureInv
<1> QED BY <1>1, <1>2, <1>3, PTL DEF Spec

(***************************************************************************)
(* FAIL_FAST.                                                              *)
(***************************************************************************)
\* A put with room in the queue leaves what is there where it is.
LEMMA PutExtendsLog ==
  ASSUME TypeOK, TypeOK', NEW x, items' = Append(items, x), taken' = taken
  PROVE  /\ Len(Log) \in Nat /\ Len(Log') = Len(Log) + 1 /\ Log'[Len(Log) + 1] = x
         /\ \A i \in 1..Len(Log) : Log'[i] = Log[i]
<1> DEFINE n == Len(taken)  m == Len(items)
<1>1. /\ n \in Nat /\ m \in Nat /\ Len(items') = m + 1
      /\ items'[m + 1] = x /\ \A i \in 1..m : items'[i] = items[i]
  BY DEF TypeOK
<1>2. /\ Len(Log) = n + m /\ Len(Log') = n + Len(items')
      /\ \A i \in 1..Len(Log) : Log[i] = IF i <= n THEN taken[i] ELSE items[i - n]
      /\ \A i \in 1..Len(Log') : Log'[i] = IF i <= n THEN taken[i] ELSE items'[i - n]
  BY LogLemma
<1> HIDE DEF n, m
<1>3. Len(Log') = n + m + 1 /\ Log'[n + m + 1] = x
  BY <1>1, <1>2
<1>4. \A i \in 1..(n + m) : Log'[i] = Log[i]
  BY <1>1, <1>2
<1> QED BY <1>1, <1>2, <1>3, <1>4

LEMMA EffectGapless ==
  ASSUME TypeOK, TypeOK', GaplessWhileOpen, Effect
  PROVE  GaplessWhileOpen'
<1> USE DEF GaplessWhileOpen
<1>1. ASSUME LogKept, UNCHANGED <<received, terminalEvent>> PROVE GaplessWhileOpen'
  BY <1>1 DEF LogKept
<1>2. CASE Quiet
  BY <1>1, <1>2, QuietKeepsLog DEF Quiet
<1>3. CASE Delivers
  BY <1>1, <1>3, TakeKeepsLog DEF Delivers
<1>4. CASE AcceptsEvent
  <2> SUFFICES ASSUME Mode = "FAIL_FAST", ~terminalEvent' PROVE GaplessWhileOpen'
    BY ModeAssumption
  <2>1. /\ items' = Append(items, EventItem(received + 1)) /\ received' = received + 1
        /\ UNCHANGED <<taken, terminalEvent>>
    BY <1>4 DEF AcceptsEvent, ReaderEnqueues, ReaderDropsOldest, Publishes, Put
  <2>2. Len(Log) = received /\ \A i \in 1..Len(Log) : Log[i] = EventItem(i)
    BY <2>1
  <2>3. /\ Len(Log) \in Nat /\ Len(Log') = Len(Log) + 1
        /\ Log'[Len(Log) + 1] = EventItem(received + 1)
        /\ \A i \in 1..Len(Log) : Log'[i] = Log[i]
    BY <2>1, PutExtendsLog
  <2>4. ASSUME NEW i \in 1..Len(Log') PROVE Log'[i] = EventItem(i)
    <3>1. CASE i = Len(Log) + 1
      BY <2>2, <2>3, <3>1
    <3>2. CASE i # Len(Log) + 1
      <4>1. i \in 1..Len(Log)
        BY <2>3, <3>2
      <4> QED BY <2>2, <2>3, <4>1
    <3> QED BY <3>1, <3>2
  <2> QED BY <2>1, <2>2, <2>3, <2>4
<1>5. CASE CloseAnnounces
  BY <1>5 DEF CloseAnnounces, Announces
<1>6. ASSUME NEW e \in Errors, ReaderAnnounces(e) PROVE GaplessWhileOpen'
  BY <1>6 DEF ReaderAnnounces, Announces
<1> QED BY <1>2, <1>3, <1>4, <1>5, <1>6 DEF Effect

\* Under FAIL_FAST no event is missing as long as the stream is not over.
THEOREM NoGapWhileOpen == Spec => []GaplessWhileOpen
<1>1. Init => TypeOK /\ LifecycleInv /\ GaplessWhileOpen
  <2>1. Init => GaplessWhileOpen
    BY DEF Init, GaplessWhileOpen, Log
  <2> QED BY <2>1, InitType, InitLifecycle
<1>2. (TypeOK /\ LifecycleInv /\ GaplessWhileOpen) /\ [Next]_vars
        => (TypeOK /\ LifecycleInv /\ GaplessWhileOpen)'
  BY StepType, StepLifecycle, StepEffect, EffectGapless
<1> QED BY <1>1, <1>2, PTL DEF Spec

(***************************************************************************)
(* DROP_OLDEST.                                                            *)
(***************************************************************************)
\* The first m items of q are the last m events of the first n of the wire, and
\* there are no others.
EndsWith(q, m, n) ==
  /\ m \in 0..Len(q)
  /\ \A i \in 1..m : IsEvent(q[i]) /\ q[i].seq + m = n + i
  /\ \A i \in (m + 1)..Len(q) : ~IsEvent(q[i])

\* What is left of m events when the oldest item goes.
Less(m) == IF m = 0 THEN 0 ELSE m - 1

LEMMA TailEnds ==
  ASSUME NEW q \in Seq(Items), q # <<>>, NEW m \in Nat, NEW n \in Nat, EndsWith(q, m, n)
  PROVE  /\ Tail(q) \in Seq(Items) /\ Len(Tail(q)) = Len(q) - 1
         /\ EndsWith(Tail(q), Less(m), n)
<1> DEFINE r == Tail(q)
<1>1. /\ Len(q) \in Nat \ {0} /\ r \in Seq(Items) /\ Len(r) = Len(q) - 1
      /\ \A i \in 1..(Len(q) - 1) : r[i] = q[i + 1]
  OBVIOUS
<1>2. ASSUME NEW i \in 1..Len(q) PROVE q[i].seq \in Nat
  <2>1. q[i] \in Items
    OBVIOUS
  <2> QED BY <2>1 DEF Items
<1>3. /\ m <= Len(q)
      /\ \A i \in 1..m : IsEvent(q[i]) /\ q[i].seq + m = n + i
      /\ \A i \in (m + 1)..Len(q) : ~IsEvent(q[i])
  BY DEF EndsWith
<1> HIDE DEF r
<1>4. CASE m = 0
  BY <1>1, <1>3, <1>4 DEF EndsWith, Less
<1>5. CASE m # 0
  <2>1. ASSUME NEW i \in 1..(m - 1) PROVE IsEvent(r[i]) /\ r[i].seq + (m - 1) = n + i
    <3> DEFINE s == q[i + 1].seq
    <3>1. i + 1 \in 1..m /\ i + 1 \in 1..Len(q) /\ r[i] = q[i + 1]
      BY <1>1, <1>3
    <3>2. IsEvent(r[i]) /\ s + m = n + (i + 1) /\ s \in Nat /\ r[i].seq = s
      BY <1>2, <1>3, <3>1
    <3> HIDE DEF s
    <3> QED BY <3>2
  <2>2. ASSUME NEW i \in ((m - 1) + 1)..Len(r) PROVE ~IsEvent(r[i])
    <3>1. i + 1 \in (m + 1)..Len(q) /\ r[i] = q[i + 1]
      BY <1>1, <1>3, <1>5
    <3> QED BY <1>3, <3>1
  <2>3. m - 1 \in 0..Len(r)
    BY <1>1, <1>3, <1>5
  <2> QED BY <1>1, <1>5, <2>1, <2>2, <2>3 DEF EndsWith, Less, r
<1> QED BY <1>4, <1>5

LEMMA AppendEnds ==
  ASSUME NEW q \in Seq(Items), NEW m \in Nat, NEW n \in Nat, EndsWith(q, m, n), NEW x
  PROVE  /\ ~IsEvent(x) => EndsWith(Append(q, x), m, n)
         /\ m = Len(q) /\ x = EventItem(n + 1) => EndsWith(Append(q, x), m + 1, n + 1)
<1> DEFINE r == Append(q, x)
<1>1. /\ Len(q) \in Nat /\ Len(r) = Len(q) + 1 /\ r[Len(q) + 1] = x
      /\ \A i \in 1..Len(q) : r[i] = q[i]
  OBVIOUS
<1>2. /\ m <= Len(q)
      /\ \A i \in 1..m : IsEvent(q[i]) /\ q[i].seq + m = n + i
      /\ \A i \in (m + 1)..Len(q) : ~IsEvent(q[i])
  BY DEF EndsWith
<1> HIDE DEF r
<1>3. ASSUME ~IsEvent(x) PROVE EndsWith(r, m, n)
  <2>1. \A i \in 1..m : IsEvent(r[i]) /\ r[i].seq + m = n + i
    BY <1>1, <1>2
  <2>2. \A i \in (m + 1)..Len(r) : ~IsEvent(r[i])
    BY <1>1, <1>2, <1>3
  <2> QED BY <1>1, <1>2, <2>1, <2>2 DEF EndsWith
<1>4. ASSUME m = Len(q), x = EventItem(n + 1) PROVE EndsWith(r, m + 1, n + 1)
  <2>1. x.seq = n + 1 /\ IsEvent(x)
    BY <1>4 DEF EventItem, IsEvent
  <2>2. ASSUME NEW i \in 1..(m + 1) PROVE IsEvent(r[i]) /\ r[i].seq + (m + 1) = (n + 1) + i
    <3>1. CASE i = m + 1
      BY <1>1, <1>4, <2>1, <3>1
    <3>2. CASE i # m + 1
      <4> DEFINE s == q[i].seq
      <4>1. i \in 1..m /\ r[i] = q[i]
        BY <1>1, <1>4, <3>2
      <4>2. IsEvent(r[i]) /\ s + m = n + i /\ r[i].seq = s
        BY <1>2, <4>1
      <4>3. q[i] \in Items
        BY <1>4, <4>1
      <4>4. s \in Nat
        BY <4>3 DEF Items
      <4> HIDE DEF s
      <4> QED BY <4>2, <4>4
    <3> QED BY <3>1, <3>2
  <2>3. \A i \in ((m + 1) + 1)..Len(r) : ~IsEvent(r[i])
    BY <1>1, <1>4
  <2> QED BY <1>1, <1>4, <2>2, <2>3 DEF EndsWith
<1> QED BY <1>3, <1>4 DEF r

\* How many events are in the queue.
NewestAre(m) ==
  /\ m \in Nat
  /\ EndsWith(items, m, received)
  /\ reader \in Publishing => m = Len(items)

\* The reader accepts an event: the queue grows, or loses its oldest
\* (event_stream.py:158-171).
LEMMA AcceptNewest ==
  ASSUME TypeOK, NEW m, NewestAre(m), AcceptsEvent
  PROVE  IF Full THEN NewestAre(m)' ELSE NewestAre(m + 1)'
<1>1. /\ items \in Seq(Items) /\ received \in Nat /\ m \in Nat /\ EndsWith(items, m, received)
      /\ m = Len(items) /\ received' = received + 1
  BY DEF AcceptsEvent, NewestAre, Publishing, TypeOK
<1>2. CASE ReaderEnqueues
  <2>1. ~Full /\ items' = Append(items, EventItem(received + 1))
    BY <1>2 DEF ReaderEnqueues, Publishes, Put
  <2>2. EndsWith(items', m + 1, received')
    BY <1>1, <2>1, AppendEnds
  <2>3. Len(items') = m + 1
    BY <1>1, <2>1
  <2> QED BY <1>1, <2>1, <2>2, <2>3 DEF NewestAre
<1>3. CASE ReaderDropsOldest
  <2> DEFINE q == Tail(items)
  <2>1. Full /\ items # <<>> /\ items' = Append(q, EventItem(received + 1))
    BY <1>3, FullLemma DEF ReaderDropsOldest, Publishes, Put
  <2>2. q \in Seq(Items) /\ Len(q) = m - 1 /\ EndsWith(q, Less(m), received)
    BY <1>1, <2>1, TailEnds
  <2>3. m # 0 /\ Less(m) = m - 1 /\ m - 1 \in Nat /\ (m - 1) + 1 = m
    BY <1>1, <2>1 DEF Less
  <2> HIDE DEF q
  <2>4. EndsWith(items', m, received')
    BY <1>1, <2>1, <2>2, <2>3, AppendEnds
  <2>5. Len(items') = m
    BY <2>1, <2>2, <2>3
  <2> QED BY <1>1, <2>1, <2>4, <2>5 DEF NewestAre
<1> QED BY <1>2, <1>3 DEF AcceptsEvent

\* A terminal item is put (event_stream.py:106-119).
LEMMA AnnounceNewest ==
  ASSUME TypeOK, NEW m, NewestAre(m), NEW x, ~IsEvent(x), Announces(x)
  PROVE  IF Full THEN NewestAre(Less(m))' ELSE NewestAre(m)'
<1>1. /\ items \in Seq(Items) /\ received \in Nat /\ m \in Nat /\ EndsWith(items, m, received)
      /\ received' = received /\ reader' \notin Publishing
  BY DEF Announces, NewestAre, TypeOK
<1>2. Less(m) \in Nat
  BY <1>1 DEF Less
<1>3. CASE Full
  <2>1. items # <<>> /\ items' = Append(Tail(items), x)
    BY <1>3, FullLemma DEF Announces, EnqueueTerminal, Put
  <2>2. EndsWith(items', Less(m), received)
    BY <1>1, <1>2, <2>1, TailEnds, AppendEnds
  <2> QED BY <1>1, <1>2, <1>3, <2>2 DEF NewestAre
<1>4. CASE ~Full
  <2>1. items' = Append(items, x)
    BY <1>4 DEF Announces, EnqueueTerminal, Put
  <2>2. EndsWith(items', m, received)
    BY <1>1, <2>1, AppendEnds
  <2> QED BY <1>1, <1>4, <2>2 DEF NewestAre
<1> QED BY <1>3, <1>4

\* A get() (event_stream.py:234).
LEMMA TakeNewest ==
  ASSUME TypeOK, NEW m, NewestAre(m), Delivers
  PROVE  NewestAre(Less(m))'
<1>1. /\ items \in Seq(Items) /\ received \in Nat /\ m \in Nat /\ EndsWith(items, m, received)
      /\ reader \in Publishing => m = Len(items)
      /\ items # <<>> /\ items' = Tail(items) /\ UNCHANGED <<received, reader>>
  BY DEF Delivers, Take, NewestAre, TypeOK
<1>2. Less(m) \in Nat
  BY <1>1 DEF Less
<1>3. EndsWith(items', Less(m), received') /\ Len(items') = Len(items) - 1
  BY <1>1, TailEnds
<1>4. m = Len(items) => Less(m) = Len(items')
  BY <1>1, <1>3 DEF Less
<1> QED BY <1>1, <1>2, <1>3, <1>4 DEF NewestAre

NewestInv == \E m \in Nat : NewestAre(m)

LEMMA TerminalItems == ~IsEvent(ClosedItem) /\ \A e \in Errors : ~IsEvent(ErrorItem(e))
BY ItemLemma

LEMMA EffectNewest ==
  ASSUME TypeOK, NewestInv, Effect
  PROVE  NewestInv'
<1>1. PICK m \in Nat : NewestAre(m)
  BY DEF NewestInv
<1>2. ASSUME NEW k, NewestAre(k)' PROVE NewestInv'
  BY <1>2 DEF NewestInv, NewestAre
<1>3. CASE Quiet
  BY <1>1, <1>2, <1>3 DEF Quiet, NewestAre
<1>4. CASE Delivers
  BY <1>1, <1>2, <1>4, TakeNewest
<1>5. CASE AcceptsEvent
  BY <1>1, <1>2, <1>5, AcceptNewest
<1>6. CASE CloseAnnounces
  BY <1>1, <1>2, <1>6, AnnounceNewest, TerminalItems DEF CloseAnnounces
<1>7. ASSUME NEW e \in Errors, ReaderAnnounces(e) PROVE NewestInv'
  BY <1>1, <1>2, <1>7, AnnounceNewest, TerminalItems DEF ReaderAnnounces
<1> QED BY <1>3, <1>4, <1>5, <1>6, <1>7 DEF Effect

LEMMA NewestInvariance == Spec => [](TypeOK /\ LifecycleInv /\ NewestInv)
<1>1. Init => TypeOK /\ LifecycleInv /\ NewestInv
  <2>1. Init => NewestAre(0)
    BY DEF Init, NewestAre, EndsWith
  <2> QED BY <2>1, InitType, InitLifecycle DEF NewestInv
<1>2. (TypeOK /\ LifecycleInv /\ NewestInv) /\ [Next]_vars => (TypeOK /\ LifecycleInv /\ NewestInv)'
  BY StepType, StepLifecycle, StepEffect, EffectNewest
<1> QED BY <1>1, <1>2, PTL DEF Spec

\* Whatever was dropped, the events in the queue are the newest of the wire,
\* without a gap.
THEOREM NewestKept == Spec => []KeepsNewest
<1>1. TypeOK /\ NewestInv => KeepsNewest
  <2> SUFFICES ASSUME TypeOK, NEW m \in Nat, NewestAre(m) PROVE KeepsNewest
    BY DEF NewestInv
  <2> DEFINE events == {i \in 1..Len(items) : IsEvent(items[i])}
  <2>1. /\ Len(items) \in Nat /\ m <= Len(items)
        /\ \A i \in 1..m : IsEvent(items[i]) /\ items[i].seq + m = received + i
        /\ \A i \in (m + 1)..Len(items) : ~IsEvent(items[i])
    BY DEF NewestAre, EndsWith, TypeOK
  <2>2. events = 1..m
    BY <2>1
  <2> HIDE DEF events
  <2>3. Cardinality(events) = m
    <3>1. Cardinality(1..m) = IF 1 > m THEN 0 ELSE (m - 1) + 1
      BY FS_Interval
    <3>2. Cardinality(1..m) = m
      BY <3>1
    <3> QED BY <2>2, <3>2
  <2>4. \A i \in events : items[i].seq + Cardinality(events) = received + i
    BY <2>1, <2>2, <2>3
  <2> QED BY <2>4 DEF KeepsNewest, events
<1> QED BY <1>1, NewestInvariance, PTL

(***************************************************************************)
(* The subscription.  By NewestInv the queue holds the events numbered     *)
(* from received - m + 1 to received, so the pending set is an interval:   *)
(* it has m elements, and its oldest is at the head of the queue.          *)
(***************************************************************************)
Pending   == SeqsOf(items)
Delivered == SeqsOf(taken)
Lost      == dropped \cup discarded
Over      == reader \notin Publishing

\* The subscription's steps, in terms of the stream.
Oldest == CHOOSE n \in Pending : \A k \in Pending : n <= k
Published == received' = received + 1 /\ UNCHANGED <<Delivered, reader>> /\ ~Over
PublishStep ==
  /\ Published
  /\ Cardinality(Pending) < Capacity
  /\ Pending' = Pending \cup {received + 1} /\ Lost' = Lost
PublishOverStep ==
  /\ Published
  /\ Mode = "DROP_OLDEST" /\ Cardinality(Pending) = Capacity
  /\ Pending' = (Pending \ {Oldest}) \cup {received + 1}
  /\ Lost' = Lost \cup {Oldest}
DeliverStep ==
  /\ Pending # {} /\ Pending' = Pending \ {Oldest}
  /\ Delivered' = Delivered \cup {Oldest}
  /\ UNCHANGED <<received, Lost, reader>>
LoseStep ==
  /\ Pending # {} /\ Pending' = Pending \ {Oldest}
  /\ Lost' = Lost \cup {Oldest}
  /\ UNCHANGED <<received, Delivered>>
NoStep == UNCHANGED <<received, Pending, Delivered, Lost>>

\* The instance has a Cardinality of its own.
LEMMA SameCardinality == ASSUME NEW S PROVE Subscription!Cardinality(S) = Cardinality(S)
BY DEF Cardinality, Subscription!Cardinality

\* They are its steps.
LEMMA AbstractSteps ==
  /\ PublishStep \/ PublishOverStep \/ DeliverStep => Subscription!Next
  /\ (LoseStep \/ NoStep) /\ Over' => [Subscription!Next]_(Subscription!vars)
  /\ NoStep /\ (Over' <=> Over) => [Subscription!Next]_(Subscription!vars)
<1> USE DEF Pending, Delivered, Lost, Over, Publishing
<1>1. Subscription!Oldest = Oldest
  BY DEF Oldest, Subscription!Oldest
<1>2. PublishStep => Subscription!Publish
  BY SameCardinality DEF PublishStep, Published, Subscription!Publish
<1>3. PublishOverStep => Subscription!PublishOverOldest
  BY <1>1, SameCardinality DEF PublishOverStep, Published, Subscription!PublishOverOldest
<1>4. DeliverStep => Subscription!Deliver
  BY <1>1 DEF DeliverStep, Subscription!Deliver
<1>5. LoseStep => Subscription!LoseOldest
  BY <1>1 DEF LoseStep, Subscription!LoseOldest
<1>6. LoseStep /\ Over' => Subscription!EndOverOldest \/ Subscription!AnnounceAgain
  BY <1>5 DEF Subscription!EndOverOldest, Subscription!AnnounceAgain
<1>7. NoStep /\ Over' /\ ~Over => Subscription!End
  BY DEF NoStep, Subscription!End
<1>8. NoStep /\ (Over' <=> Over) => UNCHANGED Subscription!vars
  BY DEF NoStep, Subscription!vars
<1> HIDE DEF Pending, Delivered, Lost, Over
<1>9. PublishStep \/ PublishOverStep \/ DeliverStep => Subscription!Next
  BY <1>2, <1>3, <1>4 DEF Subscription!Next
<1>10. (LoseStep \/ NoStep) /\ Over' => Subscription!Next \/ UNCHANGED Subscription!vars
  BY <1>6, <1>7, <1>8 DEF Subscription!Next
<1>11. NoStep /\ (Over' <=> Over) => UNCHANGED Subscription!vars
  BY <1>8
<1> QED BY <1>9, <1>10, <1>11

(***************************************************************************)
(* What the queue and the history say of the subscription.                 *)
(***************************************************************************)
\* The events of a queue of which m are left of the first n.
LEMMA EndsWithInterval ==
  ASSUME NEW q \in Seq(Items), NEW m \in Nat, NEW n \in Nat, EndsWith(q, m, n)
  PROVE  SeqsOf(q) = (n - m + 1)..n
<1>1. Len(q) \in Nat /\ \A i \in 1..Len(q) : q[i] \in Items
  OBVIOUS
<1>2. /\ m <= Len(q)
      /\ \A i \in 1..m : IsEvent(q[i]) /\ q[i].seq + m = n + i
      /\ \A i \in (m + 1)..Len(q) : ~IsEvent(q[i])
  BY DEF EndsWith
<1>3. {j \in 1..Len(q) : IsEvent(q[j])} = 1..m
  BY <1>1, <1>2
<1>4. ASSUME NEW i \in 1..m PROVE q[i].seq = n - m + i
  <2>1. q[i].seq \in Nat
    BY <1>1, <1>2 DEF Items
  <2>2. q[i].seq + m = n + i
    BY <1>2
  <2> QED BY <2>1, <2>2
<1>5. ASSUME NEW k \in (n - m + 1)..n PROVE k \in {q[i].seq : i \in 1..m}
  <2>1. k - (n - m) \in 1..m /\ n - m + (k - (n - m)) = k
    OBVIOUS
  <2> QED BY <1>4, <2>1
<1>6. ASSUME NEW k \in {q[i].seq : i \in 1..m} PROVE k \in (n - m + 1)..n
  <2>1. PICK i \in 1..m : k = q[i].seq
    OBVIOUS
  <2> QED BY <1>4, <2>1
<1> QED BY <1>3, <1>5, <1>6 DEF SeqsOf

\* An interval as a pending set.
LEMMA IntervalLemma ==
  ASSUME NEW m \in Nat, NEW n \in Nat, Pending = (n - m + 1)..n
  PROVE  /\ Cardinality(Pending) = m
         /\ m # 0 => Oldest = n - m + 1 /\ Pending # {}
<1>1. Cardinality(Pending) = m
  <2>1. /\ n - m + 1 \in Int
        /\ Cardinality((n - m + 1)..n) = IF n - m + 1 > n THEN 0 ELSE (n - (n - m + 1)) + 1
    BY FS_Interval
  <2>2. (IF n - m + 1 > n THEN 0 ELSE (n - (n - m + 1)) + 1) = m
    OBVIOUS
  <2> QED BY <2>1, <2>2
<1>2. ASSUME m # 0 PROVE Oldest = n - m + 1 /\ Pending # {}
  <2>1. n - m + 1 \in Pending /\ \A k \in Pending : n - m + 1 <= k
    BY <1>2
  <2>2. \A i \in Pending : (\A k \in Pending : i <= k) => i = n - m + 1
    BY <2>1
  <2> QED BY <2>1, <2>2 DEF Oldest
<1> QED BY <1>1, <1>2

\* What was delivered grows by the item a get() returns, if it is an event.
LEMMA DeliveredLemma ==
  ASSUME NEW s \in Seq(Items), NEW x
  PROVE  SeqsOf(Append(s, x)) = SeqsOf(s) \cup (IF IsEvent(x) THEN {x.seq} ELSE {})
<1> DEFINE r == Append(s, x)
<1>1. /\ Len(s) \in Nat /\ Len(r) = Len(s) + 1 /\ r[Len(s) + 1] = x
      /\ \A i \in 1..Len(s) : r[i] = s[i]
  OBVIOUS
<1> HIDE DEF r
<1>2. \A k : k \in SeqsOf(r) <=> \E i \in 1..Len(r) : IsEvent(r[i]) /\ k = r[i].seq
  BY DEF SeqsOf
<1>3. \A k : k \in SeqsOf(s) <=> \E i \in 1..Len(s) : IsEvent(s[i]) /\ k = s[i].seq
  BY DEF SeqsOf
<1>4. ASSUME NEW k, NEW i \in 1..Len(s), IsEvent(s[i]), k = s[i].seq PROVE k \in SeqsOf(r)
  BY <1>1, <1>2, <1>4
<1>5. IsEvent(x) => x.seq \in SeqsOf(r)
  BY <1>1, <1>2
<1>6. ASSUME NEW k, NEW i \in 1..Len(r), IsEvent(r[i]), k = r[i].seq
      PROVE  k \in SeqsOf(s) \/ (IsEvent(x) /\ k = x.seq)
  <2>1. CASE i = Len(s) + 1
    BY <1>1, <1>6, <2>1
  <2>2. CASE i # Len(s) + 1
    <3>1. i \in 1..Len(s)
      BY <1>1, <2>2
    <3> QED BY <1>1, <1>3, <1>6, <3>1
  <2> QED BY <2>1, <2>2
<1>7. SeqsOf(r) = SeqsOf(s) \cup (IF IsEvent(x) THEN {x.seq} ELSE {})
  BY <1>2, <1>3, <1>4, <1>5, <1>6, Zenon
<1> QED BY <1>7 DEF r

(***************************************************************************)
(* The steps.                                                              *)
(***************************************************************************)
LEMMA PendingInterval ==
  ASSUME TypeOK, NEW m, NewestAre(m)
  PROVE  /\ m \in Nat /\ received \in Nat /\ items \in Seq(Items)
         /\ Pending = (received - m + 1)..received
         /\ Cardinality(Pending) = m
         /\ m # 0 => Oldest = received - m + 1 /\ Pending # {}
         /\ items # <<>> => (IsEvent(Head(items)) <=> m # 0)
         /\ m # 0 => items # <<>> /\ Head(items).seq = received - m + 1
<1>1. /\ m \in Nat /\ received \in Nat /\ items \in Seq(Items) /\ Len(items) \in Nat
      /\ EndsWith(items, m, received)
  BY DEF NewestAre, TypeOK
<1>2. Pending = (received - m + 1)..received
  BY <1>1, EndsWithInterval DEF Pending
<1>3. /\ m <= Len(items)
      /\ \A i \in 1..m : IsEvent(items[i]) /\ items[i].seq + m = received + i
      /\ \A i \in (m + 1)..Len(items) : ~IsEvent(items[i])
  BY <1>1 DEF EndsWith
<1>4. items # <<>> => Head(items) = items[1] /\ Head(items) \in Items /\ Len(items) >= 1
  BY <1>1
<1>5. m # 0 => items # <<>>
  BY <1>1, <1>3
<1>6. items # <<>> => (IsEvent(Head(items)) <=> m # 0)
  BY <1>1, <1>3, <1>4
<1>7. ASSUME m # 0 PROVE Head(items).seq = received - m + 1
  <2> DEFINE s == Head(items).seq
  <2>1. 1 \in 1..m /\ s + m = received + 1
    BY <1>1, <1>3, <1>4, <1>5, <1>7
  <2>2. s \in Nat
    BY <1>4, <1>5, <1>7 DEF Items
  <2> HIDE DEF s
  <2>3. s = received - m + 1
    BY <1>1, <2>1, <2>2
  <2> QED BY <2>3 DEF s
<1> QED BY <1>1, <1>2, <1>5, <1>6, <1>7, IntervalLemma

LEMMA DeliverRefines ==
  ASSUME TypeOK, TypeOK', NEW m, NewestAre(m), Delivers
  PROVE  DeliverStep \/ (NoStep /\ (Over' <=> Over))
<1>1. /\ items # <<>> /\ taken' = Append(taken, Head(items)) /\ taken \in Seq(Items)
      /\ UNCHANGED <<received, dropped, discarded, reader>>
  BY DEF Delivers, Take, TypeOK
<1>2. /\ m \in Nat /\ received \in Nat /\ Pending = (received - m + 1)..received
      /\ m # 0 => Oldest = received - m + 1 /\ Pending # {} /\ Head(items).seq = received - m + 1
      /\ IsEvent(Head(items)) <=> m # 0
  BY <1>1, PendingInterval
<1>3. NewestAre(Less(m))'
  BY TakeNewest
<1>4. Pending' = (received - Less(m) + 1)..received
  BY <1>1, <1>3, PendingInterval, EndsWithInterval DEF NewestAre, Pending, TypeOK
<1>5. Delivered' = Delivered \cup (IF IsEvent(Head(items)) THEN {Head(items).seq} ELSE {})
  BY <1>1, DeliveredLemma DEF Delivered
<1>6. CASE m = 0
  <2>1. NoStep
    BY <1>1, <1>2, <1>4, <1>5, <1>6 DEF NoStep, Lost, Less
  <2> QED BY <1>1, <2>1 DEF Over
<1>7. CASE m # 0
  <2>1. Pending' = Pending \ {Oldest}
    BY <1>2, <1>4, <1>7 DEF Less
  <2>2. Delivered' = Delivered \cup {Oldest}
    BY <1>2, <1>5, <1>7
  <2> QED BY <1>1, <1>2, <1>7, <2>1, <2>2 DEF DeliverStep, Lost
<1> QED BY <1>6, <1>7

LEMMA AcceptRefines ==
  ASSUME TypeOK, TypeOK', NEW m, NewestAre(m), AcceptsEvent
  PROVE  PublishStep \/ PublishOverStep
<1>1. Published /\ received' = received + 1 /\ discarded' = discarded /\ m = Len(items)
  BY DEF AcceptsEvent, Published, Delivered, Over, Publishing, NewestAre
<1>2. /\ m \in Nat /\ received \in Nat /\ Pending = (received - m + 1)..received
      /\ m # 0 => Oldest = received - m + 1 /\ Head(items).seq = received - m + 1
      /\ Cardinality(Pending) = m
  BY PendingInterval
<1>3. IF Full THEN NewestAre(m)' ELSE NewestAre(m + 1)'
  BY AcceptNewest
<1>4. ASSUME NEW k \in Nat, NewestAre(k)' PROVE Pending' = (received' - k + 1)..received'
  BY <1>4, EndsWithInterval DEF NewestAre, Pending, TypeOK
<1>5. CASE ReaderEnqueues
  <2>1. ~Full /\ dropped' = dropped
    BY <1>5 DEF ReaderEnqueues
  <2>2. Pending' = (received' - (m + 1) + 1)..received'
    BY <1>2, <1>3, <1>4, <2>1
  <2>3. Pending' = Pending \cup {received + 1}
    BY <1>1, <1>2, <2>2
  <2>4. Cardinality(Pending) < Capacity
    BY <1>1, <1>2, <2>1, CapacityAssumption DEF Full
  <2> QED BY <1>1, <2>1, <2>3, <2>4 DEF PublishStep, Lost
<1>6. CASE ReaderDropsOldest
  <2>1. Full /\ Mode = "DROP_OLDEST" /\ dropped' = dropped \cup {Head(items).seq}
    BY <1>6 DEF ReaderDropsOldest
  <2>2. Cardinality(Pending) = Capacity /\ m # 0
    BY <1>1, <1>2, <2>1, CapacityAssumption DEF Full, TypeOK
  <2>3. Pending' = (received' - m + 1)..received'
    BY <1>2, <1>3, <1>4, <2>1
  <2>4. Pending' = (Pending \ {Oldest}) \cup {received + 1}
    <3>1. m \in Nat \ {0} /\ received \in Nat /\ received' = received + 1
      BY <1>1, <1>2, <2>2
    <3>2. ASSUME NEW n \in Nat, NEW k \in Nat \ {0}
          PROVE  (n + 1 - k + 1)..(n + 1) = ((n - k + 1)..n \ {n - k + 1}) \cup {n + 1}
      OBVIOUS
    <3>3. Pending' = (received + 1 - m + 1)..(received + 1)
      BY <2>3, <3>1
    <3>4. Pending \ {Oldest} = (received - m + 1)..received \ {received - m + 1}
      BY <1>2, <2>2
    <3> QED BY <3>1, <3>2, <3>3, <3>4
  <2>5. Lost' = Lost \cup {Oldest}
    BY <1>1, <1>2, <2>1, <2>2 DEF Lost
  <2> QED BY <1>1, <2>1, <2>2, <2>4, <2>5 DEF PublishOverStep
<1> QED BY <1>5, <1>6 DEF AcceptsEvent

LEMMA AnnounceRefines ==
  ASSUME TypeOK, TypeOK', NEW m, NewestAre(m), NEW x, ~IsEvent(x), Announces(x)
  PROVE  (LoseStep \/ NoStep) /\ Over'
<1>1. /\ received' = received /\ dropped' = dropped /\ Delivered' = Delivered /\ Over'
      /\ discarded' = IF Full /\ IsEvent(Head(items))
                      THEN discarded \cup {Head(items).seq} ELSE discarded
  BY DEF Announces, EnqueueTerminal, Delivered, Over
<1>2. /\ m \in Nat /\ received \in Nat /\ Pending = (received - m + 1)..received
      /\ m # 0 => Oldest = received - m + 1 /\ Pending # {} /\ Head(items).seq = received - m + 1
      /\ items # <<>> => (IsEvent(Head(items)) <=> m # 0)
  BY PendingInterval
<1>3. IF Full THEN NewestAre(Less(m))' ELSE NewestAre(m)'
  BY AnnounceNewest
<1>4. ASSUME NEW k \in Nat, NewestAre(k)' PROVE Pending' = (received' - k + 1)..received'
  BY <1>4, EndsWithInterval DEF NewestAre, Pending, TypeOK
<1>5. CASE Full /\ m # 0
  <2>1. Less(m) \in Nat /\ Less(m) = m - 1
    BY <1>2, <1>5 DEF Less
  <2>2. Pending' = (received' - (m - 1) + 1)..received'
    BY <1>3, <1>4, <1>5, <2>1
  <2>3. Pending' = Pending \ {Oldest}
    BY <1>1, <1>2, <1>5, <2>2
  <2>4. Lost' = Lost \cup {Oldest}
    BY <1>1, <1>2, <1>5, FullLemma DEF Lost
  <2> QED BY <1>1, <1>2, <1>5, <2>3, <2>4 DEF LoseStep
<1>6. CASE ~(Full /\ m # 0)
  <2>1. NewestAre(m)'
    BY <1>2, <1>3, <1>6 DEF Less
  <2>2. Pending' = Pending
    BY <1>1, <1>2, <1>4, <2>1
  <2>3. discarded' = discarded
    BY <1>1, <1>2, <1>6, FullLemma
  <2> QED BY <1>1, <2>2, <2>3 DEF NoStep, Lost
<1> QED BY <1>5, <1>6

\* Every step of the stream is a step of the subscription, or none.
LEMMA StepRefines ==
  TypeOK /\ TypeOK' /\ LifecycleInv /\ NewestInv /\ [Next]_vars
    => [Subscription!Next]_(Subscription!vars)
<1> SUFFICES ASSUME TypeOK, TypeOK', LifecycleInv, NewestInv, [Next]_vars
             PROVE  [Subscription!Next]_(Subscription!vars)
  OBVIOUS
<1>1. PICK m \in Nat : NewestAre(m)
  BY DEF NewestInv
<1>2. Effect
  BY StepEffect
<1>3. CASE Quiet
  <2>1. NoStep /\ (Over' \/ (Over' <=> Over))
    BY <1>3 DEF Quiet, NoStep, Over, Pending, Delivered, Lost
  <2> QED BY <2>1, AbstractSteps
<1>4. CASE Delivers
  BY <1>1, <1>4, DeliverRefines, AbstractSteps
<1>5. CASE AcceptsEvent
  BY <1>1, <1>5, AcceptRefines, AbstractSteps
<1>6. CASE CloseAnnounces
  BY <1>1, <1>6, AnnounceRefines, AbstractSteps, TerminalItems DEF CloseAnnounces
<1>7. ASSUME NEW e \in Errors, ReaderAnnounces(e) PROVE [Subscription!Next]_(Subscription!vars)
  BY <1>1, <1>7, AnnounceRefines, AbstractSteps, TerminalItems DEF ReaderAnnounces
<1> QED BY <1>2, <1>3, <1>4, <1>5, <1>6, <1>7 DEF Effect

LEMMA InitRefines == Init => Subscription!Init
<1> SUFFICES ASSUME Init PROVE Subscription!Init
  OBVIOUS
<1>1. SeqsOf(<<>>) = {}
  BY DEF SeqsOf
<1> QED BY <1>1 DEF Init, Subscription!Init

\* Whatever its tasks do, and however they interleave, the stream is a bounded,
\* ordered subscription that loses its oldest events only.
THEOREM StreamImplementsSubscription == Spec => ImplementsSubscription
<1>1. (TypeOK /\ LifecycleInv /\ NewestInv) /\ (TypeOK /\ LifecycleInv /\ NewestInv)' /\ [Next]_vars
        => [Subscription!Next]_(Subscription!vars)
  BY StepRefines
<1> QED BY <1>1, NewestInvariance, InitRefines, PTL DEF Spec, ImplementsSubscription, Subscription!Spec

(***************************************************************************)
(* What a stream with one consumer tells it at the end.                    *)
(***************************************************************************)
OneConsumer == \A c, d \in Consumers : c = d

\* A woken consumer finds an item, and the terminal event comes with a wake-up.
ParkedInv ==
  /\ woken # {} => items # <<>>
  /\ terminalEvent => waiters = <<>>

LEMMA AboveOne == \A n \in Nat : n >= 1 /\ n # 1 => 2 \in 1..n
OBVIOUS

\* Where there is one consumer, it is parked or woken.
LEMMA OneWaits ==
  ASSUME OneConsumer, TypeOK, WaitersDistinct, waiters # <<>>
  PROVE  woken = {} /\ Tail(waiters) = <<>>
<1>1. waiters \in Seq(Consumers) /\ woken \subseteq Consumers
  BY DEF TypeOK
<1>2. 1 \in 1..Len(waiters) /\ waiters[1] \in Consumers
  BY <1>1
<1>3. woken = {}
  BY <1>1, <1>2 DEF OneConsumer, WaitersDistinct
<1>4. Len(waiters) = 1
  <2>1. ASSUME Len(waiters) # 1 PROVE FALSE
    <3>1. Len(waiters) \in Nat /\ Len(waiters) >= 1
      BY <1>1, <1>2
    <3>2. 2 \in 1..Len(waiters)
      BY <2>1, <3>1, AboveOne
    <3>3. waiters[2] \in Consumers
      BY <1>1, <3>2
    <3> QED BY <1>2, <3>2, <3>3 DEF OneConsumer, WaitersDistinct
  <2> QED BY <2>1
<1>5. Tail(waiters) \in Seq(Consumers) /\ Len(Tail(waiters)) = 0
  BY <1>1, <1>2, <1>4
<1> QED BY <1>3, <1>5, EmptySeq

\* A put leaves nobody parked.
LEMMA PutUnparks ==
  ASSUME OneConsumer, TypeOK, WaitersDistinct, NEW q \in Seq(Items), NEW x \in Items, Put(q, x)
  PROVE  waiters' = <<>> /\ items' # <<>>
<1>1. waiters' = <<>>
  BY OneWaits DEF Put, WakeNext
<1>2. Len(items') = Len(q) + 1 /\ Len(q) \in Nat
  BY DEF Put
<1> QED BY <1>1, <1>2, EmptySeq

LEMMA AnnouncementUnparks ==
  ASSUME OneConsumer, TypeOK, WaitersDistinct, NEW x \in Items, EnqueueTerminal(x)
  PROVE  waiters' = <<>> /\ items' # <<>>
BY PutUnparks, FullLemma DEF EnqueueTerminal, TypeOK

\* The reader and close() leave the queue and the terminal event alone, or put
\* an item (event_stream.py:126-207, 267-293).
LEMMA ProducersUnpark ==
  ASSUME OneConsumer, WakeupInv, ReaderStep \/ \E k \in Closers : CloserStep(k)
  PROVE  UNCHANGED <<queueVars, terminalEvent>> \/ (waiters' = <<>> /\ items' # <<>>)
<1> USE DEF connVars, signalVars, queueVars, historyVars
<1>1. TypeOK /\ WaitersDistinct /\ items \in Seq(Items) /\ received \in Nat
  BY DEF WakeupInv, TypeOK
<1>2. \A x \in Items : EnqueueTerminal(x) => waiters' = <<>> /\ items' # <<>>
  BY <1>1, AnnouncementUnparks
<1>3. CASE ReaderStep
  <2>1. ASSUME NEW e \in Errors, NEW c, ReaderFails(e, c) PROVE waiters' = <<>> /\ items' # <<>>
    BY <1>2, <2>1, ItemLemma DEF ReaderFails
  <2>2. CASE ReaderEnqueues \/ ReaderDropsOldest
    <3>1. EventItem(received + 1) \in Items
      BY <1>1, ItemLemma
    <3> QED BY <1>1, <2>2, <3>1, FullLemma, PutUnparks DEF ReaderEnqueues, ReaderDropsOldest, Publishes
  <2>3. CASE ReaderFinishes
    BY <1>2, <2>3, ItemLemma DEF ReaderFinishes
  <2>4. CASE ReaderStarts \/ ReaderUnwinds \/ ReaderAborts
    BY <2>4 DEF ReaderStarts, ReaderUnwinds, ReaderAborts
  <2> QED
    BY <1>3, <2>1, <2>2, <2>3, <2>4, ErrorOfLemma
       DEF ReaderStep, ReaderReadFails, ReaderDecodeFails, ReaderOverflows, Errors
<1>4. ASSUME NEW k \in Closers, CloserStep(k)
      PROVE  UNCHANGED <<queueVars, terminalEvent>> \/ (waiters' = <<>> /\ items' # <<>>)
  BY <1>2, <1>4, ItemLemma
     DEF CloserStep, CloseNoop, CloseCancelsReader, CloseWithoutReader, CloseResumes,
         CloseFinishes, CloseCancelled, CloseStream, CloseEnds
<1> QED BY <1>3, <1>4

LEMMA StepParked ==
  ASSUME OneConsumer, WakeupInv, ParkedInv, [Next]_vars
  PROVE  ParkedInv'
<1> USE DEF ParkedInv, connVars, signalVars, queueVars, historyVars
<1>1. TypeOK /\ WaitersDistinct
  BY DEF WakeupInv
<1>2. UNCHANGED <<queueVars, terminalEvent>> => ParkedInv'
  OBVIOUS
<1>3. CASE ConnectStep \/ SocketReleased \/ UNCHANGED vars
  BY <1>2, <1>3
     DEF ConnectStep, Connect, ConnectRefused, ConnectOpens, BootstrapFails, BootstrapCleanedUp,
         BootstrapSucceeds, ConnectCancelled, streamVars, ConnectFails, SocketReleased, vars
<1>4. CASE ReaderStep \/ \E k \in Closers : CloserStep(k)
  BY <1>2, <1>4, ProducersUnpark
<1>5. ASSUME NEW c \in Consumers, ConsumerStep(c) PROVE ParkedInv'
  <2>1. CASE NextRejected(c)
    BY <2>1 DEF NextRejected, nextFrame, RejectedWith
  <2>2. CASE NextTakes(c)
    <3>1. woken = {}
      BY <1>1, <2>2 DEF NextTakes, IsIdle, OneConsumer, TypeOK
    <3> QED BY <2>2, <3>1 DEF NextTakes, Take, nextFrame
  <2>3. CASE NextParks(c)
    BY <2>3 DEF NextParks, Park, Rejected, nextFrame
  <2>4. CASE NextResumes(c)
    <3>1. woken' = {}
      BY <1>1, <2>4 DEF NextResumes, OneConsumer, TypeOK
    <3> QED BY <2>4, <3>1 DEF NextResumes, Take, nextFrame
  <2>5. CASE NextParksAgain(c)
    BY <2>5 DEF NextParksAgain, Park
  <2>6. CASE NextAbandoned(c)
    <3>1. CASE waiters = <<>>
      <4>1. c \in woken /\ waiters' = <<>> /\ woken' = woken \ {c} /\ UNCHANGED <<items, terminalEvent>>
        <5>1. Len(waiters) = 0
          BY <3>1, EmptySeq, Zenon
        <5>2. ~\E i \in 1..Len(waiters) : waiters[i] = c
          BY <5>1
        <5> QED BY <2>6, <3>1, <5>2 DEF NextAbandoned, WakeNext, nextFrame
      <4> QED BY <4>1
    <3>2. CASE waiters # <<>>
      <4>1. woken = {}
        BY <1>1, <3>2, OneWaits
      <4>2. woken' = {} /\ ~terminalEvent'
        BY <2>6, <3>2, <4>1 DEF NextAbandoned, nextFrame
      <4> QED BY <4>2
    <3> QED BY <3>1, <3>2
  <2> QED BY <1>5, <2>1, <2>2, <2>3, <2>4, <2>5, <2>6 DEF ConsumerStep
<1> QED BY <1>3, <1>4, <1>5 DEF Next

\* However the stream ends, a single consumer is not left in get(): whatever
\* sets the terminal event has put an item, and no later get() parks.  (A second
\* consumer can be: the put wakes one.)
THEOREM TerminalUnparks ==
  ASSUME OneConsumer
  PROVE  Spec => []NobodyParkedAfterTerminal
<1>1. Init => WakeupInv /\ ParkedInv
  <2>1. Init => ParkedInv
    BY DEF Init, ParkedInv
  <2> QED BY <2>1, InitWakeup
<1>2. (WakeupInv /\ ParkedInv) /\ [Next]_vars => (WakeupInv /\ ParkedInv)'
  BY StepWakeup, StepParked
<1>3. ParkedInv => NobodyParkedAfterTerminal
  BY DEF ParkedInv, NobodyParkedAfterTerminal
<1> QED BY <1>1, <1>2, <1>3, PTL DEF Spec

\* The error item carries the cause, closed items come last, and what the
\* consumer was told agrees with the cause.  A consumer that was woken before
\* the failure finds the error item in front of it: those who are still in
\* close() are too few to push it out of the queue.
ErrorAhead ==
  \E p \in 1..Len(items) :
    /\ items[p].kind = "error" /\ \A i \in 1..(p - 1) : items[i].kind # "closed"
    /\ Cardinality(StillClosing) + (Len(items) - p) < Capacity

KindsInv ==
  /\ terminalEvent => reader \notin Publishing
  /\ \A i \in 1..Len(items) : items[i].kind = "error" => items[i].cause = terminalCause
  /\ \A i \in 1..Len(items) : items[i].kind = "closed" => lifecycle = "CLOSED"

ReportsInv ==
  \A c \in Consumers :
    /\ outcome[c] = "closed" => terminalCause = None /\ reader \notin Publishing
    /\ outcome[c] \in Errors => outcome[c] = terminalCause

AheadInv == terminalCause # None /\ woken # {} => ErrorAhead

\* What the forced put leaves in the queue.
LEMMA AnnouncedItems ==
  ASSUME TypeOK, NEW x \in Items, EnqueueTerminal(x)
  PROVE  /\ items' = Append(IF Full THEN Tail(items) ELSE items, x)
         /\ Len(items') = IF Full THEN Len(items) ELSE Len(items) + 1
         /\ Len(items') \in Nat /\ Len(items') >= 1 /\ items'[Len(items')] = x
         /\ \A i \in 1..(Len(items') - 1) :
              items'[i] = items[IF Full THEN i + 1 ELSE i] /\ (IF Full THEN i + 1 ELSE i) \in 1..Len(items)
<1>1. items \in Seq(Items) /\ Len(items) \in Nat
  BY DEF TypeOK
<1>2. items' = Append(IF Full THEN Tail(items) ELSE items, x)
  BY DEF EnqueueTerminal, Put
<1>3. CASE Full
  <2>1. /\ Tail(items) \in Seq(Items) /\ Len(Tail(items)) = Len(items) - 1 /\ Len(items) >= 1
        /\ \A i \in 1..(Len(items) - 1) : Tail(items)[i] = items[i + 1]
    BY <1>1, <1>3, FullLemma
  <2> QED BY <1>1, <1>2, <1>3, <2>1
<1>4. CASE ~Full
  BY <1>1, <1>2, <1>4
<1> QED BY <1>2, <1>3, <1>4

\* While the reader can still publish, the queue holds nothing but events.
LEMMA EventsOfLog ==
  ASSUME NEW t \in Seq(Items), NEW q \in Seq(Items), \A i \in 1..Len(t \o q) : IsEvent((t \o q)[i])
  PROVE  \A i \in 1..Len(q) : q[i].kind = "event"
<1>1. /\ Len(t \o q) = Len(t) + Len(q)
      /\ \A i \in 1..Len(t \o q) : (t \o q)[i] = IF i <= Len(t) THEN t[i] ELSE q[i - Len(t)]
  BY ConcatLemma, Zenon
<1>2. ASSUME NEW i \in 1..Len(q) PROVE q[i].kind = "event"
  <2>1. Len(t) + i \in 1..Len(t \o q) /\ (t \o q)[Len(t) + i] = q[i]
    BY <1>1
  <2> QED BY <2>1 DEF IsEvent
<1> QED BY <1>2

LEMMA OnlyEvents ==
  ASSUME TypeOK, LogInv, reader \in Publishing
  PROVE  \A i \in 1..Len(items) : items[i].kind = "event"
BY EventsOfLog DEF TypeOK, LogInv, Log, Publishing

LEMMA OnlyEventsNext ==
  ASSUME TypeOK', LogInv', reader' \in Publishing
  PROVE  \A i \in 1..Len(items') : items'[i].kind = "event"
BY EventsOfLog DEF TypeOK, LogInv, Log, Publishing

LEMMA EffectKinds ==
  ASSUME TypeOK, TypeOK', LogInv, LogInv', FailureInv, KindsInv, Effect
  PROVE  KindsInv'
<1>1. items \in Seq(Items) /\ Len(items) \in Nat
  BY DEF TypeOK
<1>2. CASE Quiet
  BY <1>2 DEF Quiet, KindsInv
<1>3. CASE Delivers
  <2>1. /\ Len(items') = Len(items) - 1
        /\ \A i \in 1..(Len(items) - 1) : items'[i] = items[i + 1] /\ i + 1 \in 1..Len(items)
    BY <1>1, <1>3 DEF Delivers, Take
  <2> QED BY <1>3, <2>1 DEF Delivers, KindsInv
<1>4. CASE AcceptsEvent
  <2>1. /\ reader' \in Publishing /\ UNCHANGED <<terminalEvent, reader>>
    BY <1>4 DEF AcceptsEvent, Publishing
  <2>2. \A i \in 1..Len(items') : items'[i].kind = "event"
    BY <2>1, OnlyEventsNext
  <2> QED BY <2>1, <2>2 DEF KindsInv
<1>5. CASE CloseAnnounces
  <2>1. /\ EnqueueTerminal(ClosedItem) /\ lifecycle' = "CLOSED" /\ terminalCause' = terminalCause
        /\ reader' \notin Publishing
    BY <1>5 DEF CloseAnnounces, Announces, SignalTerminal
  <2>2. ASSUME NEW i \in 1..Len(items'), items'[i].kind = "error"
        PROVE  items'[i].cause = terminalCause
    <3>1. i # Len(items')
      BY <2>1, <2>2, AnnouncedItems, ItemLemma DEF ClosedItem
    <3>2. i \in 1..(Len(items') - 1)
      BY <2>1, <3>1, AnnouncedItems, ItemLemma
    <3> QED BY <2>1, <2>2, <3>2, AnnouncedItems, ItemLemma DEF KindsInv
  <2> QED BY <2>1, <2>2 DEF KindsInv
<1>6. ASSUME NEW e \in Errors, ReaderAnnounces(e) PROVE KindsInv'
  <2>1. /\ EnqueueTerminal(ErrorItem(e)) /\ terminalCause' = e /\ reader' \notin Publishing
        /\ reader \in Publishing
    BY <1>6 DEF ReaderAnnounces, Announces, SignalTerminal, FailureInv, Publishing, Errors, None
  <2>2. ASSUME NEW i \in 1..Len(items')
        PROVE  items'[i] = ErrorItem(e) \/ items'[i].kind = "event"
    <3>1. CASE i = Len(items')
      BY <2>1, <3>1, AnnouncedItems, ItemLemma
    <3>2. CASE i # Len(items')
      <4>1. i \in 1..(Len(items') - 1)
        BY <2>1, <3>2, AnnouncedItems, ItemLemma
      <4> QED BY <2>1, <4>1, AnnouncedItems, ItemLemma, OnlyEvents
    <3> QED BY <3>1, <3>2
  <2>3. ErrorItem(e).kind = "error" /\ ErrorItem(e).cause = e
    BY DEF ErrorItem
  <2> QED BY <2>1, <2>2, <2>3 DEF KindsInv
<1> QED BY <1>2, <1>3, <1>4, <1>5, <1>6 DEF Effect

\* Nothing but a failing reader makes a cause, and no task but a consumer says
\* what next() returned.
LEMMA OthersDoNotReport ==
  ASSUME [Next]_vars, ~\E c \in Consumers : ConsumerStep(c)
  PROVE  UNCHANGED outcome
BY DEF Next, ConnectStep, Connect, ConnectRefused, ConnectOpens, BootstrapFails, BootstrapCleanedUp,
       BootstrapSucceeds, ConnectCancelled, streamVars, ConnectFails, SocketReleased, vars,
       ReaderStep, ReaderStarts, ReaderReadFails, ReaderDecodeFails, ReaderEnqueues, ReaderDropsOldest,
       ReaderOverflows, ReaderUnwinds, ReaderFinishes, ReaderAborts, ReaderFails, Publishes,
       CloserStep, CloseNoop, CloseCancelsReader, CloseWithoutReader, CloseResumes,
       CloseFinishes, CloseCancelled

LEMMA EffectReports ==
  ASSUME TypeOK, FailureInv, ReportsInv, Effect, UNCHANGED outcome
  PROVE  ReportsInv'
<1>1. CASE Quiet \/ Delivers \/ AcceptsEvent \/ CloseAnnounces
  <2>1. terminalCause' = terminalCause /\ (reader' \in Publishing => reader \in Publishing)
    BY <1>1 DEF Quiet, Delivers, AcceptsEvent, CloseAnnounces, Announces, SignalTerminal
  <2> QED BY <2>1 DEF ReportsInv
<1>2. ASSUME NEW e \in Errors, ReaderAnnounces(e) PROVE ReportsInv'
  <2>1. reader \in Publishing /\ terminalCause = None /\ None \notin Errors
    BY <1>2 DEF ReaderAnnounces, FailureInv, Publishing, Errors, None
  <2> QED BY <1>2, <2>1 DEF ReportsInv
<1> QED BY <1>1, <1>2 DEF Effect

\* What one consumer is told (event_stream.py:215-251).
LEMMA ConsumerReports ==
  ASSUME OneConsumer, TypeOK, LifecycleInv, LogInv, WaitersDistinct,
         KindsInv, ReportsInv, AheadInv, NEW c \in Consumers, ConsumerStep(c)
  PROVE  ReportsInv'
<1> USE DEF connVars, signalVars, queueVars, historyVars
<1>1. outcome \in [Consumers -> {None, "event", "closed", "abandoned"} \cup Errors]
      /\ items \in Seq(Items) /\ terminalCause \in Errors \cup {None}
  BY DEF TypeOK
<1>2. UNCHANGED <<terminalCause, reader>>
  BY DEF ConsumerStep, NextRejected, NextTakes, NextParks, NextResumes, NextParksAgain,
         NextAbandoned, Take, Park, RejectedWith, nextFrame
<1>3. ASSUME NEW o, outcome' = [outcome EXCEPT ![c] = o],
             o = "closed" => terminalCause = None /\ reader \notin Publishing,
             o \in Errors => o = terminalCause
      PROVE  ReportsInv'
  BY <1>1, <1>2, <1>3 DEF ReportsInv
<1>4. UNCHANGED outcome => ReportsInv'
  BY <1>2 DEF ReportsInv
<1>5. CASE NextRejected(c)
  <2>1. reader \notin Publishing
    BY <1>5 DEF NextRejected, Rejected, KindsInv, LifecycleInv, ClosedIsQuiescent, Publishing
  <2>2. "closed" \notin Errors
    BY DEF Errors
  <2> QED BY <1>1, <1>3, <1>5, <2>1, <2>2 DEF NextRejected, RejectedWith, None, Errors
<1>6. ASSUME Take(c), items[1].kind = "closed" => terminalCause = None
      PROVE  ReportsInv'
  <2>1. 1 \in 1..Len(items) /\ Head(items) = items[1] /\ items[1] \in Items
    BY <1>1, <1>6 DEF Take
  <2>2. OutcomeOf(items[1]) = "closed" => items[1].kind = "closed"
    BY <2>1 DEF OutcomeOf, Items, Errors, None
  <2>3. OutcomeOf(items[1]) \in Errors => items[1].kind = "error" /\ OutcomeOf(items[1]) = items[1].cause
    BY <2>1 DEF OutcomeOf, Items, Errors, None
  <2>4. items[1].kind = "closed" => reader \notin Publishing
    BY <2>1, OnlyEvents
  <2> QED BY <1>3, <1>6, <2>1, <2>2, <2>3, <2>4 DEF Take, KindsInv
<1>7. CASE NextTakes(c)
  <2>1. Take(c) /\ lifecycle # "CLOSED"
    BY <1>7 DEF NextTakes, Rejected
  <2>2. 1 \in 1..Len(items)
    BY <1>1, <2>1 DEF Take
  <2> QED BY <1>6, <2>1, <2>2 DEF KindsInv
<1>8. CASE NextResumes(c)
  <2>1. Take(c) /\ c \in woken
    BY <1>8 DEF NextResumes
  <2>2. ASSUME terminalCause # None PROVE items[1].kind # "closed"
    <3>1. PICK p \in 1..Len(items) : items[p].kind = "error" /\ \A i \in 1..(p - 1) : items[i].kind # "closed"
      BY <2>1, <2>2 DEF AheadInv, ErrorAhead
    <3>2. Len(items) \in Nat
      BY <1>1
    <3>3. p = 1 \/ 1 \in 1..(p - 1)
      BY <3>1, <3>2
    <3> QED BY <3>1, <3>3
  <2> QED BY <1>6, <2>1, <2>2
<1>9. CASE NextParks(c) \/ NextParksAgain(c)
  BY <1>4, <1>9 DEF NextParks, NextParksAgain, Park
<1>10. CASE NextAbandoned(c)
  <2>1. "abandoned" \notin Errors
    BY DEF Errors
  <2> QED BY <1>3, <1>10, <2>1 DEF NextAbandoned
<1> QED BY <1>5, <1>7, <1>8, <1>9, <1>10 DEF ConsumerStep

\* Once nobody is parked, no step wakes anybody.
LEMMA NobodyToWake ==
  ASSUME OneConsumer, TypeOK, waiters = <<>>, NEW c \in Consumers, ConsumerStep(c)
  PROVE  woken' = {} \/ UNCHANGED <<items, woken>>
<1> USE DEF queueVars
<1>1. c \in woken => woken \ {c} = {}
  BY DEF OneConsumer, TypeOK
<1>2. Len(waiters) = 0
  BY EmptySeq, Zenon
<1>3. ~\E i \in 1..Len(waiters) : waiters[i] = c
  BY <1>2
<1>4. CASE NextTakes(c)
  BY <1>4 DEF NextTakes, IsIdle, OneConsumer, TypeOK
<1>5. CASE NextAbandoned(c)
  BY <1>1, <1>3, <1>5 DEF NextAbandoned, WakeNext
<1> QED
  BY <1>1, <1>4, <1>5
     DEF ConsumerStep, NextRejected, NextParks, NextResumes, NextParksAgain, Take, Park, RejectedWith, nextFrame

\* The reader that has failed leaves the queue alone (event_stream.py:187-207).
LEMMA FailedReaderIsQuiet ==
  ASSUME FailureInv, terminalCause # None, ReaderStep
  PROVE  UNCHANGED <<items, woken, closer, terminalCause>>
<1> USE DEF connVars, signalVars, queueVars, historyVars
<1>1. reader \notin {"scheduled", "reading"}
  BY DEF FailureInv, Publishing
<1> QED
  BY <1>1
     DEF ReaderStep, ReaderStarts, ReaderReadFails, ReaderDecodeFails, ReaderEnqueues, ReaderDropsOldest,
         ReaderOverflows, ReaderUnwinds, ReaderFinishes, ReaderAborts, ReaderFails, Publishes

\* The failure is put last, behind events, and more places follow it than there
\* are closers left; each closer that announces the end is one of them.
LEMMA StepAhead ==
  ASSUME OneConsumer, IsFiniteSet(Closers), Cardinality(Closers) < Capacity,
         TypeOK, LifecycleInv, LogInv, FailureInv, ParkedInv, AheadInv, [Next]_vars
  PROVE  AheadInv'
<1> USE DEF connVars, signalVars, queueVars, historyVars
<1>1. items \in Seq(Items) /\ Len(items) \in Nat /\ Capacity \in Nat
  BY CapacityAssumption DEF TypeOK
<1>2. /\ IsFiniteSet(StillClosing) /\ Cardinality(StillClosing) \in Nat
      /\ Cardinality(StillClosing) < Capacity
  <2>1. StillClosing \subseteq Closers
    BY DEF StillClosing
  <2>2. /\ IsFiniteSet(StillClosing) /\ Cardinality(StillClosing) <= Cardinality(Closers)
        /\ Cardinality(StillClosing) \in Nat /\ Cardinality(Closers) \in Nat
    BY <2>1, FS_Subset, FS_CardinalityType
  <2> QED BY <1>1, <2>2
<1>3. CASE terminalCause = None
  <2>1. Effect
    BY StepEffect
  <2>2. CASE Quiet \/ Delivers \/ AcceptsEvent \/ CloseAnnounces
    BY <1>3, <2>2 DEF Quiet, Delivers, AcceptsEvent, CloseAnnounces, Announces, SignalTerminal, AheadInv
  <2>3. ASSUME NEW e \in Errors, ReaderAnnounces(e) PROVE AheadInv'
    <3>1. EnqueueTerminal(ErrorItem(e)) /\ reader \in Publishing
      BY <2>3 DEF ReaderAnnounces, Announces, Publishing
    <3>2. Cardinality(StillClosing') \in Nat /\ Cardinality(StillClosing') < Capacity
      <4>1. StillClosing' \subseteq Closers
        BY DEF StillClosing
      <4>2. /\ Cardinality(StillClosing') <= Cardinality(Closers)
            /\ Cardinality(StillClosing') \in Nat /\ Cardinality(Closers) \in Nat
        BY <4>1, FS_Subset, FS_CardinalityType
      <4> QED BY <1>1, <4>2
    <3> DEFINE p == Len(items')
    <3>3. p \in 1..Len(items') /\ items'[p].kind = "error"
      BY <3>1, AnnouncedItems, ItemLemma DEF ErrorItem
    <3>4. \A i \in 1..(p - 1) : items'[i].kind # "closed"
      BY <3>1, AnnouncedItems, ItemLemma, OnlyEvents
    <3>5. Cardinality(StillClosing') + (Len(items') - p) < Capacity
      <4>1. Len(items') \in Nat
        BY <3>1, AnnouncedItems, ItemLemma
      <4> QED BY <1>1, <3>2, <4>1
    <3> HIDE DEF p
    <3> QED BY <3>3, <3>4, <3>5 DEF AheadInv, ErrorAhead
  <2> QED BY <2>1, <2>2, <2>3 DEF Effect
<1>4. CASE terminalCause # None
  <2>1. waiters = <<>> /\ terminalEvent
    BY <1>4 DEF LifecycleInv, ParkedInv
  <2>2. ASSUME UNCHANGED <<items, woken, terminalCause>>, StillClosing' \subseteq StillClosing
        PROVE  AheadInv'
    <3>1. Cardinality(StillClosing') \in Nat /\ Cardinality(StillClosing') <= Cardinality(StillClosing)
      BY <1>2, <2>2, FS_Subset, FS_CardinalityType
    <3>2. ErrorAhead => ErrorAhead'
      BY <1>1, <1>2, <2>2, <3>1 DEF ErrorAhead
    <3> QED BY <2>2, <3>2 DEF AheadInv
  <2>3. CASE ConnectStep \/ SocketReleased \/ UNCHANGED vars
    BY <2>2, <2>3
       DEF ConnectStep, Connect, ConnectRefused, ConnectOpens, BootstrapFails, BootstrapCleanedUp,
           BootstrapSucceeds, ConnectCancelled, streamVars, ConnectFails, SocketReleased, vars, StillClosing
  <2>4. CASE ReaderStep
    BY <1>4, <2>2, <2>4, FailedReaderIsQuiet DEF StillClosing
  <2>5. ASSUME NEW c \in Consumers, ConsumerStep(c) PROVE AheadInv'
    <3>1. UNCHANGED <<terminalCause, closer>>
      BY <2>5 DEF ConsumerStep, NextRejected, NextTakes, NextParks, NextResumes, NextParksAgain,
                  NextAbandoned, Take, Park, RejectedWith, nextFrame
    <3> QED BY <2>1, <2>2, <2>5, <3>1, NobodyToWake DEF AheadInv, StillClosing
  <2>6. ASSUME NEW k \in Closers, CloserStep(k) PROVE AheadInv'
    <3>1. CASE Quiet /\ UNCHANGED <<waiters, woken>> /\ StillClosing' \subseteq StillClosing
      BY <2>2, <3>1 DEF Quiet
    <3>2. CASE CloseAnnounces /\ k \in StillClosing /\ StillClosing' = StillClosing \ {k}
      <4>1. EnqueueTerminal(ClosedItem) /\ terminalCause' = terminalCause
        BY <3>2 DEF CloseAnnounces, Announces, SignalTerminal
      <4>2. woken' = woken
        BY <2>1, <4>1 DEF EnqueueTerminal, Put, WakeNext
      <4>3. Cardinality(StillClosing') = Cardinality(StillClosing) - 1
        BY <1>2, <3>2, FS_RemoveElement
      <4> SUFFICES ASSUME woken # {} PROVE ErrorAhead'
        BY <4>2 DEF AheadInv
      <4>4. PICK p \in 1..Len(items) :
              /\ items[p].kind = "error" /\ \A i \in 1..(p - 1) : items[i].kind # "closed"
              /\ Cardinality(StillClosing) + (Len(items) - p) < Capacity
        BY <1>4 DEF AheadInv, ErrorAhead
      <4> DEFINE q == IF Full THEN p - 1 ELSE p
      <4>5. Full => p > 1
        <5>1. Full => Len(items) = Capacity
          BY <1>1 DEF Full, TypeOK
        <5>2. Cardinality(StillClosing) >= 1
          BY <1>2, <3>2, FS_EmptySet
        <5> QED BY <1>1, <1>2, <4>4, <5>1, <5>2
      <4>6. q \in 1..(Len(items') - 1) /\ items'[q] = items[p]
        <5>1. /\ Len(items') = IF Full THEN Len(items) ELSE Len(items) + 1
              /\ \A i \in 1..(Len(items') - 1) : items'[i] = items[IF Full THEN i + 1 ELSE i]
          BY <4>1, AnnouncedItems, ItemLemma
        <5>2. q \in 1..(Len(items') - 1) /\ (IF Full THEN q + 1 ELSE q) = p
          BY <1>1, <4>5, <5>1
        <5> HIDE DEF q
        <5> QED BY <5>1, <5>2
      <4>7. ASSUME NEW i \in 1..(q - 1) PROVE items'[i].kind # "closed"
        BY <1>1, <4>1, <4>4, <4>5, <4>6, AnnouncedItems, ItemLemma
      <4>8. Cardinality(StillClosing') + (Len(items') - q) < Capacity
        BY <1>1, <1>2, <4>1, <4>3, <4>4, AnnouncedItems, ItemLemma
      <4> HIDE DEF q
      <4>9. q \in 1..Len(items')
        BY <4>6
      <4> QED BY <4>4, <4>6, <4>7, <4>8, <4>9 DEF ErrorAhead
    <3> QED BY <2>6, <3>1, <3>2, CloserEffect
  <2> QED BY <2>3, <2>4, <2>5, <2>6 DEF Next
<1> QED BY <1>3, <1>4

\* With one consumer, and fewer calls of close() than places in the queue, a
\* next() that reports a clean end means that the reader did not and will not
\* fail, and one that reports a failure names the one that ended the stream
\* (event_stream.py:215-230, 242-251).
THEOREM ReportsAgree ==
  ASSUME OneConsumer, IsFiniteSet(Closers), Cardinality(Closers) < Capacity
  PROVE  Spec => []TerminalReportsAgree
<1> DEFINE Known == TypeOK /\ LifecycleInv /\ LogInv /\ FailureInv /\ WakeupInv /\ ParkedInv
           Told  == KindsInv /\ ReportsInv /\ AheadInv
<1>1. Init => Known
  <2>1. Init => LogInv
    BY DEF Init, LogInv, Log, TerminalLast, WireOrder
  <2>2. Init => FailureInv /\ ParkedInv
    BY DEF Init, FailureInv, FailureStaysObservable, ParkedInv
  <2> QED BY <2>1, <2>2, InitType, InitLifecycle, InitWakeup
<1>2. Known /\ [Next]_vars => Known'
  <2> SUFFICES ASSUME Known, [Next]_vars PROVE Known'
    OBVIOUS
  <2>1. TypeOK' /\ LifecycleInv' /\ WakeupInv' /\ ParkedInv'
    BY StepType, StepLifecycle, StepWakeup, StepParked
  <2>2. LogInv' /\ FailureInv'
    BY <2>1, StepLog, StepEffect, EffectFailure
  <2> QED BY <2>1, <2>2
<1>3. Init => Told
  <2>1. Init => KindsInv
    BY DEF Init, KindsInv
  <2>2. Init => ReportsInv /\ AheadInv
    BY DEF Init, ReportsInv, AheadInv, None, Errors
  <2> QED BY <2>1, <2>2
<1>4. Known /\ Known' /\ Told /\ [Next]_vars => Told'
  <2> SUFFICES ASSUME Known, Known', Told, [Next]_vars PROVE Told'
    OBVIOUS
  <2>1. Effect
    BY StepEffect
  <2>2. KindsInv'
    BY <2>1, EffectKinds
  <2>3. ReportsInv'
    BY <2>1, EffectReports, OthersDoNotReport, ConsumerReports DEF WakeupInv
  <2>4. AheadInv'
    BY StepAhead
  <2> QED BY <2>2, <2>3, <2>4
<1>5. Told => TerminalReportsAgree
  BY DEF ReportsInv, TerminalReportsAgree
<1> HIDE DEF Known, Told
<1> QED BY <1>1, <1>2, <1>3, <1>4, <1>5, PTL DEF Spec
=============================================================================
