----------------------- MODULE ConnectionBundleProofs -----------------------
(***************************************************************************)
(* What NiriConnectionBundle guarantees for any number of tasks that close *)
(* it and any capacity of its stream.                                      *)
(*                                                                         *)
(* A step of the bundle is a step of its stream or leaves the stream as it *)
(* is, so all that is proved of EventStream holds of the bundle's stream.  *)
(***************************************************************************)
EXTENDS ConnectionBundle, EventStreamProofs

\* The steps of the bundle, as steps of the stream.
LEMMA BundleStep == [BundleNext]_allVars => [Next]_vars
<1> SUFFICES ASSUME [BundleNext]_allVars PROVE [Next]_vars
  OBVIOUS
<1>0. BundleClosers \subseteq Closers
  BY BundleClosersAssumption
<1>1. ASSUME NEW k \in BundleClosers, CloseBoth(k) \/ CloseProceeds(k) \/ CloseBothCancelled(k) PROVE Next
  <2>1. CloserStep(k) /\ k \in Closers
    BY <1>0, <1>1 DEF CloseBoth, CloseProceeds, CloseBothCancelled, CloserStep
  <2> QED BY <2>1 DEF Next
<1>2. ASSUME NEW k \in BundleClosers, CloseAgain(k) PROVE UNCHANGED vars
  BY <1>2 DEF CloseAgain
<1>3. CASE OpenStep
  BY <1>3 DEF OpenStep, Next
<1>4. CASE (ReaderStep \/ SocketReleased) /\ UNCHANGED bundleVars
  BY <1>4 DEF Next
<1>5. CASE \E c \in Consumers : ConsumerStep(c) /\ UNCHANGED bundleVars
  BY <1>5 DEF Next
<1>6. CASE ClientClosedAlone
  BY <1>6 DEF ClientClosedAlone
<1>7. ASSUME NEW k \in Closers \ BundleClosers, EventsClosedAlone(k) PROVE Next
  BY <1>7 DEF EventsClosedAlone, Next
<1>8. CASE UNCHANGED allVars
  BY <1>8 DEF allVars
<1> QED BY <1>1, <1>2, <1>3, <1>4, <1>5, <1>6, <1>7, <1>8 DEF BundleNext

\* The stream in a bundle behaves as one on its own (bundle.py:22-68 calls
\* nothing but its connect() and close()).
THEOREM BundleRunsStream == BundleSpec => Spec
<1>1. BundleInit => Init
  BY DEF BundleInit
<1> QED BY <1>1, BundleStep, PTL DEF BundleSpec, Spec

(***************************************************************************)
(* What a close() leaves.                                                  *)
(***************************************************************************)
\* Somebody is still closing the bundle, or was cancelled doing so.
Unfinished == \E k \in BundleClosers : closer[k] \in {"await_reader", "await_conn", "cancelled"}

BundleInv ==
  /\ clientClosed \in BOOLEAN /\ bundleClosed \in BOOLEAN
  /\ returned # {} => bundleClosed
  /\ \A k \in BundleClosers : closer[k] # "idle" => bundleClosed
  /\ bundleClosed => connector = "connected" /\ clientClosed /\ (lifecycle = "CLOSED" \/ Unfinished)
  /\ \A k \in Closers : closer[k] = "returned" => lifecycle = "CLOSED"

\* Steps in which no close() takes part: they leave the closers where they are
\* and do not bring a closed stream back.
LEMMA OthersKeepBundle ==
  ASSUME BundleInv, UNCHANGED <<closer, connector, bundleClosed, returned>>,
         clientClosed' \in BOOLEAN, clientClosed => clientClosed',
         lifecycle = "CLOSED" => lifecycle' = "CLOSED"
  PROVE  BundleInv'
BY DEF BundleInv, Unfinished

\* What a transition to CLOSING or CLOSED does to a stream that is ending.
LEMMA EndingTransitions ==
  /\ TransitionTo("CLOSING", "CLOSING") = "CLOSING" /\ TransitionTo("CLOSING", "CLOSED") = "CLOSED"
  /\ TransitionTo("CLOSED", "CLOSING") = "CLOSED" /\ TransitionTo("CLOSED", "CLOSED") = "CLOSED"
BY DEF TransitionTo, Accepts, ValidTransitions, LifecycleStates

\* How a step of a close() of the stream moves it: the closer goes on, is
\* cancelled, or returns from a stream that is CLOSED.
Moves(k) ==
  /\ connector = "connected" /\ connector' = connector
  /\ closer' = [closer EXCEPT ![k] = closer'[k]]
  /\ \/ closer'[k] \in {"await_reader", "await_conn", "cancelled"}
     \/ closer'[k] = "returned" /\ lifecycle' = "CLOSED"
  /\ lifecycle = "CLOSED" => lifecycle' = "CLOSED"

LEMMA CloserMoves ==
  ASSUME TypeOK, LifecycleInv, NEW k \in Closers, CloserStep(k)
  PROVE  Moves(k)
<1> USE DEF connVars, signalVars, queueVars, historyVars
<1>0. closer \in [Closers -> CloserStates] /\ lifecycle \in LifecycleStates
  BY DEF TypeOK
<1>1. ASSUME connector = "connected", UNCHANGED connector, CloseStream(k),
             lifecycle \in {"CLOSING", "CLOSED"}
      PROVE  Moves(k)
  <2>1. \/ closer' = [closer EXCEPT ![k] = "await_conn"] /\ lifecycle' = TransitionTo(lifecycle, "CLOSING")
        \/ closer' = [closer EXCEPT ![k] = "returned"] /\ lifecycle' = TransitionTo(lifecycle, "CLOSED")
    BY <1>1 DEF CloseStream, CloseEnds
  <2> QED BY <1>0, <1>1, <2>1, EndingTransitions DEF Moves
<1>2. CASE CloseNoop(k)
  BY <1>0, <1>2 DEF CloseNoop, Moves
<1>3. CASE CloseCancelsReader(k)
  BY <1>0, <1>3 DEF CloseCancelsReader, Moves
<1>4. CASE CloseWithoutReader(k)
  BY <1>1, <1>4 DEF CloseWithoutReader, LifecycleInv
<1>5. CASE CloseResumes(k)
  BY <1>1, <1>5 DEF CloseResumes, LifecycleInv
<1>6. CASE CloseFinishes(k)
  <2>1. lifecycle \in {"CLOSING", "CLOSED"} /\ connector = "connected"
    BY <1>6 DEF CloseFinishes, LifecycleInv
  <2> QED BY <1>0, <1>6, <2>1, EndingTransitions DEF CloseFinishes, CloseEnds, Moves
<1>7. CASE CloseCancelled(k)
  <2>1. /\ closer' = closer \/ closer' = [closer EXCEPT ![k] = "cancelled"]
        /\ closer[k] \in {"await_reader", "await_conn"}
        /\ lifecycle' = lifecycle /\ connector' = connector /\ connector = "connected"
    BY <1>7 DEF CloseCancelled, LifecycleInv
  <2> QED BY <1>0, <2>1 DEF Moves
<1> QED BY <1>2, <1>3, <1>4, <1>5, <1>6, <1>7 DEF CloserStep

\* A task that closes the stream on its own.
LEMMA AloneKeepsBundle ==
  ASSUME TypeOK, BundleInv, NEW k \in Closers \ BundleClosers, Moves(k), UNCHANGED bundleVars
  PROVE  BundleInv'
<1>0. closer \in [Closers -> CloserStates] /\ BundleClosers \subseteq Closers
  BY BundleClosersAssumption DEF TypeOK
<1>1. \A j \in Closers \ {k} : closer'[j] = closer[j]
  BY <1>0 DEF Moves
<1>2. \A j \in BundleClosers : closer'[j] = closer[j]
  BY <1>0, <1>1
<1>3. closer'[k] = "returned" => lifecycle' = "CLOSED"
  BY DEF Moves
<1>4. \A j \in Closers : closer'[j] = "returned" => lifecycle' = "CLOSED"
  BY <1>1, <1>3 DEF BundleInv, Moves
<1> QED BY <1>2, <1>4 DEF BundleInv, Unfinished, Moves, bundleVars

\* A task that closes the bundle.
LEMMA BundleCloserKeeps ==
  ASSUME TypeOK, BundleInv, NEW k \in BundleClosers, Moves(k),
         clientClosed', bundleClosed', clientClosed' \in BOOLEAN, bundleClosed' \in BOOLEAN
  PROVE  BundleInv'
<1>0. closer \in [Closers -> CloserStates] /\ k \in Closers
  BY BundleClosersAssumption DEF TypeOK
<1>1. \A j \in Closers \ {k} : closer'[j] = closer[j]
  BY <1>0 DEF Moves
<1>2. lifecycle' = "CLOSED" \/ Unfinished'
  BY DEF Moves, Unfinished
<1>3. \A j \in Closers : closer'[j] = "returned" => lifecycle' = "CLOSED"
  BY <1>1 DEF BundleInv, Moves
<1> QED BY <1>2, <1>3 DEF BundleInv, Moves

LEMMA BundleKept == TypeOK /\ LifecycleInv /\ BundleInv /\ [BundleNext]_allVars => BundleInv'
<1> SUFFICES ASSUME TypeOK, LifecycleInv, BundleInv, [BundleNext]_allVars PROVE BundleInv'
  OBVIOUS
<1> USE DEF connVars, signalVars, queueVars, historyVars
<1>0. /\ lifecycle \in LifecycleStates /\ closer \in [Closers -> CloserStates]
      /\ clientClosed \in BOOLEAN /\ bundleClosed \in BOOLEAN /\ BundleClosers \subseteq Closers
  BY BundleClosersAssumption DEF TypeOK, BundleInv
<1>1. CASE OpenStep
  <2>1. /\ clientClosed' = (clientClosed \/ connector' = "failed")
        /\ UNCHANGED <<bundleClosed, returned>> /\ ConnectStep
    BY <1>1 DEF OpenStep, OpenRaises
  <2>2. connector \in {"new", "opening", "bootstrapping", "failing"} /\ UNCHANGED closer
    BY <2>1 DEF ConnectStep, Connect, ConnectRefused, ConnectOpens, BootstrapFails,
                BootstrapCleanedUp, BootstrapSucceeds, ConnectCancelled, streamVars
  <2>3. ~bundleClosed /\ returned = {}
    BY <2>2 DEF BundleInv
  <2>4. reader = "none" /\ \A k \in Closers : closer[k] = "idle"
    BY <2>2 DEF LifecycleInv
  <2>5. clientClosed' \in BOOLEAN
    BY <1>0, <2>1
  <2> QED BY <1>0, <2>1, <2>2, <2>3, <2>4, <2>5 DEF BundleInv
<1>2. CASE ReaderStep /\ UNCHANGED bundleVars
  <2>1. /\ UNCHANGED <<closer, connector>>
        /\ lifecycle' \in {lifecycle, TransitionTo(lifecycle, "CLOSING"), TransitionTo(lifecycle, "CLOSED")}
    BY <1>2 DEF ReaderStep, ReaderStarts, ReaderReadFails, ReaderDecodeFails, ReaderEnqueues,
                ReaderDropsOldest, ReaderOverflows, ReaderUnwinds, ReaderFinishes, ReaderAborts,
                Publishes, ReaderFails, ReaderTearsDown
  <2> QED BY <1>0, <1>2, <2>1, EndingTransitions, OthersKeepBundle DEF bundleVars
<1>3. CASE SocketReleased /\ UNCHANGED bundleVars
  BY <1>0, <1>3, OthersKeepBundle DEF SocketReleased, bundleVars
<1>4. ASSUME NEW c \in Consumers, ConsumerStep(c), UNCHANGED bundleVars PROVE BundleInv'
  <2>1. UNCHANGED <<closer, connector, lifecycle>>
    BY <1>4 DEF ConsumerStep, NextRejected, NextTakes, NextParks, NextResumes, NextParksAgain,
                NextAbandoned, Take, Park, nextFrame
  <2> QED BY <1>0, <1>4, <2>1, OthersKeepBundle DEF bundleVars
<1>5. CASE UNCHANGED allVars
  BY <1>0, <1>5, OthersKeepBundle DEF allVars, vars, bundleVars
<1>6. ASSUME NEW k \in BundleClosers, CloseBoth(k) PROVE BundleInv'
  <2>1. CloserStep(k) /\ k \in Closers
    BY <1>0, <1>6 DEF CloseBoth, CloserStep
  <2>2. clientClosed' = TRUE /\ bundleClosed' = TRUE
    BY <1>6 DEF CloseBoth
  <2> QED BY <2>1, <2>2, CloserMoves, BundleCloserKeeps
<1>7. ASSUME NEW k \in BundleClosers, CloseAgain(k) PROVE BundleInv'
  <2>1. bundleClosed /\ UNCHANGED <<closer, connector, lifecycle, clientClosed, bundleClosed>>
    BY <1>7 DEF CloseAgain, vars
  <2> QED BY <2>1 DEF BundleInv, Unfinished
<1>8. ASSUME NEW k \in BundleClosers, CloseProceeds(k) \/ CloseBothCancelled(k) PROVE BundleInv'
  <2>1. /\ CloserStep(k) /\ k \in Closers /\ closer[k] # "idle"
        /\ UNCHANGED <<clientClosed, bundleClosed>>
    BY <1>0, <1>8 DEF CloseProceeds, CloseBothCancelled, CloserStep, CloseResumes, CloseFinishes,
                      CloseCancelled, bundleVars
  <2>2. bundleClosed /\ clientClosed
    BY <2>1 DEF BundleInv
  <2> QED BY <1>0, <2>1, <2>2, CloserMoves, BundleCloserKeeps
<1>9. CASE ClientClosedAlone
  <2>1. UNCHANGED <<closer, connector, lifecycle, bundleClosed, returned>> /\ clientClosed' = TRUE
    BY <1>9 DEF ClientClosedAlone, vars
  <2> QED BY <2>1, OthersKeepBundle
<1>10. ASSUME NEW k \in Closers \ BundleClosers, EventsClosedAlone(k) PROVE BundleInv'
  <2>1. CloserStep(k) /\ UNCHANGED bundleVars
    BY <1>10 DEF EventsClosedAlone
  <2> QED BY <2>1, CloserMoves, AloneKeepsBundle
<1> QED
  BY <1>1, <1>2, <1>3, <1>4, <1>5, <1>6, <1>7, <1>8, <1>9, <1>10 DEF BundleNext

LEMMA BundleInvariance == BundleSpec => [](TypeOK /\ LifecycleInv /\ BundleInv)
<1>1. BundleInit => TypeOK /\ LifecycleInv /\ BundleInv
  <2> SUFFICES ASSUME BundleInit PROVE TypeOK /\ LifecycleInv /\ BundleInv
    OBVIOUS
  <2>1. Init
    BY DEF BundleInit
  <2>2. BundleInv
    BY <2>1, BundleClosersAssumption DEF BundleInit, Init, BundleInv
  <2> QED BY <2>1, <2>2, InitType, InitLifecycle
<1>2. (TypeOK /\ LifecycleInv /\ BundleInv) /\ [BundleNext]_allVars
        => (TypeOK /\ LifecycleInv /\ BundleInv)'
  BY BundleStep, BundleKept, StepType, StepLifecycle
<1> QED BY <1>1, <1>2, PTL DEF BundleSpec

\* However many tasks close the bundle or its stream, a close() of the bundle
\* that returned means both parts are closed once no other is under way, unless
\* one was cancelled.
THEOREM ReturnedUncancelledCloses == BundleSpec => []UncancelledCloseCloses
<1>1. TypeOK /\ LifecycleInv /\ BundleInv => UncancelledCloseCloses
  <2> SUFFICES ASSUME TypeOK, LifecycleInv, BundleInv, returned # {}, ~Unfinished
               PROVE  clientClosed /\ StreamClosed
    BY DEF UncancelledCloseCloses, Unfinished
  <2>1. connector = "connected" /\ clientClosed /\ lifecycle = "CLOSED"
    BY DEF BundleInv
  <2> QED BY <2>1 DEF StreamClosed, LifecycleInv, ClosedIsQuiescent
<1> QED BY <1>1, BundleInvariance, PTL

\* Whatever cancelled close() of the bundle came before, and whoever else is
\* closing, a close() of the stream that returns leaves it closed.
THEOREM EventsCloseAlwaysRepairs == BundleSpec => []EventsCloseRepairs
<1>1. LifecycleInv /\ BundleInv => EventsCloseRepairs
  <2> SUFFICES ASSUME LifecycleInv, BundleInv, NEW k \in Closers, closer[k] = "returned"
               PROVE  StreamClosed
    BY DEF EventsCloseRepairs
  <2>1. lifecycle = "CLOSED"
    BY DEF BundleInv
  <2>2. connector = "connected"
    BY DEF LifecycleInv
  <2> QED BY <2>1, <2>2 DEF StreamClosed, LifecycleInv, ClosedIsQuiescent
<1> QED BY <1>1, BundleInvariance, PTL
=============================================================================
