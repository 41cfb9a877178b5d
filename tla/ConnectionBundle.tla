-------------------------- MODULE ConnectionBundle --------------------------
(***************************************************************************)
(* NiriConnectionBundle (src/niri_pypc/api/bundle.py): a NiriClient and a  *)
(* NiriEventStream opened and closed together.  The stream is the one of   *)
(* EventStream; of the client only the closed flag matters here, since its *)
(* close() never suspends.                                                 *)
(*                                                                         *)
(* The bundle hands out both members, so that tasks may close either on    *)
(* its own: of the closers of EventStream some are here in close() of the  *)
(* bundle, the others in close() of bundle.events.                         *)
(***************************************************************************)
EXTENDS EventStream

CONSTANT BundleClosers  \* the closers that call close() of the bundle

ASSUME BundleClosersAssumption == BundleClosers \subseteq Closers

VARIABLES
  clientClosed,  \* _client._closed
  bundleClosed,  \* _closed
  returned       \* history: the bundle's closers whose close() has returned

bundleVars == <<clientClosed, bundleClosed, returned>>
allVars == <<vars, bundleVars>>

BundleInit ==
  /\ Init
  /\ clientClosed = FALSE /\ bundleClosed = FALSE
  /\ returned = {}

(***************************************************************************)
(* open().                                                                 *)
(***************************************************************************)
OpenRaises == connector' = "failed"

\* connect() of the stream; only an Exception closes the client, and a
\* cancelled open() leaves both as they are.
OpenStep ==
  /\ ConnectStep
  /\ clientClosed' = (clientClosed \/ OpenRaises)
  /\ UNCHANGED <<bundleClosed, returned>>

(***************************************************************************)
(* close().                                                                *)
(***************************************************************************)
\* Mutant: the stream is forgotten.
CloseClientOnly(k) ==
  /\ connector = "connected" /\ ~bundleClosed
  /\ bundleClosed' = TRUE
  /\ clientClosed' = TRUE
  /\ returned' = returned \cup {k}
  /\ UNCHANGED vars

\* The flag is set, the client closed and close() of the stream entered
\* without a suspension in between.
CloseBoth(k) ==
  /\ ~bundleClosed
  /\ bundleClosed' = TRUE
  /\ clientClosed' = TRUE
  /\ CloseNoop(k) \/ CloseCancelsReader(k) \/ CloseWithoutReader(k)
  /\ returned' = IF closer'[k] = "returned" THEN returned \cup {k} ELSE returned

CloseAgain(k) ==
  /\ connector = "connected" /\ bundleClosed
  /\ closer[k] \in {"idle", "cancelled"}
  /\ returned' = returned \cup {k}
  /\ UNCHANGED <<vars, clientClosed, bundleClosed>>

\* The rest of close() of the stream, and its end the end of close().
CloseProceeds(k) ==
  /\ CloseResumes(k) \/ CloseFinishes(k)
  /\ returned' = IF closer'[k] = "returned" THEN returned \cup {k} ELSE returned
  /\ UNCHANGED <<clientClosed, bundleClosed>>

\* CancelledError passes both handlers of close().
CloseBothCancelled(k) ==
  /\ CloseCancelled(k)
  /\ UNCHANGED bundleVars

(***************************************************************************)
(* The members closed on their own.                                        *)
(***************************************************************************)
ClientClosedAlone ==
  /\ connector = "connected"
  /\ clientClosed' = TRUE
  /\ UNCHANGED <<vars, bundleClosed, returned>>

EventsClosedAlone(k) ==
  /\ CloserStep(k)
  /\ UNCHANGED bundleVars

BundleNext ==
  \/ OpenStep
  \/ (ReaderStep \/ SocketReleased) /\ UNCHANGED bundleVars
  \/ \E c \in Consumers : ConsumerStep(c) /\ UNCHANGED bundleVars
  \/ \E k \in BundleClosers :
       CloseBoth(k) \/ CloseAgain(k) \/ CloseProceeds(k) \/ CloseBothCancelled(k)
  \/ ClientClosedAlone
  \/ \E k \in Closers \ BundleClosers : EventsClosedAlone(k)

BundleSpec == BundleInit /\ [][BundleNext]_allVars

BundleFairness ==
  /\ WF_allVars((ReaderStarts \/ ReaderUnwinds \/ ReaderFinishes \/ ReaderAborts) /\ UNCHANGED bundleVars)
  /\ WF_allVars(SocketReleased /\ UNCHANGED bundleVars)
  /\ \A k \in BundleClosers : WF_allVars(CloseProceeds(k))
  /\ \A k \in Closers \ BundleClosers :
       WF_allVars((CloseResumes(k) \/ CloseFinishes(k)) /\ UNCHANGED bundleVars)

FairBundleSpec == BundleSpec /\ BundleFairness

(***************************************************************************)
(* Properties.                                                             *)
(***************************************************************************)
StreamClosed == lifecycle = "CLOSED" /\ reader = "done" /\ ~connRef

\* Once a close() of the bundle has returned and none is under way, both parts
\* are closed, whoever else is still closing the stream on its own, unless a
\* close() of the bundle was cancelled while it waited for the socket
\* (bundle.py:50-68).
UncancelledCloseCloses ==
  /\ returned # {}
  /\ \A k \in BundleClosers : closer[k] \notin {"await_reader", "await_conn", "cancelled"}
  => clientClosed /\ StreamClosed

\* A close() of the bundle that was cancelled may leave the stream half closed
\* and cannot be repeated; bundle.events.close() can, and has closed the stream
\* when it returns, whichever close() was cancelled before and however far
\* another one has got (bundle.py:42-44, 50-54, event_stream.py:267-293).
EventsCloseRepairs ==
  \A k \in Closers \ BundleClosers : closer[k] = "returned" => StreamClosed

\* close() of the bundle, and of its stream, returns unless it is cancelled
\* (bundle.py:50-68).
BundleCloseReturns ==
  \A k \in Closers : closer[k] \in {"await_reader", "await_conn"} ~>
    closer[k] \in {"returned", "cancelled"}
=============================================================================
