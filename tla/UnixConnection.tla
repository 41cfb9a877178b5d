--------------------------- MODULE UnixConnection ---------------------------
(***************************************************************************)
(* One UnixConnection (src/niri_pypc/transport/connection.py) as a value:   *)
(*                                                                         *)
(*   closed   the _closed flag, which every method tests first;            *)
(*   socket   the operating-system socket behind the StreamWriter: "open", *)
(*            "closing" between writer.close() and the transport's         *)
(*            connection_lost callback, then "closed";                     *)
(*   poisoned history: a failed read has set _closed, and nothing else has. *)
(*                                                                         *)
(* The two disagree after most failures: the error paths of read_frame set *)
(* _closed and leave the writer alone ("poison"), so that a later close()  *)
(* returns at its first test and the socket stays open.  Only an OSError   *)
(* finds the socket closed already, by asyncio's own fatal-error path.     *)
(***************************************************************************)

Connections == [closed : BOOLEAN, socket : {"open", "closing", "closed"},
                poisoned : BOOLEAN]

\* Before open_unix_connection there is no socket; after it, an open one.
Unopened == [closed |-> TRUE, socket |-> "closed", poisoned |-> FALSE]
Opened   == [closed |-> FALSE, socket |-> "open", poisoned |-> FALSE]

\* How one call of write_frame or read_frame can fail.  "late" is a read that
\* outlives its timeout, "eof" an IncompleteReadError (with or without a
\* partial frame), "overrun" a LimitOverrunError, "oserror" an OSError,
\* "oversized" a complete frame longer than max_size.
WriteFailures == {"oserror"}
ReadFailures  == {"late", "eof", "overrun", "oserror", "oversized"}

\* The exception class the failure is mapped to.
ErrorOf(failure) ==
  CASE failure \in {"eof", "oserror"}        -> "TransportError"
    [] failure = "late"                      -> "NiriTimeoutError"
    [] failure \in {"overrun", "oversized"}  -> "ProtocolError"

\* What the failure leaves behind.  A complete but oversized frame has been
\* consumed whole, and is the one failure that leaves the connection usable.
AfterFailure(c, failure) ==
  CASE failure \in {"late", "eof", "overrun"} ->
         [c EXCEPT !.closed = TRUE, !.poisoned = TRUE]
    [] failure = "oserror"   -> [c EXCEPT !.closed = TRUE, !.socket = "closed"]
    [] failure = "oversized" -> c

\* Mutant: writer.close() is missing.
CloseStartsFlagOnly(c) == [c EXCEPT !.closed = TRUE]

\* close() up to wait_closed(): nothing at all when the flag is already set.
CloseStarts(c) ==
  IF c.closed THEN c ELSE [c EXCEPT !.closed = TRUE, !.socket = "closing"]

\* close() goes past its first test, and so suspends in wait_closed().
CloseSuspends(c) == ~c.closed

\* connection_lost: the event loop releases the socket.
Released(c) == [c EXCEPT !.socket = "closed"]
=============================================================================
