---------------------------- MODULE FrameReader ----------------------------
(***************************************************************************)
(* The framing of UnixConnection (src/niri_pypc/transport/connection.py):  *)
(* read_frame over a byte stream that arrives in chunks of any size, with  *)
(* the two limits it applies, the StreamReader's own and max_size.         *)
(*                                                                         *)
(* A frame is its length.  The StreamReader's buffer is the lengths of the *)
(* complete frames in it, then the bytes of a frame whose delimiter has    *)
(* not arrived.  A chunk is the run of arrivals between two reads.  A read *)
(* that the caller cancels changes nothing and has no action.              *)
(***************************************************************************)
EXTENDS Naturals, Sequences

CONSTANTS
  MaxFrame,      \* max_frame_size
  DefaultLimit,  \* DEFAULT_STREAM_LIMIT
  MaxFrames,     \* bound: frames the compositor sends
  MaxLength,     \* bound: bytes of a frame
  MaxReads       \* bound: calls of read_frame

ASSUME LimitsAssumption == MaxFrame \in Nat \ {0} /\ DefaultLimit \in Nat
ASSUME FrameBoundsAssumption == {MaxFrames, MaxLength, MaxReads} \subseteq Nat

\* Mutant: the limit that connect() gets is one too small for the largest frame.
StreamLimitShort == IF MaxFrame > DefaultLimit THEN MaxFrame - 1 ELSE DefaultLimit

\* The limit that request() and connect() give the StreamReader.
StreamLimit == IF MaxFrame + 1 > DefaultLimit THEN MaxFrame + 1 ELSE DefaultLimit

VARIABLES
  whole,     \* the StreamReader's buffer: complete frames
  part,      \* the StreamReader's buffer: bytes of an incomplete frame
  eof,       \* feed_eof() was called
  closed,    \* _closed
  results,   \* history: how each read_frame ended, and the length it saw
  sent,      \* history: the complete frames that have arrived
  consumed   \* history: the frames read_frame took from the buffer

frameVars == <<whole, part, eof, closed, results, sent, consumed>>

FrameInit ==
  /\ whole = <<>> /\ part = 0
  /\ eof = FALSE /\ closed = FALSE
  /\ results = <<>> /\ sent = <<>> /\ consumed = <<>>

(***************************************************************************)
(* The socket.                                                             *)
(***************************************************************************)
Arriving == ~eof /\ Len(sent) < MaxFrames

ByteArrives ==
  /\ Arriving /\ part < MaxLength
  /\ part' = part + 1
  /\ UNCHANGED <<whole, eof, closed, results, sent, consumed>>

DelimiterArrives ==
  /\ Arriving
  /\ whole' = Append(whole, part)
  /\ part' = 0
  /\ sent' = Append(sent, part)
  /\ UNCHANGED <<eof, closed, results, consumed>>

EofArrives ==
  /\ ~eof
  /\ eof' = TRUE
  /\ UNCHANGED <<whole, part, closed, results, sent, consumed>>

(***************************************************************************)
(* read_frame.                                                             *)
(***************************************************************************)
Result(kind, length) == [kind |-> kind, length |-> length]

Ends(kind, length) ==
  /\ Len(results) < MaxReads
  /\ results' = Append(results, Result(kind, length))
  /\ UNCHANGED <<eof, sent>>

ReadRefused ==
  /\ closed
  /\ Ends("closed", 0)
  /\ UNCHANGED <<whole, part, closed, consumed>>

\* readuntil finds a delimiter within the limit; only then is max_size tested,
\* on a frame that is already out of the buffer.
ReadWhole ==
  /\ ~closed /\ whole # <<>> /\ Head(whole) <= StreamLimit
  /\ Ends(IF Head(whole) > MaxFrame THEN "oversized" ELSE "frame", Head(whole))
  /\ whole' = Tail(whole)
  /\ consumed' = Append(consumed, Head(whole))
  /\ UNCHANGED <<part, closed>>

\* LimitOverrunError, with the delimiter found too late or not found yet; the
\* buffer stays as it is and the connection is poisoned.
ReadOverrun ==
  /\ ~closed
  /\ LET seen == IF whole # <<>> THEN Head(whole) ELSE part
     IN seen > StreamLimit /\ Ends("overrun", seen)
  /\ closed' = TRUE
  /\ UNCHANGED <<whole, part, consumed>>

\* Mutant: EOF is tested before the buffer is searched.
ReadIncompleteFirst ==
  /\ ~closed /\ eof
  /\ Ends("eof", part)
  /\ part' = 0 /\ whole' = <<>>
  /\ closed' = TRUE
  /\ UNCHANGED consumed

\* IncompleteReadError: readuntil clears the buffer.
ReadIncomplete ==
  /\ ~closed /\ eof /\ whole = <<>> /\ part <= StreamLimit
  /\ Ends("eof", part)
  /\ part' = 0
  /\ closed' = TRUE
  /\ UNCHANGED <<whole, consumed>>

\* Mutant: a timeout does not poison the connection.
ReadBreaksUnlessLate(kind) ==
  /\ ~closed
  /\ Ends(kind, 0)
  /\ closed' = (kind # "late")
  /\ UNCHANGED <<whole, part, consumed>>

\* TimeoutError and OSError, at any moment of the read.
ReadBreaks(kind) ==
  /\ ~closed
  /\ Ends(kind, 0)
  /\ closed' = TRUE
  /\ UNCHANGED <<whole, part, consumed>>

FrameNext ==
  \/ ByteArrives \/ DelimiterArrives \/ EofArrives
  \/ ReadRefused \/ ReadWhole \/ ReadOverrun \/ ReadIncomplete
  \/ ReadBreaks("late") \/ ReadBreaks("oserror")

FrameSpec == FrameInit /\ [][FrameNext]_frameVars

(***************************************************************************)
(* Properties.                                                             *)
(***************************************************************************)
Kinds == {"closed", "frame", "oversized", "overrun", "eof", "late", "oserror"}

Results == [kind : Kinds, length : Nat]

\* The types of the variables.
FrameTypeOK ==
  /\ whole \in Seq(Nat) /\ part \in Nat
  /\ eof \in BOOLEAN /\ closed \in BOOLEAN
  /\ results \in Seq(Results)
  /\ sent \in Seq(Nat) /\ consumed \in Seq(Nat)

\* The two limits agree (client.py:109, event_stream.py:72, connection.py:131-156):
\* whatever the chunks, a frame is refused for its size only when it is longer
\* than max_frame_size, and none that is longer is returned.
LimitsAgree ==
  \A i \in 1..Len(results) :
    /\ results[i].kind = "frame" => results[i].length <= MaxFrame
    /\ results[i].kind \in {"oversized", "overrun"} => results[i].length > MaxFrame

\* No frame is lost, merged, split or reordered on the way through the buffer:
\* what read_frame took and what it has yet to find is what arrived
\* (connection.py:103-107, 150-160).
FramesInOrder == consumed \o whole = sent

\* Once a read has timed out, met the end of the stream, overrun or failed, no
\* later read returns a frame, so that an answer that comes late, or the rest of
\* a frame that was too long, is never taken for the answer to another request
\* (connection.py:97-102, 108-148).
PoisonIsFinal ==
  \A i, j \in 1..Len(results) :
    i < j /\ results[i].kind \in {"late", "eof", "overrun", "oserror"} =>
      results[j].kind = "closed"
=============================================================================
