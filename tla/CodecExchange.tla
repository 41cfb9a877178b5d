--------------------------- MODULE CodecExchange ---------------------------
(***************************************************************************)
(* One value of the wire goes through the codec: decoded, handed to its    *)
(* caller, encoded again and decoded again.                                *)
(***************************************************************************)
EXTENDS Codec, Naturals

CONSTANT Frames  \* the values received, each for the enum that is to decode it

\* The enums that are decoded at the top level, and the values of JSON.
Roots      == {"Request", "Reply", "Event"}
JsonValues == [tags : Seq(STRING), leaf : STRING \ {"unit", "none"}]

ASSUME FramesAssumption == Frames \subseteq [enum : Roots, wire : JsonValues]

VARIABLES enum, wire, stage, decoded, outcome, again

codecVars == <<enum, wire, stage, decoded, outcome, again>>

Nothing == Raised("nothing yet")

CodecInit ==
  /\ \E frame \in Frames : enum = frame.enum /\ wire = frame.wire
  /\ stage = "received"
  /\ decoded = Nothing /\ again = Nothing
  /\ outcome = Failed("nothing yet")

DecodeFrame ==
  /\ stage = "received"
  /\ decoded' = DecodeRoot(enum, wire)
  /\ outcome' = CASE enum = "Reply" -> ReplyOutcome(decoded')
                  [] enum = "Event" -> EventOutcome(decoded')
                  [] OTHER -> outcome
  /\ stage' = "decoded"
  /\ UNCHANGED <<enum, wire, again>>

EncodeModel ==
  /\ stage = "decoded" /\ IsModel(decoded)
  /\ wire' = Encode(decoded)
  /\ stage' = "encoded"
  /\ UNCHANGED <<enum, decoded, outcome, again>>

DecodeAgain ==
  /\ stage = "encoded"
  /\ again' = DecodeRoot(enum, wire)
  /\ stage' = "again"
  /\ UNCHANGED <<enum, wire, decoded, outcome>>

CodecNext == DecodeFrame \/ EncodeModel \/ DecodeAgain

CodecSpec == CodecInit /\ [][CodecNext]_codecVars

(***************************************************************************)
(* The form in which serde writes a value of these enums, given            *)
(* independently of the decoder: by what may stand under each name.        *)
(***************************************************************************)
CanonicalFlat(e, w) ==
  \/ w.tags = <<>> /\ w.leaf \in Table(e).unit
  \/ /\ Len(w.tags) = 1
     /\ LET name == Head(w.tags) IN
        \/ name \in Table(e).empty /\ w.leaf = "{}"
        \/ name \in Table(e).struct \ Table(e).empty /\ w.leaf = "fields"
        \/ name \in Table(e).newtype /\ Inner(e, name) = "none" /\ w.leaf = "value"

Canonical(e, w) ==
  \/ CanonicalFlat(e, w)
  \/ /\ w.tags # <<>> /\ Inner(e, Head(w.tags)) # "none"
     /\ CanonicalFlat(Inner(e, Head(w.tags)), Below(w))

(***************************************************************************)
(* Properties.                                                             *)
(***************************************************************************)
\* Encoding a decoded model and decoding it again gives the same model, for
\* unknown events and enums inside enums too; but for the unknown event that is
\* the bare string "root", which is written as an object with that key
\* (codec.py:19-106, 109-141, base.py:51-58).
RoundTrip == stage = "again" => again = decoded \/ decoded.path = <<"root">>

\* Every value the way serde writes it is accepted, and the codec writes it the
\* same way: what the client sends is what the compositor would have sent
\* (codec.py:19-141).
CanonicalIsFixed ==
  [][/\ DecodeFrame /\ Canonical(enum, wire) => IsModel(decoded')
     /\ EncodeModel /\ Canonical(enum, wire) => wire' = wire]_codecVars

\* Whatever was accepted, what the codec writes of a known variant is the form
\* serde writes, so a lenient input is never passed on (codec.py:109-141).
EncodedIsCanonical ==
  stage = "encoded" /\ Head(decoded.path) \in Known(enum) => Canonical(enum, wire)

\* An event the library does not know is returned as a sentinel that carries
\* the name and the payload, whatever they are, unless its key is the one that
\* RootModel uses (codec.py:33-36, 72-75, base.py:51-58).
UnknownEventsSurvive ==
  [][DecodeFrame /\ enum = "Event"
       => LET bare == wire.tags = <<>>
              name == IF bare THEN wire.leaf ELSE Head(wire.tags)
          IN name \notin Known("Event") /\ (IF bare THEN IsName(name) ELSE name # "root") =>
               /\ outcome'.kind = "returned"
               /\ outcome'.what.path = <<name>>
               /\ outcome'.what.data = IF bare THEN wire ELSE Below(wire)]_codecVars

\* A bare ValidationError reaches the caller of request() or connect() only for
\* a payload that the model of a known variant rejects; whatever is wrong with
\* a tag, of the reply or of the response in it, is a DecodeError
\* (codec.py:19-106, client.py:119-120, event_stream.py:97-98).
OnlyModelsRejectBare ==
  outcome = Failed("ValidationError") =>
    LET tags == wire.tags IN
    /\ tags # <<>> /\ tags[1] \in Known(enum)
    /\ tags[1] = "Ok" => Len(tags) >= 2 /\ tags[2] \in Known("Response")
=============================================================================
