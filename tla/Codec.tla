------------------------------- MODULE Codec -------------------------------
(***************************************************************************)
(* The externally tagged enums of the protocol: the tables of              *)
(* types/generated, decode_externally_tagged and encode_externally_tagged  *)
(* (types/codec.py), and ExternallyTaggedEnum (types/base.py), which calls *)
(* them for an enum inside an enum.                                        *)
(*                                                                         *)
(* A JSON value is a path of single-key objects and what is at its end:    *)
(* {"Ok": {"Handled": {}}} is [tags |-> <<"Ok", "Handled">>, leaf |-> "{}"] *)
(* and "Handled" is [tags |-> <<>>, leaf |-> "Handled"].  A leaf that is   *)
(* not a name is one of                                                    *)
(*   "{}"      the empty object;                                           *)
(*   "fields"  an object with every field of the variant above it;         *)
(*   "value"   what the newtype above it holds, not an object;             *)
(*   "junk"    an object that no variant accepts;                          *)
(*   "scalar"  a number, where nothing accepts one;                        *)
(*   "two"     an object with two keys;                                    *)
(* and the string "unit" is not a leaf: it marks a variant without data.   *)
(***************************************************************************)
EXTENDS Sequences, SequencesExt

Enums == {"Request", "Action", "Reply", "Response", "Event"}

(***************************************************************************)
(* The variants of each enum by kind; optional are the structs that have   *)
(* fields, all with a default, and empty those without a field.            *)
(***************************************************************************)
RequestEnum ==
  [unit |-> {"EventStream", "FocusedOutput", "FocusedWindow", "KeyboardLayouts", "Layers",
             "Outputs", "OverviewState", "PickColor", "PickWindow", "ReturnError", "Version",
             "Windows", "Workspaces"},
   newtype |-> {"Action"}, struct |-> {"Output"}, optional |-> {}, empty |-> {}]

\* Every action is a struct: one of each shape.
ActionEnum ==
  [unit |-> {}, newtype |-> {}, struct |-> {"CenterColumn", "CenterWindow", "Spawn"},
   optional |-> {"CenterWindow"}, empty |-> {"CenterColumn"}]

ResponseEnum ==
  [unit |-> {"Handled"},
   newtype |-> {"FocusedOutput", "FocusedWindow", "KeyboardLayouts", "Layers",
                "OutputConfigChanged", "Outputs", "OverviewState", "PickedColor",
                "PickedWindow", "Version", "Windows", "Workspaces"},
   struct |-> {}, optional |-> {}, empty |-> {}]

ReplyEnum ==
  [unit |-> {}, newtype |-> {"Err", "Ok"}, struct |-> {}, optional |-> {}, empty |-> {}]

EventEnum ==
  [unit |-> {}, newtype |-> {},
   struct |-> {"ConfigLoaded", "KeyboardLayoutSwitched", "KeyboardLayoutsChanged",
               "OverviewOpenedOrClosed", "ScreenshotCaptured", "WindowClosed",
               "WindowFocusChanged", "WindowFocusTimestampChanged", "WindowLayoutsChanged",
               "WindowOpenedOrChanged", "WindowUrgencyChanged", "WindowsChanged",
               "WorkspaceActivated", "WorkspaceActiveWindowChanged",
               "WorkspaceUrgencyChanged", "WorkspacesChanged"},
   optional |-> {"ScreenshotCaptured", "WindowFocusChanged"}, empty |-> {}]

Table(enum) ==
  CASE enum = "Request"  -> RequestEnum
    [] enum = "Action"   -> ActionEnum
    [] enum = "Reply"    -> ReplyEnum
    [] enum = "Response" -> ResponseEnum
    [] enum = "Event"    -> EventEnum

Known(enum) == Table(enum).unit \cup Table(enum).newtype \cup Table(enum).struct

\* The enum a newtype variant holds.
Inner(enum, name) ==
  CASE enum = "Request" /\ name = "Action" -> "Action"
    [] enum = "Reply" /\ name = "Ok"       -> "Response"
    [] OTHER                               -> "none"

\* __niri_unknown_variant_model__ is set.
HasUnknownModel(enum) == enum = "Event"

(***************************************************************************)
(* Values, and what decoding ends in: a model, or an exception class.  A   *)
(* model is the path of its variants and what the last one holds; for an   *)
(* UnknownEvent that is the raw payload.                                   *)
(***************************************************************************)
Wire(tags, leaf)  == [tags |-> tags, leaf |-> leaf]
Raised(exception) == [raised |-> exception, path |-> <<>>, data |-> Wire(<<>>, "none")]
Model(path, data) == [raised |-> "nothing", path |-> path, data |-> data]
Payload(leaf)     == Wire(<<>>, leaf)
UnitData          == Payload("unit")

IsModel(r) == r.raised = "nothing"
Under(name, r) == IF IsModel(r) THEN [r EXCEPT !.path = <<name>> \o @] ELSE r

Objects == {"{}", "fields", "junk", "two"}
NonNames == Objects \cup {"value", "scalar", "none"}
IsName(leaf) == leaf \notin NonNames
IsObject(w) == w.tags # <<>> \/ w.leaf \in Objects

\* Mutant: an empty payload is taken for a missing one.
ValidateStructNonEmpty(enum, name, w) ==
  IF w = Payload("fields") /\ name \notin Table(enum).empty
  THEN Model(<<name>>, w) ELSE Raised("ValidationError")

\* model_validate of a struct variant: fields left out take their defaults.
ValidateStruct(enum, name, w) ==
  LET t == Table(enum) IN
  CASE w = Payload("{}") /\ name \in t.empty           -> Model(<<name>>, w)
    [] w = Payload("{}") /\ name \in t.optional        -> Model(<<name>>, Payload("fields"))
    [] w = Payload("fields") /\ name \notin t.empty    -> Model(<<name>>, w)
    [] OTHER                                           -> Raised("ValidationError")

\* Mutant: an unknown string has no sentinel.
DecodeStringStrict(enum, name) ==
  IF name \in Table(enum).unit THEN Model(<<name>>, UnitData) ELSE Raised("DecodeError")

\* Mutant: a string that is no unit variant is left to pydantic.
DecodeStringByPydantic(enum, name) ==
  IF name \in Table(enum).unit THEN Model(<<name>>, UnitData)
  ELSE IF HasUnknownModel(enum) THEN Model(<<name>>, Payload(name))
  ELSE Raised("ValidationError")

\* The string form.
DecodeString(enum, name) ==
  IF name \in Table(enum).unit THEN Model(<<name>>, UnitData)
  ELSE IF name \notin Known(enum) /\ HasUnknownModel(enum) THEN Model(<<name>>, Payload(name))
  ELSE Raised("DecodeError")

Below(w) == [w EXCEPT !.tags = Tail(@)]

\* decode_externally_tagged.  The payload of a newtype is validated by pydantic,
\* which for an enum inside the enum comes back by way of _decode_root: nested
\* is what that makes of it.
Decode(enum, w, nested) ==
  IF w.tags = <<>>
  THEN IF IsName(w.leaf) THEN DecodeString(enum, w.leaf) ELSE Raised("DecodeError")
  ELSE LET name == Head(w.tags)
           t    == Table(enum)
       IN CASE name \notin Known(enum) ->
                 IF HasUnknownModel(enum) THEN Model(<<name>>, Below(w)) ELSE Raised("DecodeError")
            [] name \in t.unit         ->
                 IF Below(w) = Payload("{}") THEN Model(<<name>>, UnitData) ELSE Raised("DecodeError")
            [] name \in t.newtype      ->
                 IF Inner(enum, name) # "none" THEN Under(name, nested)
                 ELSE IF Below(w) = Payload("value") THEN Model(<<name>>, Below(w))
                 ELSE Raised("ValidationError")
            [] name \in t.struct       ->
                 IF IsObject(Below(w)) THEN ValidateStruct(enum, name, Below(w))
                 ELSE Raised("DecodeError")

\* _decode_root.  A key named like the field of pydantic's RootModel is never
\* wire data.
Root(enum, w, nested) ==
  IF w.tags # <<>> /\ Head(w.tags) = "root" THEN Raised("DecodeError") ELSE Decode(enum, w, nested)

\* An enum inside an enum has none inside it.
ASSUME NestingAssumption ==
  \A e \in Enums : \A name \in Known(e) :
    Inner(e, name) # "none" =>
      Inner(e, name) \in Enums /\ \A m \in Known(Inner(e, name)) : Inner(Inner(e, name), m) = "none"

DecodeInner(enum, w) == Root(enum, w, Raised("no enum inside"))
DecodeRoot(enum, w)  == Root(enum, w, DecodeInner(Inner(enum, Head(w.tags)), Below(w)))

\* Mutant: a unit variant is written with an empty payload.
EncodeUnitsAsObjects(m) ==
  IF m.data = UnitData THEN Wire(m.path, "{}") ELSE Wire(m.path \o m.data.tags, m.data.leaf)

\* Mutant: a variant without fields is recognised by its shape.
EncodeByShape(m) ==
  IF m.data \in {UnitData, Payload("{}")}
  THEN Wire(Front(m.path), Last(m.path))
  ELSE Wire(m.path \o m.data.tags, m.data.leaf)

\* encode_externally_tagged: a unit variant is its name, everything else,
\* an UnknownEvent too, an object with one key.
Encode(m) ==
  IF m.data = UnitData
  THEN Wire(Front(m.path), Last(m.path))
  ELSE Wire(m.path \o m.data.tags, m.data.leaf)

(***************************************************************************)
(* Reply.unwrap and the callers of the codec.                              *)
(***************************************************************************)
Returned(m) == [kind |-> "returned", what |-> m]
Failed(exception) == [kind |-> "raised", what |-> exception]

\* What request() and the bootstrap of the stream make of a reply.
ReplyOutcome(r) ==
  IF ~IsModel(r) THEN Failed(r.raised)
  ELSE IF Head(r.path) = "Ok" THEN Returned([r EXCEPT !.path = Tail(@)])
  ELSE Failed("RemoteError")

\* What the reader task makes of an event: every exception is a DecodeError.
EventOutcome(r) == IF IsModel(r) THEN Returned(r) ELSE Failed("DecodeError")
=============================================================================
