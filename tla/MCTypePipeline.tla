-------------------------- MODULE MCTypePipeline --------------------------
(***************************************************************************)
(* Schemas for TypePipeline, with the forms of JSON that the exported one   *)
(* has, and those that schemars writes for declarations it does not have.   *)
(***************************************************************************)
EXTENDS TypePipeline, TLC

Payload(keys, type, fields, inner) ==
  [keys |-> keys, type |-> type, map |-> FALSE, fields |-> fields, inner |-> inner]
NoPayload == Payload({}, "none", {}, {})

Decl(meaning, payload) == meaning @@ [const |-> FALSE, single |-> TRUE, payload |-> payload]
Alone(name)   == Unit(name) @@ [const |-> TRUE, single |-> FALSE, payload |-> NoPayload]
Grouped(name) == Unit(name) @@ [const |-> FALSE, single |-> FALSE, payload |-> NoPayload]

Field(name, refs) == [name |-> name, refs |-> refs]
Inline(name, fields) ==
  Decl(Struct(name, fields), Payload({"properties", "required"}, "object", fields, {}))
Options(name, fields) == Decl(Struct(name, fields), Payload({"properties"}, "object", fields, {}))
EmptyObject(name)  == Decl(Struct(name, {}), Payload({}, "object", {}, {}))
ClosedObject(name) == Decl(Struct(name, {}), Payload({"additionalProperties"}, "object", {}, {}))

RefTo(name, def)     == Decl(Newtype(name, {def}), Payload({"$ref"}, "none", {}, {def}))
OptionOf(name, def)  == Decl(Newtype(name, {def}), Payload({"anyOf"}, "none", {}, {def}))
Scalar(name, type)   == Decl(Newtype(name, {}), Payload({}, type, {}, {}))
ListOf(name, def)    == Decl(Newtype(name, {def}), Payload({"items"}, "array", {}, {def}))
MapOf(name, def) ==
  Decl(Newtype(name, {def}),
       [Payload({"additionalProperties"}, "object", {}, {def}) EXCEPT !.map = TRUE])
MapOfAny(name)       == Decl(Newtype(name, {}), Payload({"additionalProperties"}, "object", {}, {}))
Untyped(name)        == Decl(Newtype(name, {}), NoPayload)

Def(shape, entries, refs) == [shape |-> shape, entries |-> entries, refs |-> refs]
StructDef(refs) == Def("struct", {}, refs)
OneOf(entries)  == Def("oneOf", entries, {})

Actions ==
  {Inline("Quit", {Field("skip_confirmation", {})}), EmptyObject("CenterColumn"),
   Inline("SetSize", {Field("id", {}), Field("change", {"SizeChange"})})}
Tops ==
  [Action  |-> Actions,
   Event   |-> {Inline("WindowOpened", {Field("window", {"Window"})})},
   Request |-> {Alone("Version"), RefTo("Action", "Action"),
                Inline("Output", {Field("output", {}), Field("mode", {"Mode"})})},
   Reply   |-> {RefTo("Ok", "Response"), Scalar("Err", "string")}]
Defs ==
  [Action     |-> OneOf(Actions),
   Response   |-> OneOf({Alone("Handled"), OptionOf("FocusedWindow", "Window"),
                         ListOf("Windows", "Window"), MapOf("Outputs", "Mode")}),
   Window     |-> StructDef({"Transform"}),
   Mode       |-> StructDef({}),
   SizeChange |-> OneOf({Scalar("SetFixed", "integer"), Alone("Keep")}),
   Transform  |-> OneOf({Alone("Normal"), Alone("Flipped")})]

Base == [tops |-> Tops, defs |-> Defs]

\* A later niri: events and responses of other forms.
Later ==
  [tops |-> [Tops EXCEPT !.Event = @ \cup {Options("CastStarted", {Field("target", {"Window"})}),
                                          ClosedObject("CastStopped")}],
   defs |-> [Defs EXCEPT !.Response.entries =
               @ \cup {Inline("Casts", {Field("of", {"Window"}), Field("in", {"Mode"})}),
                      Untyped("Extra"), MapOfAny("Hints")}]]

\* Mode becomes an enum that holds a struct; Transform loses its comments.
Reshaped ==
  [Base EXCEPT !.defs.Mode = OneOf({RefTo("Fixed", "SizeChange"), Alone("Auto")}),
               !.defs.Transform = OneOf({Alone("Normal"), Grouped("Flipped"), Grouped("Flipped90")})]

Supported == <<Base, Later, Reshaped>>

\* They are as the theorems of TypePipelineProofs suppose.
ASSUME SupportedIsWellFormed ==
  \A v \in DOMAIN Supported : WellExported(Supported[v]) /\ NamesResolve(Supported[v])
=============================================================================
