---------------------------- MODULE VariantShapes ----------------------------
(***************************************************************************)
(* classify_variants of tools/normalize_ir.py: a chain of tests on the JSON *)
(* of an enum's variant.  The tests overlap (an inline struct and a map also *)
(* have a "type"), so their order and their guards carry the result.        *)
(*                                                                         *)
(* A declared variant is what upstream declares, [name, kind, fields,       *)
(* inner], beside the JSON exported for it: const, an entry with a "const"   *)
(* and the type "string"; single, an entry with exactly one property, whose  *)
(* value is payload.  A payload is                                          *)
(*   [keys   |-> its keys other than "type",                                *)
(*    type   |-> the value of "type", or "none" where it has no "type",      *)
(*    map    |-> its "additionalProperties" is a schema, not true or false,  *)
(*    fields |-> its "properties", each with the names it refers to,         *)
(*    inner  |-> the names that its other keys refer to].                   *)
(***************************************************************************)

\* A variant of the IR: its fields, or what its inner_type refers to.
Variant(name, kind, fields, inner) ==
  [name |-> name, kind |-> kind, fields |-> fields, inner |-> inner]
Unit(name)           == Variant(name, "unit", {}, {})
Struct(name, fields) == Variant(name, "struct", fields, {})
Newtype(name, inner) == Variant(name, "newtype", {}, inner)

\* Without "properties", canonical_type(payload) is the type string "object".
IsPlainObject(p) == p.type = "object" /\ ~p.map
HasProperties(p) == "properties" \in p.keys

\* Mutant: the "type" of a payload is looked at before its "properties".
ClassifyTypeFirst(name, p) ==
  IF p.type = "object" /\ p.fields = {} /\ "additionalProperties" \notin p.keys THEN Struct(name, {})
  ELSE IF p.keys \cap {"$ref", "anyOf"} # {} THEN Newtype(name, p.inner)
  ELSE IF p.type # "none"
       THEN IF IsPlainObject(p) THEN Struct(name, {}) ELSE Newtype(name, p.inner)
  ELSE IF HasProperties(p) THEN Struct(name, p.fields)
  ELSE Struct(name, {})

\* The value of the one property of an entry.
ClassifyPayload(name, p) ==
  IF p.type = "object" /\ p.fields = {} /\ "additionalProperties" \notin p.keys THEN Struct(name, {})
  ELSE IF p.keys \cap {"$ref", "anyOf"} # {} THEN Newtype(name, p.inner)
  ELSE IF HasProperties(p) THEN Struct(name, p.fields)
  ELSE IF p.type # "none"
       THEN IF IsPlainObject(p) THEN Struct(name, {}) ELSE Newtype(name, p.inner)
  ELSE Struct(name, {})

\* An entry that is neither form becomes nothing.
ClassifyEntry(d) ==
  IF d.const THEN {Unit(d.name)}
  ELSE IF d.single THEN {ClassifyPayload(d.name, d.payload)}
  ELSE {}

\* classify_variants.
Variants(declared) == UNION {ClassifyEntry(d) : d \in declared}

VariantRefs(v) == v.inner \cup UNION {f.refs : f \in v.fields}
JsonRefs(d)    == VariantRefs(d.payload)

(***************************************************************************)
(* The exporter: schemars, for the types of niri-ipc.                      *)
(***************************************************************************)
\* Units are exported alone or, when none of them is documented, as one entry
\* with an "enum" of them all.
ExportedUnit(d) == d.kind = "unit" /\ d.fields = {} /\ d.inner = {} /\ (d.const \/ ~d.single)

\* A variant with named fields, or none.
ExportedStruct(d) ==
  /\ d.kind = "struct" /\ d.inner = {} /\ ~d.const /\ d.single
  /\ d.payload.type = "object" /\ ~d.payload.map
  /\ d.payload.keys \subseteq {"properties", "required", "additionalProperties"}
  /\ d.payload.fields = d.fields
  /\ d.fields # {} => HasProperties(d.payload)

\* A variant with a value: a definition, an option of one, a scalar, a list or a
\* tuple, a map, or a value that the schema writes in another way or not at all.
ExportedNewtype(d) ==
  /\ d.kind = "newtype" /\ d.fields = {} /\ ~d.const /\ d.single
  /\ d.payload.fields = {} /\ d.payload.inner = d.inner
  /\ \/ d.payload.type = "none" /\ d.payload.keys \in {{"$ref"}, {"anyOf"}, {"oneOf"}, {"allOf"}, {}}
     \/ d.payload.type \notin {"none", "object"} /\ d.payload.keys \subseteq {"items", "prefixItems"}
     \/ d.payload.type = "object" /\ d.payload.keys = {"additionalProperties"}

Exported(d) == ExportedUnit(d) \/ ExportedStruct(d) \/ ExportedNewtype(d)

(***************************************************************************)
(* What the classification is for.                                         *)
(***************************************************************************)
Meaning(d) == Variant(d.name, d.kind, d.fields, d.inner)

\* What the chain has no branch for: units exported as one "enum", a value
\* without $ref, anyOf or type, and a map whose values have no schema.
Unsupported(d) ==
  \/ d.kind = "unit" /\ ~d.const
  \/ /\ d.kind = "newtype"
     /\ \/ d.payload.type = "none" /\ d.payload.keys \cap {"$ref", "anyOf"} = {}
        \/ IsPlainObject(d.payload)
=============================================================================
