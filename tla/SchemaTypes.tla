---------------------------- MODULE SchemaTypes ----------------------------
(***************************************************************************)
(* The types of the generated fields: JSON Schema to the type strings of   *)
(* the intermediate representation (tools/normalize_ir.py), and those      *)
(* strings to Python annotations and imports (tools/generate_types.py).    *)
(*                                                                         *)
(* A schema is a record with the keys of the JSON object that matter; its  *)
(* "type" is always a sequence, of length one for a plain string.  A type  *)
(* string is the sequence of its tokens, and so is an annotation.  The     *)
(* generator takes type strings apart by slicing and splitting, which is   *)
(* modelled as such: a slice that cuts into a name leaves a fragment.      *)
(*                                                                         *)
(* canonical_type, ir_type_to_python and _extract_refs_from_type call      *)
(* themselves for what is inside.  Their definitions take the results of   *)
(* these calls as a function, "of".                                        *)
(***************************************************************************)
EXTENDS Naturals, Sequences, FiniteSetsExt, SequencesExt

CONSTANT RefNames  \* the names in $defs

\* The tokens of type strings and of annotations that are not names.
Keywords ==
  {"string", "integer", "number", "float", "boolean", "object", "Unknown",
   "option<", "array<", "map<", "tuple<", ">", ",", "fragment", "ref fragment"}
Annotations ==
  {"str", "int", "float", "bool", "dict[str,Any]", "Any",
   "|None", "list[", "dict[str,", "tuple[", "]"}

ASSUME RefNamesAssumption == RefNames \cap Keywords = {}

Tokens == RefNames \cup Keywords \cup Annotations
TypeStrings == Seq(Tokens)

Wrapped(opening, t, closing) == <<opening>> \o t \o <<closing>>

Has(s, key) == key \in DOMAIN s

(***************************************************************************)
(* normalize_ir.py.                                                        *)
(***************************************************************************)
Option(t) == Wrapped("option<", t, ">")
Array(t)  == Wrapped("array<", t, ">")
Map(t)    == Wrapped("map<", <<"string", ",">> \o t, ">")
Unknown   == <<"Unknown">>

\* ",".join(parts).
Joined[parts \in Seq(TypeStrings)] ==
  IF parts = <<>> THEN <<>>
  ELSE IF Len(parts) = 1 THEN Head(parts)
  ELSE Head(parts) \o <<",">> \o Joined[Tail(parts)]

\* _primitive_type.
Primitive(t) ==
  IF t = "number" THEN <<"float">>
  ELSE IF t = "array" THEN Array(Unknown)
  ELSE IF t \in {"integer", "boolean", "object"} THEN <<t>> ELSE <<"string">>

NotNull(s) == IF Has(s, "type") THEN s.type # <<"null">> ELSE TRUE

\* Mutant: the elements of a tuple are reduced to the first.
PrefixItemsHomogeneous(s, of) ==
  IF s.prefixItems = <<>> THEN Array(Unknown) ELSE Array(of[s.prefixItems[1]])

\* _normalize_prefix_items.
PrefixItems(s, of) ==
  IF s.prefixItems = <<>> THEN Array(Unknown)
  ELSE Wrapped("tuple<", Joined[[i \in DOMAIN s.prefixItems |-> of[s.prefixItems[i]]]], ">")

\* The type of the first alternative that is not null; an option if others are.
Nullable(alternatives, nonNull, first) ==
  IF nonNull = {} THEN Option(Unknown)
  ELSE IF nonNull = alternatives THEN first ELSE Option(first)

AnyOf(s, of) ==
  LET nonNull == {i \in DOMAIN s.anyOf : NotNull(s.anyOf[i])}
  IN Nullable(DOMAIN s.anyOf, nonNull, of[s.anyOf[Min(nonNull)]])

\* A list of types: the first that is not null, with the rest of the schema.
TypeList(s, of) ==
  LET nonNull == {i \in DOMAIN s.type : s.type[i] # "null"}
  IN Nullable(DOMAIN s.type, nonNull, of[[s EXCEPT !.type = <<s.type[Min(nonNull)]>>]])

IsOrUntyped(s, type, key) == IF Has(s, "type") THEN s.type = <<type>> ELSE Has(s, key)

\* canonical_type, in its order of precedence.
CanonicalType(s, of) ==
  IF Has(s, "ref") THEN <<s.ref>>
  ELSE IF Has(s, "anyOf") THEN AnyOf(s, of)
  ELSE IF Has(s, "type") /\ Len(s.type) > 1 THEN TypeList(s, of)
  ELSE IF IsOrUntyped(s, "array", "items") THEN
         IF Has(s, "items") THEN Array(of[s.items])
         ELSE IF Has(s, "prefixItems") THEN PrefixItems(s, of) ELSE Array(Unknown)
  ELSE IF Has(s, "prefixItems") THEN PrefixItems(s, of)
  ELSE IF IsOrUntyped(s, "object", "additionalProperties") THEN
         IF Has(s, "additionalProperties") THEN Map(of[s.additionalProperties])
         ELSE <<"object">>
  ELSE Primitive(s.type[1])

(***************************************************************************)
(* generate_types.py.                                                      *)
(***************************************************************************)
\* Dropping the last character: of ">" nothing is left, of a name a fragment.
WithoutLastCharacter(t) ==
  IF t = <<>> THEN t
  ELSE IF Last(t) = ">" THEN Front(t)
  ELSE Append(Front(t), IF Last(t) \in RefNames \cup {"Unknown"} THEN "ref fragment" ELSE "fragment")

Inside(t) == WithoutLastCharacter(Tail(t))

HasComma(t)   == Contains(t, ",")
FirstComma(t) == Min({i \in DOMAIN t : t[i] = ","})
BeforeComma(t) == SubSeq(t, 1, FirstComma(t) - 1)

\* split(",", 1)[1].
AfterComma(t) == SubSeq(t, FirstComma(t) + 1, Len(t))

\* split(",").
SplitAtCommas[t \in TypeStrings] ==
  IF HasComma(t) THEN <<BeforeComma(t)>> \o SplitAtCommas[AfterComma(t)] ELSE <<t>>

PythonPrimitive ==
  [string |-> "str", integer |-> "int", float |-> "float", boolean |-> "bool",
   object |-> "dict[str,Any]", Unknown |-> "Any"]

StartsWith(t, token) == t # <<>> /\ Head(t) = token
NamesRef(t) == t # <<>> /\ Head(t) \in RefNames \cup {"Unknown", "ref fragment"}

MapToPython(t, of) ==
  Wrapped("dict[str,", IF HasComma(t) THEN of[AfterComma(t)] ELSE <<"Any">>, "]")

TupleToPython(parts, of) ==
  Wrapped("tuple[", Joined[[i \in DOMAIN parts |-> of[parts[i]]]], "]")

\* ir_type_to_python, in the order of its tests.
PythonOf(t, of) ==
  IF Len(t) = 1 /\ Head(t) \in DOMAIN PythonPrimitive THEN <<PythonPrimitive[Head(t)]>>
  ELSE IF StartsWith(t, "option<") THEN of[Inside(t)] \o <<"|None">>
  ELSE IF StartsWith(t, "array<") THEN Wrapped("list[", of[Inside(t)], "]")
  ELSE IF StartsWith(t, "map<") THEN MapToPython(Inside(t), of)
  ELSE IF StartsWith(t, "tuple<") THEN TupleToPython(SplitAtCommas[Inside(t)], of)
  ELSE IF NamesRef(t) THEN t ELSE <<"Any">>

ToPython[t \in TypeStrings] == PythonOf(t, ToPython)

\* Mutant: the elements of a tuple are not looked at.
TupleRefsForgotten(parts, of) == {}

TupleRefs(parts, of) == UNION {of[parts[i]] : i \in DOMAIN parts}

\* _extract_refs_from_type.
RefsOf(t, of) ==
  IF t = Unknown THEN {}
  ELSE IF NamesRef(t) THEN {IF Len(t) = 1 THEN Head(t) ELSE "ref fragment"}
  ELSE IF StartsWith(t, "option<") \/ StartsWith(t, "array<") THEN of[Inside(t)]
  ELSE IF StartsWith(t, "map<") THEN IF HasComma(Inside(t)) THEN of[AfterComma(Inside(t))] ELSE {}
  ELSE IF StartsWith(t, "tuple<") THEN TupleRefs(SplitAtCommas[Inside(t)], of)
  ELSE {}

RefsIn[t \in TypeStrings] == RefsOf(t, RefsIn)
=============================================================================
