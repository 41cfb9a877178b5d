---------------------------- MODULE SchemaGrowth ----------------------------
(***************************************************************************)
(* A schema grown the way schemars nests options, lists, maps and tuples,  *)
(* beside the type it is exported for and the type string canonical_type   *)
(* makes of it: what a step wraps was translated by the steps before it.   *)
(***************************************************************************)
EXTENDS SchemaTypes

CONSTANTS
  MaxDepth,  \* bound: how deep a type nests
  Beside,    \* the leaves that stand beside a type in a tuple
  MaxTuple   \* bound: the length of a tuple

VARIABLES
  schema,  \* the JSON Schema
  type,    \* the type it was exported for, as an annotation
  uses,    \* the names that type refers to
  depth,
  nested,  \* a tuple stands inside a tuple, or a map does
  ir       \* canonical_type of the schema

typeVars == <<schema, type, uses, depth, nested, ir>>

\* A leaf is a primitive or the name of a definition.
PrimitiveType == [string |-> "str", integer |-> "int", number |-> "float", boolean |-> "bool"]
Leaves == DOMAIN PrimitiveType \cup RefNames

LeafSchema(leaf) == IF leaf \in RefNames THEN [ref |-> leaf] ELSE [type |-> <<leaf>>]
LeafType(leaf)   == IF leaf \in RefNames THEN <<leaf>> ELSE <<PrimitiveType[leaf]>>
LeafUses(leaf)   == RefNames \cap {leaf}

\* Nothing stands inside the schema of a leaf.
NoneInside == <<>>
LeafIr(leaf) == CanonicalType(LeafSchema(leaf), NoneInside)

ASSUME GrowthAssumption == Beside \subseteq Leaves /\ MaxDepth \in Nat /\ MaxTuple \in Nat

TypesInit ==
  /\ \E leaf \in Leaves :
       schema = LeafSchema(leaf) /\ type = LeafType(leaf) /\ uses = LeafUses(leaf) /\ ir = LeafIr(leaf)
  /\ depth = 0 /\ nested = FALSE

\* What the schemas at hand were translated to.
Translated ==
  [s \in {schema} \cup {LeafSchema(leaf) : leaf \in Beside} |->
     IF s = schema THEN ir ELSE CanonicalType(s, NoneInside)]

Grows ==
  /\ depth < MaxDepth /\ depth' = depth + 1
  /\ ir' = CanonicalType(schema', Translated)

IsNullable == Last(type) = "|None"

\* Option<T>: null joins the list of types, or an anyOf beside a $ref.
WrapOption ==
  /\ ~IsNullable
  /\ schema' = IF Has(schema, "type") THEN [schema EXCEPT !.type = Append(@, "null")]
               ELSE [anyOf |-> <<schema, [type |-> <<"null">>]>>]
  /\ type' = type \o <<"|None">>
  /\ Grows
  /\ UNCHANGED <<uses, nested>>

\* Vec<T>.
WrapArray ==
  /\ schema' = [type |-> <<"array">>, items |-> schema]
  /\ type' = Wrapped("list[", type, "]")
  /\ Grows
  /\ UNCHANGED <<uses, nested>>

\* HashMap<String, T>.
WrapMap ==
  /\ schema' = [type |-> <<"object">>, additionalProperties |-> schema]
  /\ type' = Wrapped("dict[str,", type, "]")
  /\ Grows
  /\ UNCHANGED <<uses, nested>>

HoldsTupleOrMap == \E i \in DOMAIN type : type[i] \in {"tuple[", "dict[str,"}

\* A tuple with T in one place and leaves in the others.
WrapTuple ==
  /\ \E leaves \in BoundedSeq(Beside, MaxTuple) : \E place \in DOMAIN leaves :
       /\ schema' = [type |-> <<"array">>,
                     prefixItems |-> [i \in DOMAIN leaves |->
                                        IF i = place THEN schema ELSE LeafSchema(leaves[i])]]
       /\ type' = Wrapped("tuple[", Joined[[i \in DOMAIN leaves |->
                                              IF i = place THEN type ELSE LeafType(leaves[i])]], "]")
       /\ uses' = uses \cup UNION {LeafUses(leaves[i]) : i \in DOMAIN leaves \ {place}}
  /\ Grows
  /\ nested' = (nested \/ HoldsTupleOrMap)

TypesNext == WrapOption \/ WrapArray \/ WrapMap \/ WrapTuple

TypesSpec == TypesInit /\ [][TypesNext]_typeVars

(***************************************************************************)
(* Properties.                                                             *)
(***************************************************************************)
\* The annotation of a field is the type it was exported for, however options,
\* lists, maps and tuples nest, as long as no comma stands inside a tuple
\* (normalize_ir.py:28-138, generate_types.py:62-95).
FlatTypesSurvive == ~nested => ToPython[ir] = type

\* The imports of a file are the names its annotations use
\* (generate_types.py:440-456).
ImportsMatchUses == ~nested => RefsIn[ir] = uses
=============================================================================
