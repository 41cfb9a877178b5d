---------------------------- MODULE TypePipeline ----------------------------
(***************************************************************************)
(* From the exported schema to the committed Python files: normalize_ir,   *)
(* generate_types and verify_generated (tools/), run by hand or by CI on    *)
(* files that people may also edit.                                        *)
(*                                                                         *)
(* Schemas are numbered; a schema has the variants of its top-level oneOfs *)
(* and its $defs.  Normalizing and generating are functions of the schema, *)
(* so the IR and a file are known by the number of the schema they come    *)
(* from, which is also what the hashes in them tell.  How the type of a    *)
(* field is translated is the subject of SchemaTypes; here it is the set   *)
(* of names it refers to.                                                  *)
(***************************************************************************)
EXTENDS VariantShapes, Naturals, Sequences, FiniteSets

CONSTANTS
  Schemas,  \* the schemas that upstream publishes, in order
  Touched   \* bound: the generated files that are edited, deleted or cut short

ASSUME SchemasAssumption == Len(Schemas) \in Nat \ {0}

Versions == 1..Len(Schemas)
None     == 0

(***************************************************************************)
(* normalize_ir: the types of the IR.                                      *)
(***************************************************************************)
EnumType(name, entries) == [name |-> name, kind |-> "enum", variants |-> Variants(entries), refs |-> {}]
StructType(name, refs)  == [name |-> name, kind |-> "struct", variants |-> {}, refs |-> refs]

DefsOf(schema, shape) == {n \in DOMAIN schema.defs : schema.defs[n].shape = shape}

TopEnums(schema) == {EnumType(n, schema.tops[n]) : n \in DOMAIN schema.tops}

\* The "types" of the IR.  A name that is also a top-level enum is taken from
\* there; a definition that is neither an object nor a oneOf is left out.
Types(schema) ==
  TopEnums(schema)
    \cup {EnumType(n, schema.defs[n].entries) :
            n \in DefsOf(schema, "oneOf") \ DOMAIN schema.tops}
    \cup {StructType(n, schema.defs[n].refs) : n \in DefsOf(schema, "struct")}

(***************************************************************************)
(* generate_types: a file is its classes and its imports.                  *)
(***************************************************************************)
TopLevelEnums == {"Request", "Reply", "Response", "Event", "Action"}

EnumFiles ==
  [action |-> {"Action"}, event |-> {"Event"}, request |-> {"Request"},
   reply |-> {"Response", "Reply"}]

\* The order in which main() writes them.
FileOrder == <<"_metadata", "models", "action", "event", "request", "reply", "__init__">>
FileNames == {FileOrder[i] : i \in DOMAIN FileOrder}

Class(name, uses) == [name |-> name, uses |-> uses]
AllUnit(type) == type.kind = "enum" /\ \A v \in type.variants : v.kind = "unit"

VariantClasses(type) == {Class(<<v.name, type.name>>, VariantRefs(v)) : v \in type.variants}

\* A StrEnum for an enum of units; else a class for each variant and the wrapper.
ClassesOf(type) ==
  IF type.kind = "struct" THEN {Class(<<type.name>>, type.refs)}
  ELSE IF AllUnit(type) THEN {Class(<<type.name>>, {})}
  ELSE VariantClasses(type) \cup {Class(<<type.name>>, {})}

ModelClasses(types) == UNION {ClassesOf(t) : t \in {u \in types : u.name \notin TopLevelEnums}}

\* An all-unit enum of the top level has no file.
InFile(file, types) == {t \in types : t.name \in EnumFiles[file] /\ ~AllUnit(t)}
TopClasses(file, types) == UNION {ClassesOf(t) : t \in InFile(file, types)}

Classes(file, types) ==
  CASE file = "models"          -> ModelClasses(types)
    [] file \in DOMAIN EnumFiles -> TopClasses(file, types)
    [] OTHER                     -> {}

\* Mutant: what a struct variant refers to is not imported.
ImportsOfNewtypes(file, types) ==
  IF file \notin DOMAIN EnumFiles THEN {}
  ELSE ((UNION {UNION {v.inner : v \in t.variants} :
                  t \in {u \in types : u.name \in EnumFiles[file]}})
        \cap {t.name : t \in types}) \ EnumFiles[file]

\* The names a file imports; models.py imports none.
Imports(file, types) ==
  IF file \notin DOMAIN EnumFiles THEN {}
  ELSE ((UNION {UNION {VariantRefs(v) : v \in t.variants} : t \in {u \in types : u.name \in EnumFiles[file]}})
        \cap {t.name : t \in types}) \ EnumFiles[file]

\* The file an imported name is expected in.
HomeOf(name) ==
  IF name \in TopLevelEnums THEN CHOOSE f \in DOMAIN EnumFiles : name \in EnumFiles[f] ELSE "models"

(***************************************************************************)
(* The working tree.                                                       *)
(***************************************************************************)
VARIABLES
  exported,  \* schema/exported: the schema in it
  ir,        \* schema/ir: the schema it was made from
  files,     \* types/generated: what each file holds
  stray,     \* types/generated holds a file the generator does not write
  writing,   \* files that the generator still has to write
  verdict,   \* what verify_generated said last
  advice     \* history: how far its advice was followed since, without a detour

pipelineVars == <<exported, ir, files, stray, writing, verdict, advice>>

\* edited: not what the generator writes, by hand or because it is cut short.
Content(v, edited) == [of |-> v, edited |-> edited]
Missing  == Content(None, FALSE)
Fresh(v) == [f \in FileNames |-> Content(v, FALSE)]

PipelineInit ==
  /\ exported = 1 /\ ir = 1
  /\ files = Fresh(1) /\ stray = FALSE
  /\ writing = <<>>
  /\ verdict = "none" /\ advice = "none"

Idle == writing = <<>>
Forget == verdict' = "none" /\ advice' = "none"

\* The exporter is run on another version of niri.
Export ==
  /\ Idle
  /\ exported' \in Versions \ {exported}
  /\ Forget
  /\ UNCHANGED <<ir, files, stray, writing>>

Normalize ==
  /\ Idle
  /\ ir' = exported
  /\ advice' = IF advice = "stale" THEN "normalized" ELSE "none"
  /\ verdict' = "none"
  /\ UNCHANGED <<exported, files, stray, writing>>

GenerateStarts ==
  /\ Idle
  /\ writing' = FileOrder
  /\ verdict' = "none"
  /\ UNCHANGED <<exported, ir, files, stray, advice>>

\* Mutant: a file that is there is not written again.
WriteFileIfMissing ==
  /\ ~Idle
  /\ files' = [files EXCEPT ![Head(writing)] = IF @ = Missing THEN Content(ir, FALSE) ELSE @]
  /\ writing' = Tail(writing)
  /\ advice' = IF advice = "normalized" /\ Tail(writing) = <<>> THEN "generated" ELSE advice
  /\ UNCHANGED <<exported, ir, stray, verdict>>

\* write_file; the IR was read at the start, but nothing changes it meanwhile.
WriteFile ==
  /\ ~Idle
  /\ files' = [files EXCEPT ![Head(writing)] = Content(ir, FALSE)]
  /\ writing' = Tail(writing)
  /\ advice' = IF advice = "normalized" /\ Tail(writing) = <<>> THEN "generated" ELSE advice
  /\ UNCHANGED <<exported, ir, stray, verdict>>

\* The generator is interrupted between two files, or in the middle of one.
GenerateStops ==
  /\ ~Idle
  /\ \/ UNCHANGED files
     \/ /\ Head(writing) \in Touched
        /\ files' = [files EXCEPT ![Head(writing)] = Content(ir, TRUE)]
  /\ writing' = <<>>
  /\ Forget
  /\ UNCHANGED <<exported, ir, stray>>

EditFile(f) ==
  /\ Idle /\ ~files[f].edited
  /\ files' = [files EXCEPT ![f].edited = TRUE]
  /\ Forget
  /\ UNCHANGED <<exported, ir, stray, writing>>

DeleteFile(f) ==
  /\ Idle /\ files[f] # Missing
  /\ files' = [files EXCEPT ![f] = Missing]
  /\ Forget
  /\ UNCHANGED <<exported, ir, stray, writing>>

\* A file that the generator does not write comes or goes.
StrayFile ==
  /\ Idle
  /\ stray' = ~stray
  /\ Forget
  /\ UNCHANGED <<exported, ir, files, writing>>

\* The committed files against fresh output: the same names, the same bytes.
UpToDate == files = Fresh(ir) /\ ~stray

Verify ==
  /\ Idle
  /\ verdict' = IF UpToDate THEN "ok" ELSE "out of date"
  /\ advice' = IF UpToDate THEN "none" ELSE IF advice = "generated" THEN "in vain" ELSE "stale"
  /\ UNCHANGED <<exported, ir, files, stray, writing>>

PipelineNext ==
  \/ Export \/ Normalize \/ GenerateStarts \/ WriteFile \/ GenerateStops \/ StrayFile \/ Verify
  \/ \E f \in Touched : EditFile(f) \/ DeleteFile(f)

PipelineSpec == PipelineInit /\ [][PipelineNext]_pipelineVars

(***************************************************************************)
(* Properties.                                                             *)
(***************************************************************************)
Verified == verdict = "ok"

\* The types of the variables; what is still to be written ends the list of files.
Contents == [of : Nat, edited : BOOLEAN]

PipelineTypeOK ==
  /\ exported \in Versions /\ ir \in Versions
  /\ files \in [FileNames -> Contents] /\ stray \in BOOLEAN
  /\ writing \in Seq(FileNames)
  /\ verdict \in {"none", "ok", "out of date"}
  /\ advice \in {"none", "stale", "normalized", "generated", "in vain"}

\* The enums and structs of a schema, and the declared variants of an enum.
EnumNames(schema)   == DOMAIN schema.tops \cup DefsOf(schema, "oneOf")
StructNames(schema) == DefsOf(schema, "struct")
Declared(schema, n) == IF n \in DOMAIN schema.tops THEN schema.tops[n] ELSE schema.defs[n].entries

\* A schema with what the exporter writes.
WellExported(schema) == \A n \in EnumNames(schema) : \A d \in Declared(schema, n) : Exported(d)

\* A schema whose names resolve: each is declared, only the top-level enums refer
\* to each other, and these are enums with more than constants.
NamesResolve(schema) ==
  LET names == EnumNames(schema) \cup StructNames(schema)
      MayUse(n) == IF n \in TopLevelEnums THEN names ELSE names \ TopLevelEnums
  IN /\ \A n \in EnumNames(schema) : \A d \in Declared(schema, n) : JsonRefs(d) \subseteq MayUse(n)
     /\ \A n \in StructNames(schema) : schema.defs[n].refs \subseteq MayUse(n)
     /\ StructNames(schema) \cap TopLevelEnums = {}
     /\ \A n \in EnumNames(schema) \cap TopLevelEnums :
          \E d \in Declared(schema, n) : ~d.const /\ d.single

\* Every name an annotation uses is defined in its file or imported from the
\* file that defines it, so that the package imports
\* (generate_types.py:314-432).
DefinedIn(f, types) == {c.name : c \in Classes(f, types)}
GeneratedIsClosed ==
  Verified =>
    LET types == Types(Schemas[ir]) IN
    \A f \in FileNames :
      /\ \A c \in Classes(f, types) : \A n \in c.uses :
           <<n>> \in DefinedIn(f, types) \/ n \in Imports(f, types)
      /\ \A n \in Imports(f, types) : <<n>> \in DefinedIn(HomeOf(n), types)

\* When a check has passed, every variant that upstream declares is in the types
\* the files are generated from as what it is: a unit, a struct with all its
\* fields, or a value with all the names in its type.  Lost are the forms that
\* the chain has no branch for (normalize_ir.py:141-246).
NothingDropped ==
  Verified =>
    LET schema == Schemas[ir] IN
    \A n \in EnumNames(schema) : \E t \in Types(schema) :
      /\ t.name = n /\ t.kind = "enum"
      /\ \A d \in Declared(schema, n) : Unsupported(d) \/ Meaning(d) \in t.variants

\* Doing what a failed check says to do brings all files to the exported schema,
\* however stale the IR was and whatever an interrupted run or a hand left in
\* them; and the next check succeeds, unless there is a file that the generator
\* does not write (verify_generated.py:49-101, generate_types.py:243-432).
AdviceWorksButForStrays ==
  /\ advice = "generated" => files = Fresh(exported)
  /\ advice = "in vain" => stray
=============================================================================
