------------------------- MODULE TypePipelineProofs -------------------------
(***************************************************************************)
(* Theorems about TypePipeline, for any schemas and any files that people  *)
(* touch.                                                                  *)
(***************************************************************************)
EXTENDS TypePipeline, SequenceTheorems, TLAPS

(***************************************************************************)
(* The working tree.                                                       *)
(***************************************************************************)
\* The generated files of a version (generate_types.py:329-342).
LEMMA FreshFiles ==
  /\ \A v \in Versions : Fresh(v) \in [FileNames -> Contents]
  /\ \A v \in Versions, e \in BOOLEAN : Content(v, e) \in Contents
  /\ Missing \in Contents
  /\ FileOrder \in Seq(FileNames) /\ FileOrder # <<>>
  /\ \A f \in FileNames : \E i \in 1..Len(FileOrder) : FileOrder[i] = f
<1>1. Versions \subseteq Nat
  BY SchemasAssumption DEF Versions
<1>2. FileOrder \in Seq(FileNames) /\ FileOrder # <<>>
  BY DEF FileOrder, FileNames
<1>3. DOMAIN FileOrder = 1..Len(FileOrder)
  BY <1>2
<1> QED
  BY <1>1, <1>2, <1>3 DEF Fresh, Content, Contents, Missing, None, FileNames

\* The head of the files to write is one of them.
LEMMA HeadOfWriting ==
  ASSUME PipelineTypeOK, ~Idle
  PROVE  /\ Head(writing) \in FileNames /\ Tail(writing) \in Seq(FileNames)
         /\ \A i \in 1..Len(writing) : writing[i] = Head(writing)
              \/ \E j \in 1..Len(Tail(writing)) : Tail(writing)[j] = writing[i]
<1>1. writing \in Seq(FileNames) /\ writing # <<>>
  BY DEF PipelineTypeOK, Idle
<1>2. /\ Head(writing) = writing[1] /\ Head(writing) \in FileNames /\ Tail(writing) \in Seq(FileNames)
      /\ Len(Tail(writing)) = Len(writing) - 1
      /\ \A j \in 1..(Len(writing) - 1) : Tail(writing)[j] = writing[j + 1]
  BY <1>1
<1>3. ASSUME NEW i \in 1..Len(writing), i # 1
      PROVE  \E j \in 1..Len(Tail(writing)) : Tail(writing)[j] = writing[i]
  <2>1. Len(writing) \in Nat
    BY <1>1
  <2>2. i - 1 \in 1..(Len(writing) - 1) /\ (i - 1) + 1 = i
    BY <1>3, <2>1
  <2>3. Tail(writing)[i - 1] = writing[i]
    BY <1>2, <2>2
  <2> QED
    BY <1>2, <2>2, <2>3
<1> QED
  BY <1>2, <1>3

LEMMA NoIndexOfEmpty == \A i \in 1..0 : FALSE
OBVIOUS

\* The state of the tree stays well-formed.
LEMMA InitPipelineType == PipelineInit => PipelineTypeOK
<1> SUFFICES ASSUME PipelineInit PROVE PipelineTypeOK
  OBVIOUS
<1>1. 1 \in Versions
  BY SchemasAssumption DEF Versions
<1>2. files \in [FileNames -> Contents]
  BY <1>1, FreshFiles DEF PipelineInit
<1>3. writing \in Seq(FileNames)
  BY DEF PipelineInit
<1> QED
  BY <1>1, <1>2, <1>3 DEF PipelineInit, PipelineTypeOK

LEMMA StepPipelineType == PipelineTypeOK /\ [PipelineNext]_pipelineVars => PipelineTypeOK'
<1> SUFFICES ASSUME PipelineTypeOK, [PipelineNext]_pipelineVars PROVE PipelineTypeOK'
  OBVIOUS
<1> USE DEF PipelineTypeOK
<1>1. CASE Export
  BY <1>1 DEF Export, Forget
<1>2. CASE Normalize
  BY <1>2 DEF Normalize
<1>3. CASE GenerateStarts
  BY <1>3, FreshFiles DEF GenerateStarts
<1>4. CASE WriteFile
  <2>1. files' \in [FileNames -> Contents]
    BY <1>4, FreshFiles DEF WriteFile
  <2> QED
    BY <1>4, <2>1, HeadOfWriting DEF WriteFile
<1>5. CASE GenerateStops
  <2>1. files' \in [FileNames -> Contents]
    BY <1>5, FreshFiles DEF GenerateStops
  <2>2. writing' = <<>> /\ <<>> \in Seq(FileNames)
    BY <1>5, EmptySeq DEF GenerateStops
  <2> QED
    BY <1>5, <2>1, <2>2 DEF GenerateStops, Forget
<1>6. CASE StrayFile
  BY <1>6 DEF StrayFile, Forget
<1>7. CASE Verify
  BY <1>7 DEF Verify
<1>8. ASSUME NEW f \in Touched, EditFile(f) \/ DeleteFile(f) PROVE PipelineTypeOK'
  <2>1. CASE EditFile(f)
    <3>1. files' = [files EXCEPT ![f] = [files[f] EXCEPT !.edited = TRUE]]
      BY <2>1 DEF EditFile
    <3>2. f \in FileNames => [files[f] EXCEPT !.edited = TRUE] \in Contents
      BY DEF Contents
    <3>3. files' \in [FileNames -> Contents]
      BY <3>1, <3>2
    <3> QED
      BY <2>1, <3>3 DEF EditFile, Forget
  <2>2. CASE DeleteFile(f)
    <3>1. files' \in [FileNames -> Contents]
      BY <2>2, FreshFiles DEF DeleteFile
    <3> QED
      BY <2>2, <3>1 DEF DeleteFile, Forget
  <2> QED
    BY <1>8, <2>1, <2>2
<1>9. CASE UNCHANGED pipelineVars
  BY <1>9 DEF pipelineVars
<1> QED
  BY <1>1, <1>2, <1>3, <1>4, <1>5, <1>6, <1>7, <1>8, <1>9 DEF PipelineNext

LEMMA PipelineTypeInvariance == PipelineSpec => []PipelineTypeOK
BY InitPipelineType, StepPipelineType, PTL DEF PipelineSpec

(***************************************************************************)
(* The advice.                                                             *)
(***************************************************************************)
\* The file has been written, or is still to be.
WrittenOrDue(f) == files[f] = Content(ir, FALSE) \/ \E i \in 1..Len(writing) : writing[i] = f

\* While the generator runs, what it has passed is fresh; so is everything once
\* the advice has been followed to the end, and its first half is the schema's IR.
AdviceInv ==
  /\ advice \in {"normalized", "generated"} => ir = exported
  /\ ~Idle => \A f \in FileNames : WrittenOrDue(f)
  /\ advice = "generated" => files = Fresh(ir)
  /\ advice = "in vain" => stray

LEMMA StepAdvice ==
  PipelineTypeOK /\ AdviceInv /\ [PipelineNext]_pipelineVars => AdviceInv'
<1> SUFFICES ASSUME PipelineTypeOK, AdviceInv, [PipelineNext]_pipelineVars PROVE AdviceInv'
  OBVIOUS
<1> USE DEF AdviceInv
<1>1. CASE Export \/ Normalize \/ StrayFile
  BY <1>1 DEF Export, Normalize, StrayFile, Forget, Idle
<1>2. CASE GenerateStarts
  BY <1>2, FreshFiles DEF GenerateStarts, WrittenOrDue, Idle
<1>3. CASE WriteFile
  <2> DEFINE h == Head(writing)
  <2>1. /\ h \in FileNames /\ files \in [FileNames -> Contents]
        /\ files' = [files EXCEPT ![h] = Content(ir, FALSE)] /\ ~Idle
        /\ writing' = Tail(writing) /\ UNCHANGED <<exported, ir, stray>>
    BY <1>3, HeadOfWriting DEF WriteFile, PipelineTypeOK
  <2>2. \A f \in FileNames : f # h => WrittenOrDue(f) /\ files'[f] = files[f]
    BY <2>1
  <2>3. files'[h] = Content(ir, FALSE)
    BY <2>1
  <2>4. ASSUME NEW f \in FileNames PROVE WrittenOrDue(f)'
    <3>1. CASE f = h
      BY <2>1, <2>3, <3>1 DEF WrittenOrDue
    <3>2. CASE f # h /\ files[f] = Content(ir, FALSE)
      BY <2>1, <2>2, <3>2 DEF WrittenOrDue
    <3>3. CASE f # h /\ \E i \in 1..Len(writing) : writing[i] = f
      <4>1. \E j \in 1..Len(Tail(writing)) : Tail(writing)[j] = f
        BY <2>1, <3>3, HeadOfWriting
      <4> QED
        BY <2>1, <4>1 DEF WrittenOrDue
    <3> QED
      BY <2>2, <3>1, <3>2, <3>3 DEF WrittenOrDue
  <2>5. writing' = <<>> => files' = Fresh(ir')
    <3> SUFFICES ASSUME writing' = <<>>, NEW f \in FileNames PROVE files'[f] = Content(ir, FALSE)
      BY <2>1 DEF Fresh
    <3>1. Len(writing') = 0
      BY EmptySeq, Zenon
    <3>2. files'[f] = Content(ir', FALSE) \/ \E i \in 1..Len(writing') : writing'[i] = f
      BY <2>4 DEF WrittenOrDue
    <3> QED
      BY <2>1, <3>1, <3>2, NoIndexOfEmpty
  <2>6. files = Fresh(ir) => files' = Fresh(ir')
    BY <2>1 DEF Fresh
  <2>7. advice' = "generated" => files' = Fresh(ir')
    BY <1>3, <2>1, <2>5, <2>6 DEF WriteFile
  <2>8. /\ advice' = "in vain" => advice = "in vain"
        /\ advice' \in {"normalized", "generated"} => advice \in {"normalized", "generated"}
    BY <1>3 DEF WriteFile
  <2> QED
    BY <2>1, <2>4, <2>7, <2>8
<1>4. CASE GenerateStops
  BY <1>4 DEF GenerateStops, Forget, Idle
<1>5. CASE Verify
  BY <1>5 DEF Verify, UpToDate, Idle
<1>6. ASSUME NEW f \in Touched, EditFile(f) \/ DeleteFile(f) PROVE AdviceInv'
  BY <1>6 DEF EditFile, DeleteFile, Forget, Idle
<1>7. CASE UNCHANGED pipelineVars
  BY <1>7 DEF pipelineVars, Idle, WrittenOrDue
<1> QED
  BY <1>1, <1>2, <1>3, <1>4, <1>5, <1>6, <1>7 DEF PipelineNext

\* Whatever state the tree was in, normalizing and generating as a failed check
\* says brings all files to the exported schema and makes the next check pass,
\* but for a file the generator does not write (verify_generated.py:95-101,
\* generate_types.py:243-432).
THEOREM AdviceWorks == PipelineSpec => []AdviceWorksButForStrays
<1>1. PipelineInit => AdviceInv
  BY DEF PipelineInit, AdviceInv, Idle
<1>2. AdviceInv => AdviceWorksButForStrays
  BY DEF AdviceInv, AdviceWorksButForStrays
<1> QED
  BY <1>1, <1>2, InitPipelineType, StepPipelineType, StepAdvice, PTL DEF PipelineSpec

(***************************************************************************)
(* What is generated.                                                      *)
(***************************************************************************)
\* The types of a schema are the names it declares; an enum has the entries of
\* its name that are classified (normalize_ir.py:277-392).
LEMMA TypesOfSchema ==
  ASSUME NEW schema
  PROVE  /\ \A t \in Types(schema) :
              \/ /\ t.kind = "enum" /\ t.name \in EnumNames(schema)
                 /\ t.variants = Variants(Declared(schema, t.name))
              \/ /\ t.kind = "struct" /\ t.name \in StructNames(schema)
                 /\ t.variants = {} /\ t.refs = schema.defs[t.name].refs
         /\ \A n \in EnumNames(schema) \cup StructNames(schema) : \E t \in Types(schema) : t.name = n
<1>1. ASSUME NEW t \in TopEnums(schema)
      PROVE  t.kind = "enum" /\ t.name \in DOMAIN schema.tops /\ t.variants = Variants(schema.tops[t.name])
  BY DEF TopEnums, EnumType
<1>2. ASSUME NEW n \in DefsOf(schema, "oneOf") \ DOMAIN schema.tops
      PROVE  LET t == EnumType(n, schema.defs[n].entries) IN
             t.kind = "enum" /\ t.name = n /\ t.variants = Variants(schema.defs[n].entries)
  BY DEF EnumType
<1>3. ASSUME NEW n \in DefsOf(schema, "struct")
      PROVE  LET t == StructType(n, schema.defs[n].refs) IN
             t.kind = "struct" /\ t.name = n /\ t.variants = {} /\ t.refs = schema.defs[n].refs
  BY DEF StructType
<1>4. ASSUME NEW n \in DOMAIN schema.tops PROVE \E t \in TopEnums(schema) : t.name = n
  <2>1. EnumType(n, schema.tops[n]) \in TopEnums(schema)
    BY DEF TopEnums
  <2> QED
    BY <2>1 DEF EnumType
<1> QED
  BY <1>1, <1>2, <1>3, <1>4 DEF Types, EnumNames, StructNames, Declared

\* An enum of the schema is a type of the IR, with its classified variants.
LEMMA EnumOfSchema ==
  ASSUME NEW schema, NEW n \in EnumNames(schema)
  PROVE  \E t \in Types(schema) :
           t.name = n /\ t.kind = "enum" /\ t.variants = Variants(Declared(schema, n))
<1>1. CASE n \in DOMAIN schema.tops
  <2>1. EnumType(n, schema.tops[n]) \in Types(schema)
    BY <1>1 DEF Types, TopEnums
  <2> QED
    BY <1>1, <2>1 DEF EnumType, Declared
<1>2. CASE n \notin DOMAIN schema.tops
  <2>1. EnumType(n, schema.defs[n].entries) \in Types(schema)
    BY <1>2 DEF Types, EnumNames
  <2> QED
    BY <1>2, <2>1 DEF EnumType, Declared
<1> QED
  BY <1>1, <1>2

\* What a variant of the IR refers to was in the JSON it was made from.
LEMMA ClassifiedRefs ==
  ASSUME NEW declared, NEW v \in Variants(declared)
  PROVE  \E d \in declared : \A n \in VariantRefs(v) : n \in JsonRefs(d)
<1>1. PICK d \in declared : v \in ClassifyEntry(d)
  BY DEF Variants
<1>2. \/ v.fields = {} /\ v.inner = {}
      \/ v.fields = d.payload.fields /\ v.inner = {}
      \/ v.fields = {} /\ v.inner = d.payload.inner
  BY <1>1 DEF ClassifyEntry, ClassifyPayload, Unit, Struct, Newtype, Variant
<1>3. \A n \in VariantRefs(v) : n \in JsonRefs(d)
  BY <1>2 DEF VariantRefs, JsonRefs
<1> QED
  BY <1>3

\* The classes of models.py and of the files of the top-level enums.
LEMMA ClassesOfFile ==
  ASSUME NEW types
  PROVE  /\ Classes("models", types) = ModelClasses(types)
         /\ \A f \in DOMAIN EnumFiles : Classes(f, types) = TopClasses(f, types)
         /\ \A f \in FileNames : f = "models" \/ f \in DOMAIN EnumFiles \/ Classes(f, types) = {}
<1>1. DOMAIN EnumFiles = {"action", "event", "request", "reply"}
  BY DEF EnumFiles
<1>2. Classes("models", types) = ModelClasses(types)
  <2>1. "models" \notin DOMAIN EnumFiles
    BY <1>1
  <2> QED
    BY <2>1, Zenon DEF Classes
<1>3. ASSUME NEW f \in DOMAIN EnumFiles PROVE Classes(f, types) = TopClasses(f, types)
  <2>1. f # "models"
    BY <1>1
  <2> QED
    BY <2>1, Zenon DEF Classes
<1>4. ASSUME NEW f, f # "models", f \notin DOMAIN EnumFiles PROVE Classes(f, types) = {}
  BY <1>4, Zenon DEF Classes
<1> QED
  BY <1>2, <1>3, <1>4

\* The chain of classify_variants takes every form that the exporter writes, and
\* that it has a branch for, to what was declared (normalize_ir.py:141-244).
LEMMA ClassifiedAsMeant ==
  ASSUME NEW d, Exported(d), ~Unsupported(d)
  PROVE  Meaning(d) \in ClassifyEntry(d)
<1> DEFINE p == d.payload
<1> USE DEF Meaning, ClassifyEntry, Unit, Struct, Newtype
<1>1. CASE ExportedUnit(d)
  BY <1>1 DEF ExportedUnit, Unsupported
<1>2. CASE ExportedStruct(d)
  <2>1. /\ d.kind = "struct" /\ d.inner = {} /\ ~d.const /\ d.single /\ p.type = "object" /\ ~p.map
        /\ p.fields = d.fields /\ (d.fields # {} => HasProperties(p))
        /\ p.keys \cap {"$ref", "anyOf"} = {}
    BY <1>2 DEF ExportedStruct
  <2>2. ClassifyPayload(d.name, p) = Struct(d.name, d.fields)
    BY <2>1 DEF ClassifyPayload, IsPlainObject
  <2> QED
    BY <2>1, <2>2
<1>3. CASE ExportedNewtype(d)
  <2>1. /\ d.kind = "newtype" /\ d.fields = {} /\ ~d.const /\ d.single
        /\ p.fields = {} /\ p.inner = d.inner /\ ~HasProperties(p)
    BY <1>3 DEF ExportedNewtype, HasProperties
  <2>2. ClassifyPayload(d.name, p) = Newtype(d.name, d.inner)
    <3>1. CASE p.type = "none"
      <4>1. p.keys \cap {"$ref", "anyOf"} # {}
        BY <2>1, <3>1 DEF Unsupported
      <4> QED
        BY <2>1, <3>1, <4>1 DEF ClassifyPayload
    <3>2. CASE p.type \notin {"none", "object"}
      BY <2>1, <3>2 DEF ClassifyPayload, IsPlainObject
    <3>3. CASE p.type = "object"
      <4>1. p.map /\ "additionalProperties" \in p.keys
        BY <1>3, <2>1, <3>3 DEF Unsupported, IsPlainObject, ExportedNewtype
      <4> QED
        BY <2>1, <3>3, <4>1 DEF ClassifyPayload, IsPlainObject
    <3> QED
      BY <3>1, <3>2, <3>3
  <2> QED
    BY <2>1, <2>2
<1> QED
  BY <1>1, <1>2, <1>3 DEF Exported

\* When a check has passed, every variant that upstream declares is in the types
\* that the files are generated from, with its kind, its fields and its names, but
\* for the forms without a branch; for any schemas that the exporter can write
\* (normalize_ir.py:141-299).
THEOREM NothingIsDropped ==
  ASSUME \A v \in Versions : WellExported(Schemas[v])
  PROVE  PipelineSpec => []NothingDropped
<1>1. ASSUME NEW schema, WellExported(schema), NEW n \in EnumNames(schema)
      PROVE  \E t \in Types(schema) :
               /\ t.name = n /\ t.kind = "enum"
               /\ \A d \in Declared(schema, n) : Unsupported(d) \/ Meaning(d) \in t.variants
  <2>1. PICK t \in Types(schema) : t.name = n /\ t.kind = "enum" /\ t.variants = Variants(Declared(schema, n))
    BY EnumOfSchema
  <2>2. ASSUME NEW d \in Declared(schema, n), ~Unsupported(d) PROVE Meaning(d) \in t.variants
    <3>1. Meaning(d) \in ClassifyEntry(d)
      BY <1>1, <2>2, ClassifiedAsMeant DEF WellExported
    <3> QED
      BY <2>1, <3>1 DEF Variants
  <2> QED
    BY <2>1, <2>2
<1>2. PipelineTypeOK => NothingDropped
  BY <1>1 DEF PipelineTypeOK, NothingDropped
<1> QED
  BY <1>2, PipelineTypeInvariance, PTL

\* A top-level enum has a file, and its class is defined in it
\* (generate_types.py:314-342).
LEMMA FileOfTopLevelEnum ==
  ASSUME NEW schema, NamesResolve(schema), NEW f \in DOMAIN EnumFiles, NEW n \in EnumFiles[f],
         n \in EnumNames(schema) \cup StructNames(schema)
  PROVE  <<n>> \in DefinedIn(f, Types(schema))
<1>1. n \in TopLevelEnums
  BY DEF EnumFiles, TopLevelEnums
<1>2. PICK t \in Types(schema) : t.name = n
  BY TypesOfSchema
<1>3. t.kind = "enum" /\ n \in EnumNames(schema) /\ t.variants = Variants(Declared(schema, n))
  BY <1>1, <1>2, TypesOfSchema DEF NamesResolve
<1>4. PICK d \in Declared(schema, n) : ~d.const /\ d.single
  BY <1>1, <1>3 DEF NamesResolve
<1>5. PICK v \in t.variants : v.kind # "unit"
  <2>1. ClassifyPayload(d.name, d.payload) \in t.variants
    BY <1>3, <1>4 DEF Variants, ClassifyEntry
  <2>2. ClassifyPayload(d.name, d.payload).kind \in {"struct", "newtype"}
    BY DEF ClassifyPayload, Struct, Newtype, Variant
  <2> QED
    BY <2>1, <2>2
<1>6. ~AllUnit(t)
  BY <1>5 DEF AllUnit
<1>7. t \in InFile(f, Types(schema)) /\ Class(<<n>>, {}) \in ClassesOf(t)
  BY <1>2, <1>3, <1>6 DEF InFile, ClassesOf
<1>8. Class(<<n>>, {}) \in Classes(f, Types(schema))
  BY <1>7, ClassesOfFile DEF TopClasses
<1> QED
  BY <1>8 DEF DefinedIn, Class

\* Any other name is defined in models.py (generate_types.py:314-342).
LEMMA ModelsHoldTheRest ==
  ASSUME NEW schema, NEW n \in (EnumNames(schema) \cup StructNames(schema)) \ TopLevelEnums
  PROVE  <<n>> \in DefinedIn("models", Types(schema))
<1>1. PICK t \in Types(schema) : t.name = n
  BY TypesOfSchema
<1>2. \E u : Class(<<n>>, u) \in ClassesOf(t)
  BY <1>1 DEF ClassesOf
<1>3. \E u : Class(<<n>>, u) \in Classes("models", Types(schema))
  BY <1>1, <1>2, ClassesOfFile DEF ModelClasses
<1> QED
  BY <1>3 DEF DefinedIn, Class

\* What a type of the schema refers to is declared.
LEMMA UsesResolve ==
  ASSUME NEW schema, NamesResolve(schema), NEW t \in Types(schema), NEW c \in ClassesOf(t), NEW n \in c.uses
  PROVE  /\ n \in EnumNames(schema) \cup StructNames(schema)
         /\ t.name \notin TopLevelEnums => n \notin TopLevelEnums
         /\ t.name \in TopLevelEnums => \E v \in t.variants : n \in VariantRefs(v)
<1>1. CASE t.kind = "struct" /\ t.name \in StructNames(schema) /\ t.refs = schema.defs[t.name].refs
  <2>1. n \in schema.defs[t.name].refs /\ t.name \notin TopLevelEnums
    BY <1>1 DEF ClassesOf, Class, NamesResolve
  <2> QED
    BY <1>1, <2>1 DEF NamesResolve
<1>2. CASE /\ t.kind = "enum" /\ t.name \in EnumNames(schema)
           /\ t.variants = Variants(Declared(schema, t.name))
  <2>1. c \in VariantClasses(t) \/ c = Class(<<t.name>>, {})
    BY <1>2 DEF ClassesOf
  <2>2. PICK v \in t.variants : c = Class(<<v.name, t.name>>, VariantRefs(v))
    BY <2>1 DEF VariantClasses, Class
  <2>3. n \in VariantRefs(v)
    BY <2>2 DEF Class
  <2>4. PICK d \in Declared(schema, t.name) : n \in JsonRefs(d)
    BY <1>2, <2>3, ClassifiedRefs
  <2> QED
    BY <1>2, <2>3, <2>4 DEF NamesResolve
<1> QED
  BY <1>1, <1>2, TypesOfSchema

\* When a check has passed, every name that a generated annotation uses is
\* defined in its file or imported from the file that defines it, for any
\* schema whose names resolve (generate_types.py:314-432).
THEOREM GeneratedFilesAreClosed ==
  ASSUME \A v \in Versions : NamesResolve(Schemas[v])
  PROVE  PipelineSpec => []GeneratedIsClosed
<1>1. ASSUME NEW schema, NamesResolve(schema), NEW f \in FileNames, NEW c \in Classes(f, Types(schema)), NEW n \in c.uses
      PROVE  <<n>> \in DefinedIn(f, Types(schema)) \/ n \in Imports(f, Types(schema))
  <2>1. CASE f = "models"
    <3>1. PICK t \in Types(schema) : t.name \notin TopLevelEnums /\ c \in ClassesOf(t)
      BY <2>1, ClassesOfFile DEF ModelClasses
    <3> QED
      BY <1>1, <2>1, <3>1, UsesResolve, ModelsHoldTheRest
  <2>2. CASE f \in DOMAIN EnumFiles
    <3>1. PICK t \in Types(schema) : t.name \in EnumFiles[f] /\ c \in ClassesOf(t)
      BY <2>2, ClassesOfFile DEF TopClasses, InFile
    <3>2. t.name \in TopLevelEnums
      BY <2>2, <3>1 DEF EnumFiles, TopLevelEnums
    <3>3. n \in EnumNames(schema) \cup StructNames(schema) /\ \E v \in t.variants : n \in VariantRefs(v)
      BY <1>1, <3>1, <3>2, UsesResolve
    <3>4. CASE n \in EnumFiles[f]
      BY <1>1, <2>2, <3>3, <3>4, FileOfTopLevelEnum
    <3>5. CASE n \notin EnumFiles[f]
      <4>1. n \in {u.name : u \in Types(schema)}
        BY <3>3, TypesOfSchema
      <4> QED
        BY <2>2, <3>1, <3>3, <3>5, <4>1 DEF Imports
    <3> QED
      BY <3>4, <3>5
  <2> QED
    BY <1>1, <2>1, <2>2, ClassesOfFile
<1>2. ASSUME NEW schema, NamesResolve(schema), NEW f \in FileNames, NEW n \in Imports(f, Types(schema))
      PROVE  <<n>> \in DefinedIn(HomeOf(n), Types(schema))
  <2>1. n \in {u.name : u \in Types(schema)}
    BY <1>2 DEF Imports
  <2>2. n \in EnumNames(schema) \cup StructNames(schema)
    BY <2>1, TypesOfSchema
  <2>3. CASE n \in TopLevelEnums
    <3>1. \E g \in DOMAIN EnumFiles : n \in EnumFiles[g]
      BY <2>3 DEF EnumFiles, TopLevelEnums
    <3>2. HomeOf(n) \in DOMAIN EnumFiles /\ n \in EnumFiles[HomeOf(n)]
      BY <2>3, <3>1 DEF HomeOf
    <3> QED
      BY <1>2, <2>2, <3>2, FileOfTopLevelEnum
  <2>4. CASE n \notin TopLevelEnums
    BY <2>2, <2>4, ModelsHoldTheRest DEF HomeOf
  <2> QED
    BY <2>3, <2>4
<1>3. PipelineTypeOK => GeneratedIsClosed
  BY <1>1, <1>2 DEF PipelineTypeOK, GeneratedIsClosed
<1> QED
  BY <1>3, PipelineTypeInvariance, PTL
=============================================================================
