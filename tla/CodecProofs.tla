---------------------------- MODULE CodecProofs ----------------------------
(***************************************************************************)
(* Proofs about CodecExchange, for every set of frames: what the tables    *)
(* and the decoder yield case by case, then decoding and encoding of flat  *)
(* and of nested models, then the properties of the exchange.              *)
(***************************************************************************)
EXTENDS CodecExchange, SequenceTheorems, TLAPS

---------------------------------------------------------------------------
(* Sequences of one and of two names. *)

LEMMA One ==
  ASSUME NEW a
  PROVE  /\ <<a>> # <<>> /\ Head(<<a>>) = a /\ Tail(<<a>>) = <<>> /\ Len(<<a>>) = 1
         /\ Front(<<a>>) = <<>> /\ Last(<<a>>) = a /\ <<a>> \o <<>> = <<a>>
<1>1. <<a>> # <<>> /\ Head(<<a>>) = a /\ Tail(<<a>>) = <<>> /\ Len(<<a>>) = 1
  OBVIOUS
<1>2. <<a>> \in Seq({a})
  OBVIOUS
<1>3. Front(<<a>>) = <<>>
  BY SubSeqEmpty DEF Front
<1>4. Last(<<a>>) = a
  BY DEF Last
<1> QED
  BY <1>1, <1>2, <1>3, <1>4, ConcatEmptySeq, Zenon

LEMMA Two ==
  ASSUME NEW a, NEW b
  PROVE  /\ <<a>> \o <<b>> = <<a, b>> /\ <<a, b>> \o <<>> = <<a, b>>
         /\ Front(<<a, b>>) = <<a>> /\ Last(<<a, b>>) = b
         /\ Head(<<a, b>>) = a /\ Tail(<<a, b>>) = <<b>> /\ <<a, b>> # <<>>
<1>1. <<a, b>> \in Seq({a, b}) /\ Len(<<a, b>>) = 2
  OBVIOUS
<1>2. <<a, b>> \o <<>> = <<a, b>>
  BY <1>1, ConcatEmptySeq, Zenon
<1>3. Front(<<a, b>>) = <<a>>
  <2>1. Front(<<a, b>>) = SubSeq(<<a, b>>, 1, 1)
    BY <1>1 DEF Front
  <2>2. SubSeq(<<a, b>>, 1, 1) \in Seq({a, b}) /\ Len(SubSeq(<<a, b>>, 1, 1)) = 1
    BY SubSeqProperties, <1>1
  <2>3. SubSeq(<<a, b>>, 1, 1)[1] = a
    BY SubSeqProperties, <1>1
  <2>4. <<a>> \in Seq({a, b}) /\ Len(<<a>>) = 1 /\ <<a>>[1] = a
    OBVIOUS
  <2> QED
    BY <2>1, <2>2, <2>3, <2>4, SeqEqual
<1>4. Last(<<a, b>>) = b
  BY <1>1 DEF Last
<1>5. <<a>> \o <<b>> = <<a, b>>
  <2>1. /\ <<a>> \in Seq({a, b}) /\ Len(<<a>>) = 1 /\ <<a>>[1] = a
        /\ <<b>> \in Seq({a, b}) /\ Len(<<b>>) = 1 /\ <<b>>[1] = b
    OBVIOUS
  <2>2. /\ <<a>> \o <<b>> \in Seq({a, b}) /\ Len(<<a>> \o <<b>>) = 2
        /\ (<<a>> \o <<b>>)[1] = a /\ (<<a>> \o <<b>>)[2] = b
    BY <2>1, ConcatProperties
  <2>3. \A i \in 1 .. 2 : (<<a>> \o <<b>>)[i] = <<a, b>>[i]
    BY <2>2
  <2> QED
    BY <1>1, <2>2, <2>3, SeqEqual, Zenon
<1>6. Head(<<a, b>>) = a /\ Tail(<<a, b>>) = <<b>> /\ <<a, b>> # <<>>
  OBVIOUS
<1> QED
  BY <1>2, <1>3, <1>4, <1>5, <1>6

LEMMA HeadOfCons ==
  ASSUME NEW S, NEW a \in S, NEW s \in Seq(S)
  PROVE  /\ <<a>> \o s \in Seq(S) /\ <<a>> \o s # <<>>
         /\ Head(<<a>> \o s) = a /\ Tail(<<a>> \o s) = s
<1>1. <<a>> \in Seq(S) /\ Len(<<a>>) = 1 /\ <<a>>[1] = a
  OBVIOUS
<1> DEFINE t == <<a>> \o s
<1>2. /\ t \in Seq(S) /\ Len(t) = 1 + Len(s) /\ t[1] = a
      /\ \A i \in 1 .. Len(s) : t[i + 1] = s[i]
  BY <1>1, ConcatProperties, LenProperties
<1> HIDE DEF t
<1>3. t # <<>> /\ Head(t) = a
  BY <1>2, LenProperties, EmptySeq
<1>4. Tail(t) \in Seq(S) /\ Len(Tail(t)) = Len(s) /\ \A i \in 1 .. Len(s) : Tail(t)[i] = s[i]
  BY <1>2, <1>3, HeadTailProperties, LenProperties
<1>5. Tail(t) = s
  BY <1>4, SeqEqual
<1> QED
  BY <1>2, <1>3, <1>5 DEF t

LEMMA HeadAndTail ==
  ASSUME NEW S, NEW s \in Seq(S), s # <<>>
  PROVE  <<Head(s)>> \o Tail(s) = s
<1>1. Head(s) \in S /\ Tail(s) \in Seq(S) /\ Len(Tail(s)) = Len(s) - 1 /\ Len(s) \in Nat \ {0}
      /\ \A i \in 1 .. Len(Tail(s)) : Tail(s)[i] = s[i + 1]
  BY HeadTailProperties, EmptySeq
<1>2. <<Head(s)>> \in Seq(S) /\ Len(<<Head(s)>>) = 1 /\ <<Head(s)>>[1] = s[1]
  BY <1>1
<1> DEFINE h == <<Head(s)>>
<1> HIDE DEF h
<1>3. h \o Tail(s) \in Seq(S) /\ Len(h \o Tail(s)) = Len(s)
      /\ \A i \in 1 .. Len(s) : (h \o Tail(s))[i] = s[i]
  BY <1>1, <1>2, ConcatProperties DEF h
<1>4. h \o Tail(s) = s
  BY <1>3, SeqEqual
<1> QED
  BY <1>4 DEF h

---------------------------------------------------------------------------
(* The tables. *)

LEMMA Tables ==
  /\ Table("Request") = RequestEnum /\ Table("Action") = ActionEnum /\ Table("Reply") = ReplyEnum
  /\ Table("Response") = ResponseEnum /\ Table("Event") = EventEnum
<1>1. Table("Request") = RequestEnum
  BY Zenon DEF Table
<1>2. Table("Action") = ActionEnum
  BY Zenon DEF Table
<1>3. Table("Reply") = ReplyEnum
  BY Zenon DEF Table
<1>4. Table("Response") = ResponseEnum
  BY Zenon DEF Table
<1>5. Table("Event") = EventEnum
  BY Zenon DEF Table
<1> QED
  BY <1>1, <1>2, <1>3, <1>4, <1>5

LEMMA InnerCases ==
  /\ Inner("Request", "Action") = "Action" /\ Inner("Reply", "Ok") = "Response"
  /\ \A e, n : \/ e = "Request" /\ n = "Action"
               \/ e = "Reply" /\ n = "Ok"
               \/ Inner(e, n) = "none"
<1>1. Inner("Request", "Action") = "Action"
  BY Zenon DEF Inner
<1>2. Inner("Reply", "Ok") = "Response"
  BY Zenon DEF Inner
<1>3. ASSUME NEW e, NEW n, ~(e = "Request" /\ n = "Action"), ~(e = "Reply" /\ n = "Ok")
      PROVE  Inner(e, n) = "none"
  BY <1>3, Zenon DEF Inner
<1> QED
  BY <1>1, <1>2, <1>3

\* The kinds of variants exclude each other.
LEMMA KindsExclude ==
  ASSUME NEW e \in Enums
  PROVE  /\ Table(e).unit \cap Table(e).newtype = {} /\ Table(e).unit \cap Table(e).struct = {}
         /\ Table(e).newtype \cap Table(e).struct = {}
         /\ Table(e).empty \subseteq Table(e).struct /\ Table(e).optional \subseteq Table(e).struct
         /\ Table(e).empty \cap Table(e).optional = {}
<1>1. CASE e = "Request"
  BY <1>1, Tables DEF RequestEnum
<1>2. CASE e = "Action"
  BY <1>2, Tables DEF ActionEnum
<1>3. CASE e = "Reply"
  BY <1>3, Tables DEF ReplyEnum
<1>4. CASE e = "Response"
  BY <1>4, Tables DEF ResponseEnum
<1>5. CASE e = "Event"
  BY <1>5, Tables DEF EventEnum
<1> QED
  BY <1>1, <1>2, <1>3, <1>4, <1>5 DEF Enums

\* No variant has the name of another leaf or of RootModel's field.
LEMMA KnownAreNames ==
  ASSUME NEW e \in Enums
  PROVE  \A n \in Known(e) : n # "root" /\ n # "unit" /\ IsName(n)
<1>1. CASE e = "Request"
  <2>1. Known(e) = RequestEnum.unit \cup RequestEnum.newtype \cup RequestEnum.struct
    BY <1>1, Tables DEF Known
  <2>2. ASSUME NEW n \in Known(e) PROVE n # "root" /\ n # "unit" /\ n \notin NonNames
    BY <2>1, <2>2 DEF RequestEnum, NonNames, Objects
  <2> QED
    BY <2>2 DEF IsName
<1>2. CASE e = "Action"
  <2>1. Known(e) = ActionEnum.unit \cup ActionEnum.newtype \cup ActionEnum.struct
    BY <1>2, Tables DEF Known
  <2>2. ASSUME NEW n \in Known(e) PROVE n # "root" /\ n # "unit" /\ n \notin NonNames
    BY <2>1, <2>2 DEF ActionEnum, NonNames, Objects
  <2> QED
    BY <2>2 DEF IsName
<1>3. CASE e = "Reply"
  <2>1. Known(e) = ReplyEnum.unit \cup ReplyEnum.newtype \cup ReplyEnum.struct
    BY <1>3, Tables DEF Known
  <2>2. ASSUME NEW n \in Known(e) PROVE n # "root" /\ n # "unit" /\ n \notin NonNames
    BY <2>1, <2>2 DEF ReplyEnum, NonNames, Objects
  <2> QED
    BY <2>2 DEF IsName
<1>4. CASE e = "Response"
  <2>1. Known(e) = ResponseEnum.unit \cup ResponseEnum.newtype \cup ResponseEnum.struct
    BY <1>4, Tables DEF Known
  <2>2. ASSUME NEW n \in Known(e) PROVE n # "root" /\ n # "unit" /\ n \notin NonNames
    BY <2>1, <2>2 DEF ResponseEnum, NonNames, Objects
  <2> QED
    BY <2>2 DEF IsName
<1>5. CASE e = "Event"
  <2>1. Known(e) = EventEnum.unit \cup EventEnum.newtype \cup EventEnum.struct
    BY <1>5, Tables DEF Known
  <2>2. ASSUME NEW n \in Known(e) PROVE n # "root" /\ n # "unit" /\ n \notin NonNames
    BY <2>1, <2>2 DEF EventEnum, NonNames, Objects
  <2> QED
    BY <2>2 DEF IsName
<1> QED
  BY <1>1, <1>2, <1>3, <1>4, <1>5 DEF Enums

---------------------------------------------------------------------------
(* The decoder, case by case. *)

\* The payload of a struct variant (codec.py:95-103).
LEMMA StructCases ==
  ASSUME NEW e \in Enums, NEW name, NEW w
  PROVE  /\ w = Payload("{}") /\ name \in Table(e).empty =>
              ValidateStruct(e, name, w) = Model(<<name>>, w)
         /\ w = Payload("{}") /\ name \in Table(e).optional =>
              ValidateStruct(e, name, w) = Model(<<name>>, Payload("fields"))
         /\ w = Payload("fields") /\ name \notin Table(e).empty =>
              ValidateStruct(e, name, w) = Model(<<name>>, w)
         /\ \/ w = Payload("{}") /\ name \in Table(e).empty
            \/ w = Payload("{}") /\ name \in Table(e).optional
            \/ w = Payload("fields") /\ name \notin Table(e).empty
            \/ ValidateStruct(e, name, w) = Raised("ValidationError")
<1>1. Payload("{}") # Payload("fields")
  BY DEF Payload, Wire
<1>2. Table(e).empty \cap Table(e).optional = {}
  BY KindsExclude
<1>3. ASSUME w = Payload("{}"), name \in Table(e).empty
      PROVE  ValidateStruct(e, name, w) = Model(<<name>>, w)
  BY <1>1, <1>2, <1>3, Zenon DEF ValidateStruct
<1>4. ASSUME w = Payload("{}"), name \in Table(e).optional
      PROVE  ValidateStruct(e, name, w) = Model(<<name>>, Payload("fields"))
  <2>1. name \notin Table(e).empty
    BY <1>2, <1>4
  <2> QED
    BY <1>1, <2>1, <1>4, Zenon DEF ValidateStruct
<1>5. ASSUME w = Payload("fields"), name \notin Table(e).empty
      PROVE  ValidateStruct(e, name, w) = Model(<<name>>, w)
  BY <1>1, <1>5, Zenon DEF ValidateStruct
<1>6. ASSUME ~(w = Payload("{}") /\ name \in Table(e).empty),
             ~(w = Payload("{}") /\ name \in Table(e).optional),
             ~(w = Payload("fields") /\ name \notin Table(e).empty)
      PROVE  ValidateStruct(e, name, w) = Raised("ValidationError")
  BY <1>6, Zenon DEF ValidateStruct
<1> QED
  BY <1>3, <1>4, <1>5, <1>6

\* An object with one key (codec.py:50-106).
LEMMA TaggedCases ==
  ASSUME NEW e \in Enums, NEW w, NEW nested, NEW name, w.tags # <<>>, name = Head(w.tags)
  PROVE  /\ name \notin Known(e) => Decode(e, w, nested) =
               IF HasUnknownModel(e) THEN Model(<<name>>, Below(w)) ELSE Raised("DecodeError")
         /\ name \in Table(e).unit => Decode(e, w, nested) =
               IF Below(w) = Payload("{}") THEN Model(<<name>>, UnitData) ELSE Raised("DecodeError")
         /\ name \in Table(e).newtype => Decode(e, w, nested) =
               IF Inner(e, name) # "none" THEN Under(name, nested)
               ELSE IF Below(w) = Payload("value") THEN Model(<<name>>, Below(w))
               ELSE Raised("ValidationError")
         /\ name \in Table(e).struct => Decode(e, w, nested) =
               IF IsObject(Below(w)) THEN ValidateStruct(e, name, Below(w)) ELSE Raised("DecodeError")
<1>1. CASE name \notin Known(e)
  <2>1. name \notin Table(e).unit /\ name \notin Table(e).newtype /\ name \notin Table(e).struct
    BY <1>1 DEF Known
  <2> QED
    BY <1>1, <2>1, Zenon DEF Decode
<1>2. CASE name \in Table(e).unit
  <2>1. name \in Known(e) /\ name \notin Table(e).newtype /\ name \notin Table(e).struct
    BY <1>2, KindsExclude DEF Known
  <2> QED
    BY <1>2, <2>1, Zenon DEF Decode
<1>3. CASE name \in Table(e).newtype
  <2>1. name \in Known(e) /\ name \notin Table(e).unit /\ name \notin Table(e).struct
    BY <1>3, KindsExclude DEF Known
  <2> QED
    BY <1>3, <2>1, Zenon DEF Decode
<1>4. CASE name \in Table(e).struct
  <2>1. name \in Known(e) /\ name \notin Table(e).unit /\ name \notin Table(e).newtype
    BY <1>4, KindsExclude DEF Known
  <2> QED
    BY <1>4, <2>1, Zenon DEF Decode
<1> QED
  BY <1>1, <1>2, <1>3, <1>4 DEF Known

---------------------------------------------------------------------------
(* What a decoded model can be. *)

\* A known variant that holds no enum.
FlatModel(e, m) ==
  \E n \in Known(e) :
    \/ n \in Table(e).unit /\ m = Model(<<n>>, UnitData)
    \/ n \in Table(e).newtype /\ Inner(e, n) = "none" /\ m = Model(<<n>>, Payload("value"))
    \/ n \in Table(e).empty /\ m = Model(<<n>>, Payload("{}"))
    \/ n \in Table(e).struct \ Table(e).empty /\ m = Model(<<n>>, Payload("fields"))

UnknownModel(e, m) ==
  /\ e = "Event"
  /\ \E n \in STRING \ Known(e), w \in JsonValues : m = Model(<<n>>, w)

NestedModel(e, m) ==
  \E n \in Known(e) : /\ Inner(e, n) # "none"
                      /\ \E r : FlatModel(Inner(e, n), r) /\ m = Under(n, r)

ModelOf(e, m) == FlatModel(e, m) \/ UnknownModel(e, m) \/ NestedModel(e, m)

---------------------------------------------------------------------------
(* Flat models. *)

LEMMA WireFields ==
  ASSUME NEW t, NEW leaf
  PROVE  /\ Wire(t, leaf).tags = t /\ Wire(t, leaf).leaf = leaf
         /\ Below(Wire(t, leaf)) = Wire(Tail(t), leaf)
<1>1. Wire(t, leaf).tags = t /\ Wire(t, leaf).leaf = leaf
  BY DEF Wire
<1>2. ASSUME NEW u PROVE [Wire(t, leaf) EXCEPT !.tags = u] = Wire(u, leaf)
  BY DEF Wire
<1>3. Below(Wire(t, leaf)) = [Wire(t, leaf) EXCEPT !.tags = Tail(t)]
  BY <1>1, Zenon DEF Below
<1> QED
  BY <1>1, <1>2, <1>3, Zenon

LEMMA ModelFields ==
  ASSUME NEW t, NEW d
  PROVE  Model(t, d).path = t /\ Model(t, d).data = d /\ IsModel(Model(t, d))
BY DEF Model, IsModel

LEMMA EncodeForms ==
  /\ \A n : Encode(Model(<<n>>, UnitData)) = Wire(<<>>, n)
  /\ \A n, leaf : leaf # "unit" => Encode(Model(<<n>>, Payload(leaf))) = Wire(<<n>>, leaf)
  /\ \A n, k : Encode(Model(<<n, k>>, UnitData)) = Wire(<<n>>, k)
  /\ \A n, k, leaf : leaf # "unit" => Encode(Model(<<n, k>>, Payload(leaf))) = Wire(<<n, k>>, leaf)
<1>1. ASSUME NEW t PROVE Encode(Model(t, UnitData)) = Wire(Front(t), Last(t))
  BY ModelFields, Zenon DEF Encode
<1>2. ASSUME NEW t, NEW leaf, leaf # "unit" PROVE Encode(Model(t, Payload(leaf))) = Wire(t \o <<>>, leaf)
  <2>1. UnitData.leaf = "unit" /\ Payload(leaf).leaf = leaf /\ Payload(leaf).tags = <<>>
    BY WireFields, Zenon DEF Payload, UnitData
  <2>2. Payload(leaf) # UnitData
    BY <1>2, <2>1
  <2>3. Model(t, Payload(leaf)).path = t /\ Model(t, Payload(leaf)).data = Payload(leaf)
    BY ModelFields
  <2>4. Encode(Model(t, Payload(leaf))) = Wire(t \o Payload(leaf).tags, Payload(leaf).leaf)
    BY <2>2, <2>3, Zenon DEF Encode
  <2> QED
    BY <2>1, <2>4, Zenon
<1>3. \A n : Front(<<n>>) = <<>> /\ Last(<<n>>) = n /\ <<n>> \o <<>> = <<n>>
  BY One, Zenon
<1>4. \A n, k : Front(<<n, k>>) = <<n>> /\ Last(<<n, k>>) = k /\ <<n, k>> \o <<>> = <<n, k>>
  BY Two, Zenon
<1>5. ASSUME NEW n PROVE Encode(Model(<<n>>, UnitData)) = Wire(<<>>, n)
  BY <1>1, <1>3, Zenon
<1>6. ASSUME NEW n, NEW leaf, leaf # "unit" PROVE Encode(Model(<<n>>, Payload(leaf))) = Wire(<<n>>, leaf)
  <2>1. Encode(Model(<<n>>, Payload(leaf))) = Wire(<<n>> \o <<>>, leaf)
    BY <1>2, <1>6, Zenon
  <2> QED
    BY <1>3, <2>1, Zenon
<1>7. ASSUME NEW n, NEW k PROVE Encode(Model(<<n, k>>, UnitData)) = Wire(<<n>>, k)
  <2>1. Encode(Model(<<n, k>>, UnitData)) = Wire(Front(<<n, k>>), Last(<<n, k>>))
    BY <1>1, Zenon
  <2> QED
    BY <1>4, <2>1, Zenon
<1>8. ASSUME NEW n, NEW k, NEW leaf, leaf # "unit"
      PROVE  Encode(Model(<<n, k>>, Payload(leaf))) = Wire(<<n, k>>, leaf)
  <2>1. Encode(Model(<<n, k>>, Payload(leaf))) = Wire(<<n, k>> \o <<>>, leaf)
    BY <1>2, <1>8, Zenon
  <2> QED
    BY <1>4, <2>1, Zenon
<1> QED
  BY <1>5, <1>6, <1>7, <1>8, Zenon

LEMMA TaggedFields ==
  ASSUME NEW n, NEW leaf
  PROVE  /\ Wire(<<n>>, leaf).tags # <<>> /\ Head(Wire(<<n>>, leaf).tags) = n
         /\ Len(Wire(<<n>>, leaf).tags) = 1 /\ Wire(<<n>>, leaf).leaf = leaf
         /\ Below(Wire(<<n>>, leaf)) = Payload(leaf)
<1>1. /\ Wire(<<n>>, leaf).tags = <<n>> /\ Wire(<<n>>, leaf).leaf = leaf
      /\ Below(Wire(<<n>>, leaf)) = Wire(Tail(<<n>>), leaf)
  BY WireFields, Zenon
<1>2. <<n>> # <<>> /\ Head(<<n>>) = n /\ Tail(<<n>>) = <<>> /\ Len(<<n>>) = 1
  BY One
<1> QED
  BY <1>1, <1>2, Zenon DEF Payload

\* A value accepted for an enum is a model of the enum (codec.py:19-106).
LEMMA RootYields ==
  ASSUME NEW e \in Enums, NEW w \in JsonValues, NEW nested, IsModel(Root(e, w, nested))
  PROVE  \/ FlatModel(e, Root(e, w, nested)) \/ UnknownModel(e, Root(e, w, nested))
         \/ /\ w.tags # <<>> /\ Head(w.tags) \in Known(e) /\ Inner(e, Head(w.tags)) # "none"
            /\ Root(e, w, nested) = Under(Head(w.tags), nested)
<1> DEFINE r == Root(e, w, nested)
<1>1. \A exception : exception # "nothing" => ~IsModel(Raised(exception))
  BY DEF Raised, IsModel
<1>2. r = Decode(e, w, nested)
  BY <1>1 DEF Root
<1>3. CASE w.tags = <<>>
  <2>1. IsName(w.leaf) /\ r = DecodeString(e, w.leaf)
    BY <1>1, <1>2, <1>3 DEF Decode
  <2>2. CASE w.leaf \in Table(e).unit
    <3>1. r = Model(<<w.leaf>>, UnitData)
      BY <2>1, <2>2 DEF DecodeString
    <3> QED
      BY <2>2, <3>1 DEF FlatModel, Known
  <2>3. CASE w.leaf \notin Table(e).unit
    <3>1. w.leaf \notin Known(e) /\ e = "Event" /\ r = Model(<<w.leaf>>, Payload(w.leaf))
      BY <1>1, <2>1, <2>3 DEF DecodeString, HasUnknownModel
    <3>2. w.leaf \in STRING /\ Payload(w.leaf) \in JsonValues
      BY <1>3 DEF JsonValues, Payload, Wire
    <3> QED
      BY <3>1, <3>2 DEF UnknownModel
  <2> QED
    BY <2>2, <2>3
<1>4. CASE w.tags # <<>>
  <2> DEFINE n == Head(w.tags)
  <2>1. n \in STRING /\ Below(w) \in JsonValues
    <3>1. w.tags \in Seq(STRING)
      BY DEF JsonValues
    <3>2. Head(w.tags) \in STRING /\ Tail(w.tags) \in Seq(STRING)
      BY <1>4, <3>1, HeadTailProperties
    <3> QED
      BY <3>2 DEF Below, JsonValues
  <2>2. CASE n \notin Known(e)
    <3>1. e = "Event" /\ r = Model(<<n>>, Below(w))
      BY <1>1, <1>2, <1>4, <2>2, TaggedCases DEF HasUnknownModel
    <3> QED
      BY <2>1, <2>2, <3>1 DEF UnknownModel
  <2>3. CASE n \in Table(e).unit
    <3>1. r = Model(<<n>>, UnitData)
      BY <1>1, <1>2, <1>4, <2>3, TaggedCases
    <3> QED
      BY <2>3, <3>1 DEF FlatModel, Known
  <2>4. CASE n \in Table(e).newtype
    <3>1. CASE Inner(e, n) = "none"
      <4>1. r = Model(<<n>>, Payload("value"))
        BY <1>1, <1>2, <1>4, <2>4, <3>1, TaggedCases
      <4> QED
        BY <2>4, <3>1, <4>1 DEF FlatModel, Known
    <3>2. CASE Inner(e, n) # "none"
      BY <1>2, <1>4, <2>4, <3>2, TaggedCases DEF Known
    <3> QED
      BY <3>1, <3>2
  <2>5. CASE n \in Table(e).struct
    <3>1. r = ValidateStruct(e, n, Below(w))
      BY <1>1, <1>2, <1>4, <2>5, TaggedCases
    <3>2. Table(e).empty \cap Table(e).optional = {}
      BY KindsExclude
    <3>3. \/ n \in Table(e).empty /\ r = Model(<<n>>, Payload("{}"))
          \/ n \notin Table(e).empty /\ r = Model(<<n>>, Payload("fields"))
      <4>1. CASE Below(w) = Payload("{}") /\ n \in Table(e).empty
        BY <3>1, <4>1, StructCases
      <4>2. CASE Below(w) = Payload("{}") /\ n \in Table(e).optional
        BY <3>1, <3>2, <4>2, StructCases
      <4>3. CASE Below(w) = Payload("fields") /\ n \notin Table(e).empty
        BY <3>1, <4>3, StructCases
      <4>4. CASE ValidateStruct(e, n, Below(w)) = Raised("ValidationError")
        BY <1>1, <3>1, <4>4
      <4> HIDE DEF n, r
      <4> QED
        BY <4>1, <4>2, <4>3, <4>4, StructCases
    <3> QED
      BY <2>5, <3>3 DEF FlatModel, Known
  <2> QED
    BY <2>2, <2>3, <2>4, <2>5 DEF Known
<1> QED
  BY <1>3, <1>4

\* What the encoder writes of a flat model is canonical, and is decoded to that
\* model again (codec.py:19-141).
LEMMA FlatRoundTrip ==
  ASSUME NEW e \in Enums, NEW m, FlatModel(e, m), NEW nested
  PROVE  /\ IsModel(m) /\ CanonicalFlat(e, Encode(m))
         /\ Root(e, Encode(m), nested) = m
<1>0. PICK n \in Known(e) :
      \/ n \in Table(e).unit /\ m = Model(<<n>>, UnitData)
      \/ n \in Table(e).newtype /\ Inner(e, n) = "none" /\ m = Model(<<n>>, Payload("value"))
      \/ n \in Table(e).empty /\ m = Model(<<n>>, Payload("{}"))
      \/ n \in Table(e).struct \ Table(e).empty /\ m = Model(<<n>>, Payload("fields"))
  BY DEF FlatModel
<1>1. IsModel(m)
  <2>1. PICK d : m = Model(<<n>>, d)
    BY <1>0, Zenon
  <2>2. IsModel(Model(<<n>>, d))
    BY ModelFields
  <2> QED
    BY <2>1, <2>2, Zenon
<1>2. n # "root" /\ IsName(n)
  BY KnownAreNames
<1>3. ASSUME NEW leaf
      PROVE  /\ Wire(<<n>>, leaf).tags # <<>> /\ Head(Wire(<<n>>, leaf).tags) = n
             /\ Len(Wire(<<n>>, leaf).tags) = 1 /\ Wire(<<n>>, leaf).leaf = leaf
             /\ Below(Wire(<<n>>, leaf)) = Payload(leaf)
  BY TaggedFields
<1>9. ASSUME NEW leaf
      PROVE  /\ n \in Table(e).newtype /\ Inner(e, n) = "none" /\ leaf = "value" =>
                  Decode(e, Wire(<<n>>, leaf), nested) = Model(<<n>>, Payload(leaf))
             /\ n \in Table(e).struct /\ IsObject(Payload(leaf)) =>
                  Decode(e, Wire(<<n>>, leaf), nested) = ValidateStruct(e, n, Payload(leaf))
  <2>1. ASSUME NEW w, w.tags # <<>>, Head(w.tags) = n, Below(w) = Payload(leaf)
        PROVE  /\ n \in Table(e).newtype /\ Inner(e, n) = "none" /\ leaf = "value" =>
                    Decode(e, w, nested) = Model(<<n>>, Payload(leaf))
               /\ n \in Table(e).struct /\ IsObject(Payload(leaf)) =>
                    Decode(e, w, nested) = ValidateStruct(e, n, Payload(leaf))
    <3>1. CASE n \in Table(e).newtype /\ Inner(e, n) = "none" /\ leaf = "value"
      <4>1. n \notin Table(e).struct
        BY <3>1, KindsExclude
      <4>2. Decode(e, w, nested) = Model(<<n>>, Below(w))
        BY <2>1, <3>1, TaggedCases
      <4> QED
        BY <2>1, <4>1, <4>2, Zenon
    <3>2. CASE n \in Table(e).struct /\ IsObject(Payload(leaf))
      <4>1. n \notin Table(e).newtype
        BY <3>2, KindsExclude
      <4>2. Decode(e, w, nested) = ValidateStruct(e, n, Below(w))
        BY <2>1, <3>2, TaggedCases
      <4> QED
        BY <2>1, <4>1, <4>2, Zenon
    <3> QED
      BY <3>1, <3>2, Zenon
  <2> QED
    BY <1>3, <2>1, Zenon
<1>4. CASE n \in Table(e).unit /\ m = Model(<<n>>, UnitData)
  <2>1. Encode(m) = Wire(<<>>, n)
    BY <1>4, EncodeForms, Zenon
  <2>2. Encode(m).tags = <<>> /\ Encode(m).leaf = n
    BY <2>1, WireFields, Zenon
  <2>3. Root(e, Encode(m), nested) = DecodeString(e, n)
    BY <1>2, <2>2, Zenon DEF Root, Decode
  <2> QED
    BY <1>1, <1>4, <2>2, <2>3 DEF DecodeString, CanonicalFlat
<1>5. ASSUME NEW leaf, leaf # "unit", m = Model(<<n>>, Payload(leaf))
      PROVE  /\ Encode(m) = Wire(<<n>>, leaf)
             /\ Root(e, Encode(m), nested) = Decode(e, Wire(<<n>>, leaf), nested)
  <2>1. Encode(m) = Wire(<<n>>, leaf)
    BY <1>5, EncodeForms, Zenon
  <2> QED
    BY <1>2, <1>3, <2>1, Zenon DEF Root
<1>6. CASE n \in Table(e).newtype /\ Inner(e, n) = "none" /\ m = Model(<<n>>, Payload("value"))
  <2>1. Encode(m) = Wire(<<n>>, "value") /\ Root(e, Encode(m), nested) = Decode(e, Wire(<<n>>, "value"), nested)
    BY <1>5, <1>6
  <2>2. Decode(e, Wire(<<n>>, "value"), nested) = m
    BY <1>6, <1>9
  <2> QED
    BY <1>1, <1>3, <1>6, <2>1, <2>2 DEF CanonicalFlat
<1>7. CASE n \in Table(e).empty /\ m = Model(<<n>>, Payload("{}"))
  <2>1. Encode(m) = Wire(<<n>>, "{}") /\ Root(e, Encode(m), nested) = Decode(e, Wire(<<n>>, "{}"), nested)
    BY <1>5, <1>7
  <2>2. n \in Table(e).struct /\ IsObject(Payload("{}"))
    BY <1>7, KindsExclude DEF IsObject, Objects, Payload, Wire
  <2>3. Decode(e, Wire(<<n>>, "{}"), nested) = ValidateStruct(e, n, Payload("{}"))
    BY <1>9, <2>2
  <2>4. ValidateStruct(e, n, Payload("{}")) = m
    BY <1>7, StructCases
  <2> QED
    BY <1>1, <1>3, <1>7, <2>1, <2>3, <2>4 DEF CanonicalFlat
<1>8. CASE n \in Table(e).struct \ Table(e).empty /\ m = Model(<<n>>, Payload("fields"))
  <2>1. Encode(m) = Wire(<<n>>, "fields") /\ Root(e, Encode(m), nested) = Decode(e, Wire(<<n>>, "fields"), nested)
    BY <1>5, <1>8
  <2>2. IsObject(Payload("fields"))
    BY DEF IsObject, Objects, Payload, Wire
  <2>3. Decode(e, Wire(<<n>>, "fields"), nested) = ValidateStruct(e, n, Payload("fields"))
    BY <1>8, <1>9, <2>2
  <2>4. ValidateStruct(e, n, Payload("fields")) = m
    BY <1>8, StructCases
  <2> QED
    BY <1>1, <1>3, <1>8, <2>1, <2>3, <2>4 DEF CanonicalFlat
<1> QED
  BY <1>0, <1>4, <1>6, <1>7, <1>8

---------------------------------------------------------------------------
(* Enums in enums, and models of any kind. *)

\* The variants that hold an enum are newtypes of Request and of Reply.
LEMMA InnerIsNewtype ==
  ASSUME NEW e, NEW n, Inner(e, n) # "none"
  PROVE  /\ e \in Enums /\ n \in Table(e).newtype /\ n \in Known(e) /\ n # "root"
         /\ Inner(e, n) \in Enums \ {"Event"}
<1>1. CASE e = "Request" /\ n = "Action"
  <2>1. n \in Table(e).newtype /\ e \in Enums
    BY <1>1, Tables DEF RequestEnum, Enums
  <2> QED
    BY <1>1, <2>1, InnerCases DEF Known, Enums
<1>2. CASE e = "Reply" /\ n = "Ok"
  <2>1. n \in Table(e).newtype /\ e \in Enums
    BY <1>2, Tables DEF ReplyEnum, Enums
  <2> QED
    BY <1>2, <2>1, InnerCases DEF Known, Enums
<1> QED
  BY <1>1, <1>2, InnerCases

LEMMA JsonParts ==
  ASSUME NEW w \in JsonValues, w.tags # <<>>
  PROVE  /\ Head(w.tags) \in STRING /\ Below(w) \in JsonValues
         /\ w = Wire(<<Head(w.tags)>> \o Below(w).tags, Below(w).leaf)
<1>1. w.tags \in Seq(STRING) /\ w.leaf \in STRING \ {"unit", "none"} /\ w = Wire(w.tags, w.leaf)
  BY DEF JsonValues, Wire
<1>2. Head(w.tags) \in STRING /\ Tail(w.tags) \in Seq(STRING)
  BY <1>1, HeadTailProperties
<1>3. <<Head(w.tags)>> \o Tail(w.tags) = w.tags
  BY <1>1, HeadAndTail
<1>4. Below(w) = Wire(Tail(w.tags), w.leaf)
  <2>1. ASSUME NEW t PROVE [w EXCEPT !.tags = t] = Wire(t, w.leaf)
    BY DEF JsonValues, Wire
  <2> QED
    BY <2>1, Zenon DEF Below
<1>5. Below(w).tags = Tail(w.tags) /\ Below(w).leaf = w.leaf
  <2>1. ASSUME NEW t PROVE Wire(t, w.leaf).tags = t /\ Wire(t, w.leaf).leaf = w.leaf
    BY WireFields
  <2> QED
    BY <1>4, <2>1, Zenon
<1>6. Below(w) \in JsonValues
  BY <1>1, <1>2, <1>4 DEF JsonValues, Wire
<1> QED
  BY <1>1, <1>2, <1>3, <1>5, <1>6, Zenon

\* The key of the outer variant is written above what is written of the inner one.
LEMMA EncodeUnder ==
  ASSUME NEW e \in Enums, NEW r, FlatModel(e, r), NEW n
  PROVE  /\ IsModel(Under(n, r)) /\ Head(Under(n, r).path) = n
         /\ Encode(Under(n, r)) = Wire(<<n>> \o Encode(r).tags, Encode(r).leaf)
         /\ Encode(Under(n, r)).tags # <<>> /\ Head(Encode(Under(n, r)).tags) = n
         /\ Below(Encode(Under(n, r))) = Encode(r)
<1>1. PICK k : \/ r = Model(<<k>>, UnitData)
               \/ \E leaf : leaf # "unit" /\ r = Model(<<k>>, Payload(leaf))
  <2>1. "value" # "unit" /\ "{}" # "unit" /\ "fields" # "unit"
    OBVIOUS
  <2> QED
    BY <2>1, Zenon DEF FlatModel
<1>2. ASSUME NEW d PROVE Under(n, Model(<<k>>, d)) = Model(<<n, k>>, d)
  <2>1. ASSUME NEW t PROVE Under(n, Model(t, d)) = Model(<<n>> \o t, d)
    BY DEF Under, Model, IsModel
  <2>2. <<n>> \o <<k>> = <<n, k>>
    BY Two
  <2> QED
    BY <2>1, <2>2, Zenon
<1>3. ASSUME NEW d PROVE IsModel(Under(n, Model(<<k>>, d))) /\ Head(Under(n, Model(<<k>>, d)).path) = n
  <2>1. IsModel(Model(<<n, k>>, d)) /\ Model(<<n, k>>, d).path = <<n, k>>
    BY ModelFields
  <2>2. Head(<<n, k>>) = n
    BY Two
  <2> QED
    BY <1>2, <2>1, <2>2, Zenon
<1>4. <<n>> \o <<>> = <<n>> /\ <<n>> \o <<k>> = <<n, k>> /\ Tail(<<n, k>>) = <<k>> /\ Tail(<<n>>) = <<>>
      /\ Head(<<n, k>>) = n /\ Head(<<n>>) = n /\ <<n, k>> # <<>> /\ <<n>> # <<>>
  BY One, Two
<1>5. CASE r = Model(<<k>>, UnitData)
  <2>1. Encode(r) = Wire(<<>>, k) /\ Encode(Under(n, r)) = Wire(<<n>>, k)
    <3>1. /\ Encode(Model(<<k>>, UnitData)) = Wire(<<>>, k)
          /\ Encode(Model(<<n, k>>, UnitData)) = Wire(<<n>>, k)
      BY EncodeForms, Zenon
    <3>2. Under(n, r) = Model(<<n, k>>, UnitData)
      BY <1>2, <1>5, Zenon
    <3> QED
      BY <1>5, <3>1, <3>2, Zenon
  <2>2. Encode(r).tags = <<>> /\ Encode(r).leaf = k /\ Encode(Under(n, r)).tags = <<n>>
    BY <2>1, WireFields, Zenon
  <2>3. Below(Encode(Under(n, r))) = Wire(Tail(<<n>>), k)
    BY <2>1, WireFields, Zenon
  <2> QED
    BY <1>3, <1>4, <1>5, <2>1, <2>2, <2>3, Zenon
<1>6. ASSUME NEW leaf, leaf # "unit", r = Model(<<k>>, Payload(leaf))
      PROVE  /\ IsModel(Under(n, r)) /\ Head(Under(n, r).path) = n
             /\ Encode(Under(n, r)) = Wire(<<n>> \o Encode(r).tags, Encode(r).leaf)
             /\ Encode(Under(n, r)).tags # <<>> /\ Head(Encode(Under(n, r)).tags) = n
             /\ Below(Encode(Under(n, r))) = Encode(r)
  <2>1. Encode(r) = Wire(<<k>>, leaf) /\ Encode(Under(n, r)) = Wire(<<n, k>>, leaf)
    <3>1. /\ Encode(Model(<<k>>, Payload(leaf))) = Wire(<<k>>, leaf)
          /\ Encode(Model(<<n, k>>, Payload(leaf))) = Wire(<<n, k>>, leaf)
      BY <1>6, EncodeForms, Zenon
    <3>2. Under(n, r) = Model(<<n, k>>, Payload(leaf))
      BY <1>2, <1>6, Zenon
    <3> QED
      BY <1>6, <3>1, <3>2, Zenon
  <2>2. Encode(r).tags = <<k>> /\ Encode(r).leaf = leaf /\ Encode(Under(n, r)).tags = <<n, k>>
    BY <2>1, WireFields, Zenon
  <2>3. Below(Encode(Under(n, r))) = Wire(Tail(<<n, k>>), leaf)
    BY <2>1, WireFields, Zenon
  <2> QED
    BY <1>3, <1>4, <1>6, <2>1, <2>2, <2>3, Zenon
<1> QED
  BY <1>1, <1>5, <1>6, Zenon

\* Below the key of a variant that holds an enum, that enum is decoded
\* (codec.py:84-93, base.py:44-70).
LEMMA NestedDecode ==
  ASSUME NEW e, NEW w, w.tags # <<>>, Inner(e, Head(w.tags)) # "none"
  PROVE  DecodeRoot(e, w) = Under(Head(w.tags), DecodeInner(Inner(e, Head(w.tags)), Below(w)))
<1> DEFINE n == Head(w.tags)
           nested == DecodeInner(Inner(e, n), Below(w))
<1>1. e \in Enums /\ n \in Table(e).newtype /\ n # "root"
  BY InnerIsNewtype
<1>2. DecodeRoot(e, w) = Decode(e, w, nested)
  BY <1>1, Zenon DEF DecodeRoot, Root
<1>3. Decode(e, w, nested) = Under(n, nested)
  BY <1>1, TaggedCases
<1> QED
  BY <1>2, <1>3

LEMMA DecodedIsModel ==
  ASSUME NEW e \in Enums, NEW w \in JsonValues, IsModel(DecodeRoot(e, w))
  PROVE  ModelOf(e, DecodeRoot(e, w))
<1> DEFINE nested == DecodeInner(Inner(e, Head(w.tags)), Below(w))
           r == Root(e, w, nested)
<1>1. DecodeRoot(e, w) = r
  BY DEF DecodeRoot
<1>2. CASE FlatModel(e, r) \/ UnknownModel(e, r)
  BY <1>1, <1>2, Zenon DEF ModelOf
<1>3. CASE /\ w.tags # <<>> /\ Head(w.tags) \in Known(e) /\ Inner(e, Head(w.tags)) # "none"
           /\ r = Under(Head(w.tags), nested)
  <2> DEFINE n == Head(w.tags)
             f == Inner(e, n)
  <2>1. f \in Enums /\ f # "Event" /\ \A m \in Known(f) : Inner(f, m) = "none"
    BY <1>3, InnerIsNewtype, NestingAssumption
  <2>2. IsModel(nested)
    BY <1>1, <1>3 DEF Under
  <2>3. Below(w) \in JsonValues
    BY <1>3, JsonParts
  <2>4. FlatModel(f, nested)
    <3> DEFINE b == Below(w)
               none == Raised("no enum inside")
    <3>1. nested = Root(f, b, none)
      BY DEF DecodeInner
    <3> HIDE DEF b, none, f, nested
    <3>2. \/ FlatModel(f, nested) \/ UnknownModel(f, nested)
          \/ Head(b.tags) \in Known(f) /\ Inner(f, Head(b.tags)) # "none"
      BY <2>1, <2>2, <2>3, <3>1, RootYields DEF b
    <3> QED
      BY <2>1, <3>2 DEF UnknownModel
  <2> HIDE DEF f, nested
  <2>5. NestedModel(e, Under(n, nested))
    BY <1>3, <2>4, Zenon DEF NestedModel, f
  <2> QED
    BY <1>1, <1>3, <2>5, Zenon DEF ModelOf
<1>4. IsModel(r)
  BY <1>1
<1>5. \/ FlatModel(e, r) \/ UnknownModel(e, r)
      \/ /\ w.tags # <<>> /\ Head(w.tags) \in Known(e) /\ Inner(e, Head(w.tags)) # "none"
         /\ r = Under(Head(w.tags), nested)
  <2> HIDE DEF nested
  <2> QED
    BY <1>4, RootYields
<1> QED
  BY <1>2, <1>3, <1>5, Zenon

\* An unknown event is written as an object with its name as the key.
LEMMA UnknownRoundTrip ==
  ASSUME NEW e, NEW m, UnknownModel(e, m)
  PROVE  /\ IsModel(m) /\ Head(m.path) \notin Known(e)
         /\ DecodeRoot(e, Encode(m)) = m \/ m.path = <<"root">>
<1>1. PICK n \in STRING \ Known(e), w \in JsonValues : m = Model(<<n>>, w)
  BY DEF UnknownModel
<1>2. e = "Event"
  BY DEF UnknownModel
<1>3. m.path = <<n>> /\ m.data = w /\ IsModel(m)
  BY <1>1, ModelFields, Zenon
<1>4. Head(<<n>>) = n
  BY One
<1>5. w # UnitData /\ w.tags \in Seq(STRING)
  BY DEF JsonValues, UnitData, Payload, Wire
<1>6. Encode(m) = Wire(<<n>> \o w.tags, w.leaf)
  BY <1>3, <1>5, Zenon DEF Encode
<1> DEFINE x == Encode(m)
<1>7. /\ x.tags = <<n>> \o w.tags /\ x.leaf = w.leaf
      /\ Below(x) = Wire(Tail(<<n>> \o w.tags), w.leaf)
  <2>1. ASSUME NEW t PROVE /\ Wire(t, w.leaf).tags = t /\ Wire(t, w.leaf).leaf = w.leaf
                           /\ Below(Wire(t, w.leaf)) = Wire(Tail(t), w.leaf)
    BY WireFields
  <2> QED
    BY <1>6, <2>1, Zenon
<1>8. /\ <<n>> \o w.tags # <<>> /\ Head(<<n>> \o w.tags) = n
      /\ Tail(<<n>> \o w.tags) = w.tags
  BY <1>5, HeadOfCons
<1>9. Wire(w.tags, w.leaf) = w
  BY DEF JsonValues, Wire
<1>10. x.tags # <<>> /\ Head(x.tags) = n /\ Below(x) = w
  BY <1>7, <1>8, <1>9, Zenon
<1>11. CASE n # "root"
  <2> DEFINE nested == DecodeInner(Inner(e, Head(x.tags)), Below(x))
  <2> HIDE DEF x, nested
  <2>1. DecodeRoot(e, x) = Decode(e, x, nested)
    BY <1>10, <1>11, Zenon DEF DecodeRoot, Root, nested
  <2>2. Decode(e, x, nested) = Model(<<Head(x.tags)>>, Below(x))
    BY <1>1, <1>2, <1>10, TaggedCases DEF HasUnknownModel, Enums
  <2>3. DecodeRoot(e, x) = m
    BY <1>1, <1>10, <2>1, <2>2, Zenon
  <2> QED
    BY <1>1, <1>3, <1>4, <2>3, Zenon DEF x
<1>12. CASE n = "root"
  BY <1>1, <1>3, <1>4, <1>12, Zenon
<1> QED
  BY <1>11, <1>12

\* What the encoder writes of any model is decoded to that model again.
LEMMA ModelRoundTrip ==
  ASSUME NEW e \in Enums, NEW m, ModelOf(e, m)
  PROVE  /\ IsModel(m)
         /\ DecodeRoot(e, Encode(m)) = m \/ m.path = <<"root">>
         /\ Head(m.path) \in Known(e) => Canonical(e, Encode(m))
<1>1. CASE FlatModel(e, m)
  BY <1>1, FlatRoundTrip DEF DecodeRoot, Canonical
<1>2. CASE UnknownModel(e, m)
  BY <1>2, UnknownRoundTrip
<1>3. CASE NestedModel(e, m)
  <2>1. PICK n \in Known(e) : Inner(e, n) # "none" /\ \E r : FlatModel(Inner(e, n), r) /\ m = Under(n, r)
    BY <1>3 DEF NestedModel
  <2>2. PICK r : FlatModel(Inner(e, n), r) /\ m = Under(n, r)
    BY <2>1
  <2>3. Inner(e, n) \in Enums
    BY <2>1, InnerIsNewtype
  <2>4. /\ IsModel(m) /\ Encode(m).tags # <<>> /\ Head(Encode(m).tags) = n /\ Below(Encode(m)) = Encode(r)
    BY <2>2, <2>3, EncodeUnder
  <2>5. DecodeInner(Inner(e, n), Encode(r)) = r /\ CanonicalFlat(Inner(e, n), Encode(r))
    BY <2>2, <2>3, FlatRoundTrip DEF DecodeInner
  <2>6. DecodeRoot(e, Encode(m)) = Under(n, DecodeInner(Inner(e, n), Below(Encode(m))))
    BY <2>1, <2>4, NestedDecode
  <2> QED
    BY <2>1, <2>2, <2>4, <2>5, <2>6, Zenon DEF Canonical
<1> QED
  BY <1>1, <1>2, <1>3 DEF ModelOf

---------------------------------------------------------------------------
(* Canonical values, unknown events and rejected payloads. *)

\* What may stand under each name is what the encoder writes of a flat model.
LEMMA CanonicalForm ==
  ASSUME NEW e \in Enums, NEW w \in JsonValues, CanonicalFlat(e, w)
  PROVE  \E m : FlatModel(e, m) /\ Encode(m) = w
<1>1. w.tags \in Seq(STRING) /\ w = Wire(w.tags, w.leaf)
  BY DEF JsonValues, Wire
<1>2. CASE w.tags = <<>> /\ w.leaf \in Table(e).unit
  <2>1. FlatModel(e, Model(<<w.leaf>>, UnitData))
    BY <1>2 DEF FlatModel, Known
  <2>2. Encode(Model(<<w.leaf>>, UnitData)) = Wire(<<>>, w.leaf)
    BY EncodeForms, Zenon
  <2>3. Wire(<<>>, w.leaf) = w
    BY <1>1, <1>2, Zenon
  <2> QED
    BY <2>1, <2>2, <2>3, Zenon
<1>3. ASSUME w.tags # <<>>, Len(w.tags) = 1 PROVE w = Wire(<<Head(w.tags)>>, w.leaf)
  <2>1. Tail(w.tags) \in Seq(STRING) /\ Len(Tail(w.tags)) = 0
    <3>1. Tail(w.tags) \in Seq(STRING) /\ Len(Tail(w.tags)) = Len(w.tags) - 1
      BY <1>1, <1>3, HeadTailProperties, Zenon
    <3> QED
      BY <1>3, <3>1
  <2>2. Tail(w.tags) = <<>>
    BY <2>1, EmptySeq
  <2>3. <<Head(w.tags)>> \o Tail(w.tags) = w.tags
    BY <1>1, <1>3, HeadAndTail
  <2>4. <<Head(w.tags)>> \o <<>> = <<Head(w.tags)>>
    BY One
  <2> QED
    BY <1>1, <2>2, <2>3, <2>4, Zenon
<1>4. ASSUME Len(w.tags) = 1 PROVE w.tags # <<>>
  <2>1. Len(<<>>) # 1
    BY EmptySeq
  <2> QED
    BY <1>4, <2>1, Zenon
<1>5. ASSUME NEW leaf, leaf # "unit", w.leaf = leaf, Len(w.tags) = 1
      PROVE  Encode(Model(<<Head(w.tags)>>, Payload(leaf))) = w
  <2>1. Encode(Model(<<Head(w.tags)>>, Payload(leaf))) = Wire(<<Head(w.tags)>>, leaf)
    BY <1>5, EncodeForms, Zenon
  <2> QED
    BY <1>3, <1>4, <1>5, <2>1, Zenon
<1> DEFINE n == Head(w.tags)
<1>6. CASE Len(w.tags) = 1 /\ n \in Table(e).empty /\ w.leaf = "{}"
  <2>1. n \in Known(e)
    BY <1>6, KindsExclude DEF Known
  <2>2. FlatModel(e, Model(<<n>>, Payload("{}")))
    BY <1>6, <2>1, Zenon DEF FlatModel
  <2>3. Encode(Model(<<n>>, Payload("{}"))) = w
    BY <1>5, <1>6
  <2> QED
    BY <2>2, <2>3, Zenon
<1>7. CASE Len(w.tags) = 1 /\ n \in Table(e).struct \ Table(e).empty /\ w.leaf = "fields"
  <2>1. n \in Known(e)
    BY <1>7 DEF Known
  <2>2. FlatModel(e, Model(<<n>>, Payload("fields")))
    BY <1>7, <2>1, Zenon DEF FlatModel
  <2>3. Encode(Model(<<n>>, Payload("fields"))) = w
    BY <1>5, <1>7
  <2> QED
    BY <2>2, <2>3, Zenon
<1>8. CASE Len(w.tags) = 1 /\ n \in Table(e).newtype /\ Inner(e, n) = "none" /\ w.leaf = "value"
  <2>1. n \in Known(e)
    BY <1>8 DEF Known
  <2>2. FlatModel(e, Model(<<n>>, Payload("value")))
    BY <1>8, <2>1, Zenon DEF FlatModel
  <2>3. Encode(Model(<<n>>, Payload("value"))) = w
    BY <1>5, <1>8
  <2> QED
    BY <2>2, <2>3, Zenon
<1> HIDE DEF n
<1> QED
  BY <1>2, <1>6, <1>7, <1>8, Zenon DEF CanonicalFlat, n

LEMMA CanonicalAccepted ==
  ASSUME NEW e \in Enums, NEW w \in JsonValues, Canonical(e, w)
  PROVE  IsModel(DecodeRoot(e, w)) /\ Encode(DecodeRoot(e, w)) = w
<1>1. CASE CanonicalFlat(e, w)
  <2>1. PICK m : FlatModel(e, m) /\ Encode(m) = w
    BY <1>1, CanonicalForm
  <2>2. IsModel(m) /\ DecodeRoot(e, w) = m
    BY <2>1, FlatRoundTrip DEF DecodeRoot
  <2> QED
    BY <2>1, <2>2
<1>2. CASE w.tags # <<>> /\ Inner(e, Head(w.tags)) # "none" /\ CanonicalFlat(Inner(e, Head(w.tags)), Below(w))
  <2> DEFINE n == Head(w.tags)
             f == Inner(e, n)
             b == Below(w)
  <2>1. f \in Enums /\ b \in JsonValues /\ w = Wire(<<n>> \o b.tags, b.leaf)
    BY <1>2, InnerIsNewtype, JsonParts
  <2>2. DecodeRoot(e, w) = Under(n, DecodeInner(f, b))
    BY <1>2, NestedDecode
  <2>3. PICK m : FlatModel(f, m) /\ Encode(m) = b
    BY <1>2, <2>1, CanonicalForm
  <2> HIDE DEF n, f, b
  <2>4. DecodeInner(f, b) = m
    BY <2>1, <2>3, FlatRoundTrip DEF DecodeInner
  <2>5. IsModel(Under(n, m)) /\ Encode(Under(n, m)) = Wire(<<n>> \o Encode(m).tags, Encode(m).leaf)
    BY <2>1, <2>3, EncodeUnder
  <2> QED
    BY <2>1, <2>2, <2>3, <2>4, <2>5, Zenon
<1> QED
  BY <1>1, <1>2 DEF Canonical

LEMMA UnknownDecoded ==
  ASSUME NEW w \in JsonValues
  PROVE  /\ w.tags = <<>> /\ IsName(w.leaf) /\ w.leaf \notin Known("Event") =>
              DecodeRoot("Event", w) = Model(<<w.leaf>>, w)
         /\ w.tags # <<>> /\ Head(w.tags) \notin Known("Event") /\ Head(w.tags) # "root" =>
              DecodeRoot("Event", w) = Model(<<Head(w.tags)>>, Below(w))
<1> DEFINE nested == DecodeInner(Inner("Event", Head(w.tags)), Below(w))
<1> HIDE DEF nested
<1>1. "Event" \in Enums /\ HasUnknownModel("Event")
  BY DEF Enums, HasUnknownModel
<1>2. ASSUME w.tags = <<>>, IsName(w.leaf), w.leaf \notin Known("Event")
      PROVE  DecodeRoot("Event", w) = Model(<<w.leaf>>, w)
  <2>1. DecodeRoot("Event", w) = DecodeString("Event", w.leaf)
    BY <1>2, Zenon DEF DecodeRoot, Root, Decode
  <2>2. DecodeString("Event", w.leaf) = Model(<<w.leaf>>, Payload(w.leaf))
    BY <1>1, <1>2 DEF DecodeString, Known
  <2>3. w = Wire(w.tags, w.leaf)
    BY DEF JsonValues, Wire
  <2>4. Payload(w.leaf) = w
    BY <1>2, <2>3, Zenon DEF Payload
  <2> QED
    BY <2>1, <2>2, <2>4, Zenon
<1>3. ASSUME w.tags # <<>>, Head(w.tags) \notin Known("Event"), Head(w.tags) # "root"
      PROVE  DecodeRoot("Event", w) = Model(<<Head(w.tags)>>, Below(w))
  <2>1. DecodeRoot("Event", w) = Decode("Event", w, nested)
    BY <1>3, Zenon DEF DecodeRoot, Root, nested
  <2> QED
    BY <1>1, <1>3, <2>1, TaggedCases
<1> QED
  BY <1>2, <1>3

\* A ValidationError comes from below the key of a known variant.
LEMMA RejectedBelow ==
  ASSUME NEW e \in Enums, NEW w, NEW nested, Root(e, w, nested).raised = "ValidationError"
  PROVE  /\ w.tags # <<>> /\ Head(w.tags) \in Known(e)
         /\ Inner(e, Head(w.tags)) # "none" => nested.raised = "ValidationError"
<1> DEFINE n == Head(w.tags)
<1>1. /\ Raised("DecodeError").raised # "ValidationError"
      /\ \A p, d : Model(p, d).raised # "ValidationError"
  BY DEF Raised, Model
<1>2. ~(w.tags # <<>> /\ n = "root") /\ Root(e, w, nested) = Decode(e, w, nested)
  BY <1>1 DEF Root
<1>3. w.tags # <<>>
  <2>1. ASSUME w.tags = <<>> PROVE FALSE
    <3>1. Decode(e, w, nested) = IF IsName(w.leaf) THEN DecodeString(e, w.leaf) ELSE Raised("DecodeError")
      BY <2>1, Zenon DEF Decode
    <3> QED
      BY <1>1, <1>2, <3>1 DEF DecodeString
  <2> QED
    BY <2>1
<1>4. n \in Known(e)
  <2>1. n \notin Known(e) => Decode(e, w, nested) =
          IF HasUnknownModel(e) THEN Model(<<n>>, Below(w)) ELSE Raised("DecodeError")
    BY <1>3, TaggedCases
  <2> HIDE DEF n
  <2> QED
    BY <1>1, <1>2, <2>1
<1>5. ASSUME Inner(e, n) # "none" PROVE nested.raised = "ValidationError"
  <2>1. n \in Table(e).newtype
    BY <1>5, InnerIsNewtype
  <2>2. Decode(e, w, nested) = Under(n, nested)
    BY <1>3, <1>5, <2>1, TaggedCases
  <2>3. Under(n, nested).raised = "ValidationError"
    BY <1>2, <2>2
  <2> QED
    BY <1>1, <2>3 DEF Under, IsModel
<1> QED
  BY <1>3, <1>4, <1>5

LEMMA RejectedReply ==
  ASSUME NEW w \in JsonValues, DecodeRoot("Reply", w).raised = "ValidationError"
  PROVE  /\ w.tags # <<>> /\ w.tags[1] \in Known("Reply")
         /\ w.tags[1] = "Ok" => Len(w.tags) >= 2 /\ w.tags[2] \in Known("Response")
<1> DEFINE n == Head(w.tags)
           b == Below(w)
           nested == DecodeInner(Inner("Reply", n), b)
<1>1. /\ w.tags # <<>> /\ n \in Known("Reply")
      /\ Inner("Reply", n) # "none" => nested.raised = "ValidationError"
  <2> HIDE DEF nested
  <2> QED
    BY RejectedBelow DEF DecodeRoot, nested, Enums
<1>2. w.tags \in Seq(STRING) /\ w.tags[1] = n
  BY <1>1 DEF JsonValues
<1>3. ASSUME n = "Ok" PROVE Len(w.tags) >= 2 /\ w.tags[2] \in Known("Response")
  <2>1. Inner("Reply", n) = "Response"
    BY <1>3, InnerCases
  <2>2. b.tags # <<>> /\ Head(b.tags) \in Known("Response")
    <3>1. Root("Response", b, Raised("no enum inside")).raised = "ValidationError"
      BY <1>1, <2>1 DEF DecodeInner
    <3> HIDE DEF b
    <3> QED
      BY <3>1, RejectedBelow DEF Enums
  <2>3. b.tags = Tail(w.tags)
    BY DEF Below, JsonValues
  <2>4. /\ Tail(w.tags) \in Seq(STRING) /\ Len(Tail(w.tags)) = Len(w.tags) - 1
        /\ \A i \in 1 .. Len(Tail(w.tags)) : Tail(w.tags)[i] = w.tags[i + 1]
    BY <1>1, <1>2, HeadTailProperties
  <2>5. Len(b.tags) \in Nat \ {0} /\ Head(b.tags) = b.tags[1]
    BY <2>2, <2>3, <2>4, EmptySeq
  <2> QED
    BY <1>2, <2>2, <2>3, <2>4, <2>5
<1> QED
  BY <1>1, <1>2, <1>3

---------------------------------------------------------------------------
(* The exchange. *)

CodecInv ==
  /\ enum \in Roots
  /\ stage \in {"received", "decoded", "encoded", "again"}
  /\ stage \in {"received", "decoded"} => wire \in JsonValues
  /\ stage = "received" => outcome = Failed("nothing yet")
  /\ stage = "decoded" => decoded = DecodeRoot(enum, wire)
  /\ stage \in {"encoded", "again"} => ModelOf(enum, decoded) /\ wire = Encode(decoded)
  /\ stage = "again" => again = DecodeRoot(enum, wire)
  /\ outcome = Failed("ValidationError") =>
       stage = "decoded" /\ enum = "Reply" /\ decoded.raised = "ValidationError"

\* What the caller of the codec makes of the decoded value.
LEMMA OutcomeCases ==
  ASSUME CodecInv, DecodeFrame
  PROVE  /\ enum = "Event" => outcome' = EventOutcome(decoded')
         /\ outcome' = Failed("ValidationError") => enum = "Reply" /\ decoded'.raised = "ValidationError"
<1>1. Failed("nothing yet") # Failed("ValidationError") /\ Failed("RemoteError") # Failed("ValidationError")
      /\ Failed("DecodeError") # Failed("ValidationError")
      /\ \A m : Returned(m) # Failed("ValidationError")
  BY DEF Failed, Returned
<1>2. CASE enum = "Reply"
  <2>1. outcome' = ReplyOutcome(decoded')
    BY <1>2, Zenon DEF DecodeFrame
  <2>2. ReplyOutcome(decoded') = Failed("ValidationError") => ~IsModel(decoded')
    BY <1>1, Zenon DEF ReplyOutcome
  <2>3. ~IsModel(decoded') => ReplyOutcome(decoded') = Failed(decoded'.raised)
    BY Zenon DEF ReplyOutcome
  <2>4. \A x : Failed(x) = Failed("ValidationError") => x = "ValidationError"
    BY DEF Failed
  <2>5. enum # "Event"
    BY <1>2
  <2> QED
    BY <1>2, <2>1, <2>2, <2>3, <2>4, <2>5, Zenon
<1>3. CASE enum = "Event"
  <2>1. outcome' = EventOutcome(decoded')
    BY <1>3, Zenon DEF DecodeFrame
  <2> QED
    BY <1>1, <2>1, Zenon DEF EventOutcome
<1>4. CASE enum = "Request"
  <2>1. enum # "Reply" /\ enum # "Event"
    BY <1>4
  <2>2. outcome' = outcome
    BY <2>1, Zenon DEF DecodeFrame
  <2>3. outcome = Failed("nothing yet")
    BY DEF CodecInv, DecodeFrame
  <2> QED
    BY <1>1, <2>1, <2>2, <2>3, Zenon
<1> QED
  BY <1>2, <1>3, <1>4 DEF CodecInv, Roots

LEMMA CodecInductive == CodecSpec => []CodecInv
<1>1. CodecInit => CodecInv
  <2> SUFFICES ASSUME CodecInit PROVE CodecInv
    OBVIOUS
  <2>1. enum \in Roots /\ wire \in JsonValues
    BY FramesAssumption DEF CodecInit
  <2>2. Failed("nothing yet") # Failed("ValidationError")
    BY DEF Failed
  <2> QED
    BY <2>1, <2>2 DEF CodecInit, CodecInv
<1>2. CodecInv /\ [CodecNext]_codecVars => CodecInv'
  <2> SUFFICES ASSUME CodecInv, [CodecNext]_codecVars PROVE CodecInv'
    OBVIOUS
  <2>1. enum \in Enums
    BY DEF CodecInv, Roots, Enums
  <2>2. CASE DecodeFrame
    <3>1. /\ stage = "received" /\ stage' = "decoded" /\ decoded' = DecodeRoot(enum, wire)
          /\ enum' = enum /\ wire' = wire
      BY <2>2 DEF DecodeFrame
    <3>2. outcome' = Failed("ValidationError") => enum = "Reply" /\ decoded'.raised = "ValidationError"
      BY <2>2, OutcomeCases
    <3> QED
      BY <3>1, <3>2 DEF CodecInv
  <2>3. CASE EncodeModel
    <3>1. ModelOf(enum, decoded)
      BY <2>1, <2>3, DecodedIsModel DEF CodecInv, EncodeModel
    <3>2. outcome # Failed("ValidationError")
      BY <2>3 DEF CodecInv, EncodeModel, IsModel
    <3> QED
      BY <2>3, <3>1, <3>2 DEF CodecInv, EncodeModel
  <2>4. CASE DecodeAgain
    BY <2>4 DEF CodecInv, DecodeAgain
  <2>5. CASE UNCHANGED codecVars
    BY <2>5 DEF CodecInv, codecVars
  <2> QED
    BY <2>2, <2>3, <2>4, <2>5 DEF CodecNext
<1> QED
  BY <1>1, <1>2, PTL DEF CodecSpec

\* Decoding what the encoder wrote gives the model that was encoded, for every
\* value of every enum; but for the unknown event that is the bare string "root"
\* (codec.py:19-141, base.py:44-70).
THEOREM CodecRoundTrip == CodecSpec => []RoundTrip
<1>1. CodecInv => RoundTrip
  <2> SUFFICES ASSUME CodecInv, stage = "again" PROVE again = decoded \/ decoded.path = <<"root">>
    BY DEF RoundTrip
  <2>1. enum \in Enums /\ ModelOf(enum, decoded) /\ again = DecodeRoot(enum, Encode(decoded))
    BY DEF CodecInv, Roots, Enums
  <2> QED
    BY <2>1, ModelRoundTrip, Zenon
<1> QED
  BY <1>1, CodecInductive, PTL

\* What is written of a known variant is what serde writes (codec.py:109-141).
THEOREM WritesCanonical == CodecSpec => []EncodedIsCanonical
<1>1. CodecInv => EncodedIsCanonical
  <2> SUFFICES ASSUME CodecInv, stage = "encoded", Head(decoded.path) \in Known(enum)
               PROVE  Canonical(enum, wire)
    BY DEF EncodedIsCanonical
  <2>1. enum \in Enums /\ ModelOf(enum, decoded) /\ wire = Encode(decoded)
    BY DEF CodecInv, Roots, Enums
  <2> QED
    BY <2>1, ModelRoundTrip
<1> QED
  BY <1>1, CodecInductive, PTL

\* Only the model of a known variant lets a bare ValidationError reach the
\* caller (codec.py:19-106).
THEOREM BareErrorsAreOfModels == CodecSpec => []OnlyModelsRejectBare
<1>1. CodecInv => OnlyModelsRejectBare
  <2> SUFFICES ASSUME CodecInv, outcome = Failed("ValidationError")
               PROVE  LET tags == wire.tags IN
                      /\ tags # <<>> /\ tags[1] \in Known(enum)
                      /\ tags[1] = "Ok" => Len(tags) >= 2 /\ tags[2] \in Known("Response")
    BY DEF OnlyModelsRejectBare
  <2>1. enum = "Reply" /\ wire \in JsonValues /\ DecodeRoot("Reply", wire).raised = "ValidationError"
    BY DEF CodecInv
  <2> QED
    BY <2>1, RejectedReply, Zenon
<1> QED
  BY <1>1, CodecInductive, PTL

\* Every canonical value is accepted and written the same way
\* (codec.py:19-141).
THEOREM CanonicalFixed == CodecSpec => CanonicalIsFixed
<1>1. ASSUME CodecInv, DecodeFrame, Canonical(enum, wire) PROVE IsModel(decoded')
  <2>1. enum \in Enums /\ wire \in JsonValues /\ decoded' = DecodeRoot(enum, wire)
    BY <1>1 DEF CodecInv, DecodeFrame, Roots, Enums
  <2> QED
    BY <1>1, <2>1, CanonicalAccepted
<1>2. ASSUME CodecInv, EncodeModel, Canonical(enum, wire) PROVE wire' = wire
  <2>1. enum \in Enums /\ wire \in JsonValues /\ wire' = Encode(DecodeRoot(enum, wire))
    BY <1>2 DEF CodecInv, EncodeModel, Roots, Enums
  <2> QED
    BY <1>2, <2>1, CanonicalAccepted
<1>3. CodecInv => [/\ DecodeFrame /\ Canonical(enum, wire) => IsModel(decoded')
                   /\ EncodeModel /\ Canonical(enum, wire) => wire' = wire]_codecVars
  BY <1>1, <1>2, Zenon
<1> QED
  BY <1>3, CodecInductive, PTL DEF CanonicalIsFixed

\* An unknown event is returned with its name and its payload
\* (codec.py:33-36, 72-75).
THEOREM UnknownEventsReturned == CodecSpec => UnknownEventsSurvive
<1> DEFINE bare == wire.tags = <<>>
           name == IF bare THEN wire.leaf ELSE Head(wire.tags)
           kept == /\ outcome'.kind = "returned"
                   /\ outcome'.what.path = <<name>>
                   /\ outcome'.what.data = IF bare THEN wire ELSE Below(wire)
<1>1. ASSUME CodecInv, DecodeFrame, enum = "Event", name \notin Known("Event"),
             IF bare THEN IsName(name) ELSE name # "root"
      PROVE  kept
  <2>1. decoded' = Model(<<name>>, IF bare THEN wire ELSE Below(wire))
    <3>1. wire \in JsonValues /\ decoded' = DecodeRoot("Event", wire)
      BY <1>1 DEF CodecInv, DecodeFrame
    <3>2. CASE bare
      BY <1>1, <3>1, <3>2, UnknownDecoded, Zenon
    <3>3. CASE ~bare
      BY <1>1, <3>1, <3>3, UnknownDecoded, Zenon
    <3> QED
      BY <3>2, <3>3
  <2> HIDE DEF name, bare
  <2>2. outcome' = EventOutcome(decoded')
    BY <1>1, OutcomeCases
  <2>3. /\ IsModel(decoded') /\ decoded'.path = <<name>>
        /\ decoded'.data = IF bare THEN wire ELSE Below(wire)
    BY <2>1, ModelFields, Zenon
  <2>4. outcome' = Returned(decoded')
    BY <2>2, <2>3, Zenon DEF EventOutcome
  <2>5. outcome'.kind = "returned" /\ outcome'.what = decoded'
    BY <2>4 DEF Returned
  <2> QED
    BY <2>3, <2>5, Zenon
<1>2. CodecInv => [DecodeFrame /\ enum = "Event"
                     => (name \notin Known("Event") /\ (IF bare THEN IsName(name) ELSE name # "root") => kept)]_codecVars
  BY <1>1
<1> QED
  BY <1>2, CodecInductive, PTL DEF UnknownEventsSurvive
=============================================================================
