------------------------- MODULE FrameReaderProofs -------------------------
(***************************************************************************)
(* Proofs about FrameReader: the type invariant, the agreement of the two  *)
(* limits, the integrity of the frames and the silence of a poisoned       *)
(* connection, for every value of the limits, every number of frames and   *)
(* every way they are cut into chunks.                                     *)
(***************************************************************************)
EXTENDS FrameReader, SequenceTheorems, TLAPS

\* A result appended to the history keeps a property of every result in it.
LEMMA ResultAppended ==
  ASSUME NEW S, NEW s \in Seq(S), NEW e \in S
  PROVE  /\ Append(s, e) \in Seq(S)
         /\ \A i \in 1..Len(Append(s, e)) :
              \/ i \in 1..Len(s) /\ Append(s, e)[i] = s[i]
              \/ i = Len(s) + 1 /\ Append(s, e)[i] = e
  OBVIOUS

\* The stream limit is a number of bytes above max_frame_size
\* (client.py:109, event_stream.py:72).
LEMMA LimitAboveFrame == StreamLimit \in Nat /\ StreamLimit > MaxFrame
  BY LimitsAssumption DEF StreamLimit

\* Every read_frame adds one well-formed result.
LEMMA EndsType ==
  ASSUME FrameTypeOK, NEW kind \in Kinds, NEW n \in Nat, Ends(kind, n)
  PROVE  /\ results' = Append(results, [kind |-> kind, length |-> n])
         /\ results' \in Seq(Results)
         /\ eof' = eof /\ sent' = sent
  BY ResultAppended DEF FrameTypeOK, Ends, Result, Results

\* The variables keep their types through every arrival and every read_frame
\* (connection.py:90-160).
THEOREM FrameTypeCorrect == FrameSpec => []FrameTypeOK
<1>1. FrameInit => FrameTypeOK
  <2> SUFFICES ASSUME FrameInit PROVE FrameTypeOK
    OBVIOUS
  <2>1. whole \in Seq(Nat) /\ results \in Seq(Results) /\ sent \in Seq(Nat) /\ consumed \in Seq(Nat)
    BY EmptySeq DEF FrameInit
  <2>2. part \in Nat
    BY DEF FrameInit
  <2>3. eof \in BOOLEAN /\ closed \in BOOLEAN
    BY DEF FrameInit
  <2> QED
    BY <2>1, <2>2, <2>3 DEF FrameTypeOK
<1>2. FrameTypeOK /\ [FrameNext]_frameVars => FrameTypeOK'
  <2> SUFFICES ASSUME FrameTypeOK, [FrameNext]_frameVars PROVE FrameTypeOK'
    OBVIOUS
  <2>1. CASE ByteArrives
    BY <2>1 DEF FrameTypeOK, ByteArrives
  <2>2. CASE DelimiterArrives
    BY <2>2 DEF FrameTypeOK, DelimiterArrives
  <2>3. CASE EofArrives
    BY <2>3 DEF FrameTypeOK, EofArrives
  <2>4. CASE ReadRefused
    BY <2>4, EndsType DEF FrameTypeOK, ReadRefused, Kinds, Results
  <2>5. CASE ReadWhole
    <3>1. Head(whole) \in Nat /\ Tail(whole) \in Seq(Nat)
      BY <2>5 DEF ReadWhole, FrameTypeOK
    <3>2. results' \in Seq(Results) /\ eof' = eof /\ sent' = sent
      BY <2>5, <3>1, EndsType DEF ReadWhole, Kinds
    <3> QED
      BY <2>5, <3>1, <3>2 DEF ReadWhole, FrameTypeOK, Results
  <2>6. CASE ReadOverrun
    <3> DEFINE seen == IF whole # <<>> THEN Head(whole) ELSE part
    <3>1. seen \in Nat
      BY DEF FrameTypeOK
    <3>2. Ends("overrun", seen) /\ closed' = TRUE /\ UNCHANGED <<whole, part, consumed>>
      BY <2>6 DEF ReadOverrun
    <3>3. results' \in Seq(Results) /\ eof' = eof /\ sent' = sent
      BY <3>1, <3>2, EndsType DEF Kinds
    <3> QED
      BY <3>2, <3>3 DEF FrameTypeOK, Results
  <2>7. CASE ReadIncomplete
    <3>1. part \in Nat /\ Ends("eof", part)
      BY <2>7 DEF ReadIncomplete, FrameTypeOK
    <3>2. results' \in Seq(Results) /\ eof' = eof /\ sent' = sent
      BY <3>1, EndsType DEF Kinds
    <3> QED
      BY <2>7, <3>2 DEF ReadIncomplete, FrameTypeOK, Results
  <2>8. ASSUME NEW kind \in {"late", "oserror"}, ReadBreaks(kind) PROVE FrameTypeOK'
    <3>1. results' \in Seq(Results) /\ eof' = eof /\ sent' = sent
      BY <2>8, EndsType DEF ReadBreaks, Kinds
    <3> QED
      BY <2>8, <3>1 DEF ReadBreaks, FrameTypeOK, Results
  <2>9. CASE UNCHANGED frameVars
    BY <2>9 DEF FrameTypeOK, frameVars
  <2> QED
    BY <2>1, <2>2, <2>3, <2>4, <2>5, <2>6, <2>7, <2>8, <2>9 DEF FrameNext
<1> QED
  BY <1>1, <1>2, PTL DEF FrameSpec

\* One result within the rule of the limits.
Agrees(r) ==
  /\ r.kind = "frame" => r.length <= MaxFrame
  /\ r.kind \in {"oversized", "overrun"} => r.length > MaxFrame

\* A read that ends within the rule keeps the history within it.
LEMMA EndsAgree ==
  ASSUME FrameTypeOK, LimitsAgree, NEW kind \in Kinds, NEW n \in Nat, Ends(kind, n),
         Agrees([kind |-> kind, length |-> n])
  PROVE  LimitsAgree'
<1> DEFINE r == [kind |-> kind, length |-> n]
<1>1. results' = Append(results, r) /\ r \in Results /\ results \in Seq(Results)
  BY EndsType DEF Results, FrameTypeOK
<1>2. \A i \in 1..Len(results') :
        \/ i \in 1..Len(results) /\ results'[i] = results[i]
        \/ results'[i] = r
  BY <1>1, ResultAppended
<1>3. \A i \in 1..Len(results') : Agrees(results'[i])
  BY <1>2 DEF Agrees, LimitsAgree
<1> QED
  BY <1>3 DEF Agrees, LimitsAgree

\* Whatever the limits and the chunks, the size check accepts exactly the frames
\* of at most max_frame_size (connection.py:131-156, client.py:109).
THEOREM FrameLimitsAgree == FrameSpec => []LimitsAgree
<1>1. FrameInit => LimitsAgree
  BY DEF FrameInit, LimitsAgree
<1>2. FrameTypeOK /\ LimitsAgree /\ [FrameNext]_frameVars => LimitsAgree'
  <2> SUFFICES ASSUME FrameTypeOK, LimitsAgree, [FrameNext]_frameVars PROVE LimitsAgree'
    OBVIOUS
  <2>1. CASE ByteArrives \/ DelimiterArrives \/ EofArrives \/ UNCHANGED frameVars
    BY <2>1 DEF LimitsAgree, ByteArrives, DelimiterArrives, EofArrives, frameVars
  <2>2. CASE ReadRefused
    BY <2>2, EndsAgree DEF ReadRefused, Kinds, Agrees
  <2>3. CASE ReadWhole
    <3>1. Head(whole) \in Nat
      BY <2>3 DEF ReadWhole, FrameTypeOK
    <3>2. CASE Head(whole) > MaxFrame
      <4>1. Ends("oversized", Head(whole)) /\ "oversized" \in Kinds
        BY <2>3, <3>2 DEF ReadWhole, Kinds
      <4> QED
        BY <4>1, <3>1, <3>2, EndsAgree DEF Agrees
    <3>3. CASE ~(Head(whole) > MaxFrame)
      <4>1. Ends("frame", Head(whole)) /\ "frame" \in Kinds
        BY <2>3, <3>3 DEF ReadWhole, Kinds
      <4>2. Head(whole) <= MaxFrame
        BY <3>1, <3>3, LimitsAssumption
      <4> QED
        BY <4>1, <4>2, <3>1, EndsAgree DEF Agrees
    <3> QED
      BY <3>2, <3>3
  <2>4. CASE ReadOverrun
    <3> DEFINE seen == IF whole # <<>> THEN Head(whole) ELSE part
    <3>1. seen \in Nat
      BY DEF FrameTypeOK
    <3>2. seen > StreamLimit /\ Ends("overrun", seen) /\ "overrun" \in Kinds
      BY <2>4 DEF ReadOverrun, Kinds
    <3>3. seen > MaxFrame
      BY <3>1, <3>2, LimitAboveFrame, LimitsAssumption
    <3> QED
      BY <3>1, <3>2, <3>3, EndsAgree DEF Agrees
  <2>5. CASE ReadIncomplete
    <3>1. part \in Nat /\ Ends("eof", part) /\ "eof" \in Kinds
      BY <2>5 DEF ReadIncomplete, FrameTypeOK, Kinds
    <3> QED
      BY <3>1, EndsAgree DEF Agrees
  <2>6. ASSUME NEW kind \in {"late", "oserror"}, ReadBreaks(kind) PROVE LimitsAgree'
    BY <2>6, EndsAgree DEF ReadBreaks, Kinds, Agrees
  <2> QED
    BY <2>1, <2>2, <2>3, <2>4, <2>5, <2>6 DEF FrameNext
<1> QED
  BY <1>1, <1>2, FrameTypeCorrect, PTL DEF FrameSpec

\* Taking the head of the buffer moves a frame and changes nothing else.
LEMMA MoveHead ==
  ASSUME NEW s \in Seq(Nat), NEW t \in Seq(Nat), t # <<>>
  PROVE  Append(s, Head(t)) \o Tail(t) = s \o t
  OBVIOUS

\* A frame that arrives is behind all the others.
LEMMA AppendBehind ==
  ASSUME NEW s \in Seq(Nat), NEW t \in Seq(Nat), NEW n \in Nat
  PROVE  s \o Append(t, n) = Append(s \o t, n)
  OBVIOUS

\* No frame is lost, merged, split or reordered between the socket and the
\* caller of read_frame (connection.py:103-107, 150-160).
THEOREM FrameIntegrity == FrameSpec => []FramesInOrder
<1>1. FrameInit => FramesInOrder
  BY DEF FrameInit, FramesInOrder
<1>2. FrameTypeOK /\ FramesInOrder /\ [FrameNext]_frameVars => FramesInOrder'
  <2> SUFFICES ASSUME FrameTypeOK, FramesInOrder, [FrameNext]_frameVars PROVE FramesInOrder'
    OBVIOUS
  <2>1. CASE DelimiterArrives
    BY <2>1, AppendBehind DEF DelimiterArrives, FramesInOrder, FrameTypeOK
  <2>2. CASE ReadWhole
    BY <2>2, MoveHead DEF ReadWhole, Ends, FramesInOrder, FrameTypeOK
  <2>3. CASE ByteArrives \/ EofArrives \/ UNCHANGED frameVars
    BY <2>3 DEF ByteArrives, EofArrives, frameVars, FramesInOrder
  <2>4. CASE ReadRefused \/ ReadOverrun \/ ReadIncomplete
    BY <2>4 DEF ReadRefused, ReadOverrun, ReadIncomplete, Ends, FramesInOrder
  <2>5. CASE ReadBreaks("late") \/ ReadBreaks("oserror")
    BY <2>5 DEF ReadBreaks, Ends, FramesInOrder
  <2> QED
    BY <2>1, <2>2, <2>3, <2>4, <2>5 DEF FrameNext
<1> QED
  BY <1>1, <1>2, FrameTypeCorrect, PTL DEF FrameSpec

\* The results that poison the connection.
Poisons(r) == r.kind \in {"late", "eof", "overrun", "oserror"}

\* What a poisoning result leaves: a connection that is closed, and only refusals.
PoisonInv == PoisonIsFinal /\ \A i \in 1..Len(results) : Poisons(results[i]) => closed

\* A read that ends keeps that, if a closed connection refuses it and it closes
\* the connection when it poisons it.
LEMMA EndsPoison ==
  ASSUME FrameTypeOK, PoisonInv, NEW kind \in Kinds, NEW n \in Nat, Ends(kind, n),
         closed => closed', closed => kind = "closed",
         kind \in {"late", "eof", "overrun", "oserror"} => closed'
  PROVE  PoisonInv'
<1> DEFINE r == [kind |-> kind, length |-> n]
           m == Len(results)
<1>1. results' = Append(results, r) /\ r \in Results /\ results \in Seq(Results)
  BY EndsType DEF Results, FrameTypeOK
<1>2. m \in Nat /\ Len(results') = m + 1 /\ results'[m + 1] = r
      /\ \A i \in 1..m : results'[i] = results[i]
  BY <1>1
<1>3. \A i \in 1..m : Poisons(results'[i]) => closed
  BY <1>2 DEF PoisonInv
<1>4. Poisons(results'[m + 1]) => closed'
  BY <1>2 DEF Poisons
<1>5. \A i \in 1..(m + 1) : i \in 1..m \/ i = m + 1
  BY ONLY m \in Nat, <1>2
<1>6. \A i \in 1..Len(results') : Poisons(results'[i]) => closed'
  BY <1>2, <1>3, <1>4, <1>5
<1>7. ASSUME NEW i \in 1..(m + 1), NEW j \in 1..(m + 1), i < j, Poisons(results'[i])
      PROVE  results'[j].kind = "closed"
  <2>1. i \in 1..m
    BY ONLY <1>2, <1>7
  <2>2. closed
    BY <1>3, <1>7, <2>1
  <2>3. CASE j = m + 1
    BY <1>2, <2>2, <2>3
  <2>4. CASE j \in 1..m
    BY <1>2, <1>7, <2>1, <2>4 DEF PoisonInv, PoisonIsFinal, Poisons
  <2> QED
    BY <1>5, <2>3, <2>4
<1> QED
  BY <1>2, <1>6, <1>7 DEF PoisonInv, PoisonIsFinal, Poisons

\* However many reads follow and whatever still arrives, a read that timed out,
\* failed, overran or met the end of the stream is the last that can have
\* returned anything (connection.py:97-102, 108-148).
THEOREM NothingAfterPoison == FrameSpec => []PoisonIsFinal
<1>1. FrameInit => PoisonInv
  BY DEF FrameInit, PoisonInv, PoisonIsFinal
<1>2. FrameTypeOK /\ PoisonInv /\ [FrameNext]_frameVars => PoisonInv'
  <2> SUFFICES ASSUME FrameTypeOK, PoisonInv, [FrameNext]_frameVars PROVE PoisonInv'
    OBVIOUS
  <2>1. CASE ByteArrives \/ DelimiterArrives \/ EofArrives \/ UNCHANGED frameVars
    BY <2>1 DEF ByteArrives, DelimiterArrives, EofArrives, frameVars, PoisonInv, PoisonIsFinal
  <2>2. CASE ReadRefused
    BY <2>2, EndsPoison DEF ReadRefused, Kinds
  <2>3. CASE ReadWhole
    <3>1. Head(whole) \in Nat /\ ~closed
      BY <2>3 DEF ReadWhole, FrameTypeOK
    <3>2. \E kind \in {"oversized", "frame"} : Ends(kind, Head(whole))
      BY <2>3 DEF ReadWhole
    <3> QED
      BY <3>1, <3>2, EndsPoison DEF Kinds
  <2>4. CASE ReadOverrun
    <3> DEFINE seen == IF whole # <<>> THEN Head(whole) ELSE part
    <3>1. seen \in Nat
      BY DEF FrameTypeOK
    <3>2. Ends("overrun", seen) /\ ~closed /\ closed' = TRUE /\ "overrun" \in Kinds
      BY <2>4 DEF ReadOverrun, Kinds
    <3> HIDE DEF seen
    <3> QED
      BY <3>1, <3>2, EndsPoison
  <2>5. CASE ReadIncomplete
    <3>1. part \in Nat /\ Ends("eof", part) /\ "eof" \in Kinds /\ ~closed /\ closed' = TRUE
      BY <2>5 DEF ReadIncomplete, FrameTypeOK, Kinds
    <3> QED
      BY <3>1, EndsPoison
  <2>6. ASSUME NEW kind \in {"late", "oserror"}, ReadBreaks(kind) PROVE PoisonInv'
    BY <2>6, EndsPoison DEF ReadBreaks, Kinds
  <2> QED
    BY <2>1, <2>2, <2>3, <2>4, <2>5, <2>6 DEF FrameNext
<1>3. PoisonInv => PoisonIsFinal
  BY DEF PoisonInv
<1> QED
  BY <1>1, <1>2, <1>3, FrameTypeCorrect, PTL DEF FrameSpec
=============================================================================
