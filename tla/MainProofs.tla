----------------------------- MODULE MainProofs -----------------------------
(***************************************************************************)
(* What the command line program is made of, for every input and options.  *)
(* read_record keeps its types and limits, collects exactly the unreturned *)
(* part of the input, and implements the line splitter: its records are    *)
(* the input cut behind newlines.  (That the stream ends under fairness is *)
(* left to TLC; that no step is in vain is here.)  The filter loop writes  *)
(* what it reads, in order, and exits with it written; its analysis needs  *)
(* samples enough before it calls a length an outlier.  The severities and *)
(* the lifecycle keep to their Agda and Idris specifications.  The         *)
(* renderer changes colours only.  The vector file is read as a prefix of  *)
(* what was encoded, whoever reads it while it is written.                 *)
(***************************************************************************)
EXTENDS RecordReader, LogFilter, Render, VectorFile, SequenceTheorems,
        WellFoundedInduction, TLAPS

(* Induction, from the fact that < is well-founded: a set of numbers that  *)
(* is not empty has a least one.                                           *)
LEMMA LeastNumber ==
    ASSUME NEW S \in SUBSET Nat, S # {}
    PROVE  \E n \in S : \A m \in S : n <= m
<1> DEFINE less == OpToRel(<, Nat)
<1>1. IsWellFoundedOn(less, Nat)
  BY NatLessThanWellFounded
<1>2. \A m, n \in Nat : m < n => <<m, n>> \in less
  BY DEF OpToRel
<1> HIDE DEF less
<1>3. PICK n \in S : \A m \in S : ~(<<m, n>> \in less)
  BY <1>1, WFMin
<1>4. ASSUME NEW m \in S PROVE n <= m
  <2>1. m \in Nat /\ n \in Nat
    OBVIOUS
  <2>2. ~(m < n)
    BY <1>2, <1>3, <2>1
  <2>3. QED
    BY <2>1, <2>2
<1>5. QED
  BY <1>4

LEMMA Induction ==
    ASSUME NEW S, 0 \in S, \A n \in Nat : n \in S => n + 1 \in S
    PROVE  Nat \subseteq S
<1> DEFINE out == {n \in Nat : n \notin S}
<1>1. SUFFICES ASSUME out # {} PROVE FALSE
  OBVIOUS
<1>2. PICK n \in out : \A m \in out : n <= m
  BY <1>1, LeastNumber
<1>3. n - 1 \in Nat /\ n - 1 \in S
  BY <1>2
<1>4. QED
  BY <1>2, <1>3

-----------------------------------------------------------------------------

(* The inductive invariant: the line is the gap between the last record    *)
(* and the bytes consumed.  WithinLimit needs TypeOK for its lengths, and  *)
(* TypeOK needs PartialLine for the bytes to be bytes of the input.        *)
IInv == TypeOK /\ PartialLine /\ WithinLimit

(* Two adjacent stretches of a sequence put together.                      *)
LEMMA Adjacent ==
    ASSUME NEW S, NEW s \in Seq(S), NEW a \in 0 .. Len(s),
           NEW b \in a .. Len(s), NEW c \in b .. Len(s)
    PROVE  SubSeq(s, a + 1, b) \o SubSeq(s, b + 1, c) = SubSeq(s, a + 1, c)
<1>1. /\ a + 1 \in 1 .. Len(s) + 1
      /\ b \in (a + 1) - 1 .. Len(s)
  BY LenProperties
<1>2. QED
  BY <1>1, ConcatAdjacentSubSeq

(* Appending a chunk to the line collected so far gives one stretch of the *)
(* input, from where the line began to where the chunk ends.               *)
LEMMA ExtendLine ==
    ASSUME TypeOK, PartialLine, NEW e \in consumed + 1 .. filled
    PROVE  /\ line \o Chunk(e) = SubSeq(input, LineStart + 1, e)
           /\ line \o Chunk(e) \in Seq(Byte)
           /\ Len(line \o Chunk(e)) = Len(line) + (e - consumed)
           /\ LineStart \in 0 .. consumed
<1>1. LineStart \in 0 .. consumed
  BY LenProperties DEF LineStart, TypeOK, PartialLine
<1>2. /\ LineStart \in 0 .. Len(input)
      /\ consumed \in LineStart .. Len(input)
      /\ e \in consumed .. Len(input)
      /\ input \in Seq(Byte)
  BY <1>1, LenProperties DEF TypeOK
<1>3. line \o Chunk(e) = SubSeq(input, LineStart + 1, e)
  BY <1>2, Adjacent DEF Chunk, PartialLine
<1>4. \A i \in consumed + 1 .. e : input[i] \in Byte
  BY <1>2, ElementOfSeq, LenProperties DEF TypeOK
<1>5. Chunk(e) \in Seq(Byte) /\ Len(Chunk(e)) = e - consumed
  BY <1>2, <1>4, SubSeqProperties, LenProperties DEF Chunk, TypeOK
<1>6. QED
  BY <1>1, <1>3, <1>5, ConcatProperties DEF TypeOK

(* A record within the limit keeps the records within the limit.           *)
LEMMA AppendLimit ==
    ASSUME NEW rs \in Seq(Seq(Byte)), NEW r \in Seq(Byte),
           Len(r) \in 1 .. MaxRecord,
           \A i \in DOMAIN rs : Len(rs[i]) \in 1 .. MaxRecord
    PROVE  \A i \in DOMAIN Append(rs, r) :
               Len(Append(rs, r)[i]) \in 1 .. MaxRecord
<1>1. /\ DOMAIN Append(rs, r) = 1 .. Len(rs) + 1
      /\ DOMAIN rs = 1 .. Len(rs)
      /\ Len(rs) \in Nat
  BY AppendProperties, LenProperties
<1>2. /\ \A i \in 1 .. Len(rs) : Append(rs, r)[i] = rs[i]
      /\ Append(rs, r)[Len(rs) + 1] = r
  BY AppendProperties
<1>3. QED
  BY <1>1, <1>2

LEMMA InitIInv == ReaderInit => IInv
<1> SUFFICES ASSUME ReaderInit PROVE IInv
  OBVIOUS
<1>1. input \in Seq(Byte) /\ Len(input) \in Nat
  BY ReaderAssumption DEF ReaderInit
<1>2. QED
  BY <1>1, ReaderAssumption
     DEF ReaderInit, IInv, TypeOK, PartialLine, LineStart, WithinLimit, Outcomes

LEMMA NextIInv == IInv /\ [ReaderNext]_readerVars => IInv'
<1> SUFFICES ASSUME IInv, [ReaderNext]_readerVars PROVE IInv'
  OBVIOUS
<1> USE ReaderAssumption DEF IInv
<1>1. CASE FillBuf
  BY <1>1 DEF FillBuf, TypeOK, PartialLine, LineStart, WithinLimit, BufferEmpty
<1>2. CASE TakeChunk
  <2>1. PICK e \in consumed + 1 .. filled :
          /\ IsChunkEnd(e)
          /\ ~TooLong(e)
          /\ consumed' = e
          /\ IF input[e] = NL
                THEN /\ records' = Append(records, line \o Chunk(e))
                     /\ line' = << >>
                ELSE /\ line' = line \o Chunk(e)
                     /\ UNCHANGED records
    BY <1>2 DEF TakeChunk
  <2>2. UNCHANGED <<input, filled, outcome>>
    BY <1>2 DEF TakeChunk
  <2> DEFINE text == line \o Chunk(e)
  <2>3. /\ text = SubSeq(input, LineStart + 1, e)
        /\ text \in Seq(Byte)
        /\ Len(text) = Len(line) + (e - consumed)
        /\ LineStart \in 0 .. consumed
    BY ExtendLine
  <2>4. Len(text) \in 1 .. MaxRecord
    BY <2>1, <2>3, LenProperties DEF TooLong, TypeOK
  <2> HIDE DEF text
  <2>5. CASE input[e] = NL
    <3>1. records' = Append(records, text) /\ line' = << >> /\ consumed' = e
      BY <2>1, <2>5 DEF text
    <3>2. records' \in Seq(Seq(Byte))
      BY <2>3, <3>1, AppendProperties DEF TypeOK
    <3>3. \A i \in DOMAIN records' : Len(records'[i]) \in 1 .. MaxRecord
      BY <2>3, <2>4, <3>1, AppendLimit DEF TypeOK, WithinLimit
    <3>4. QED
      BY <2>2, <3>1, <3>2, <3>3
         DEF TypeOK, PartialLine, LineStart, WithinLimit
  <2>6. CASE input[e] # NL
    <3>1. records' = records /\ line' = text /\ consumed' = e
      BY <2>1, <2>6 DEF text
    <3>2. LineStart' = LineStart
      BY <2>3, <3>1, LenProperties DEF LineStart, TypeOK
    <3>3. \A j \in LineStart + 1 .. e : input[j] # NL
      BY <2>1, <2>3, <2>6 DEF IsChunkEnd, PartialLine, TypeOK
    <3>4. QED
      BY <2>2, <2>3, <2>4, <3>1, <3>2, <3>3
         DEF TypeOK, PartialLine, WithinLimit
  <2>7. QED
    BY <2>5, <2>6
<1>3. CASE RejectChunk
  BY <1>3 DEF RejectChunk, TypeOK, PartialLine, LineStart, WithinLimit, Outcomes
<1>4. CASE ReturnPartial
  <2>1. Len(line) \in 1 .. MaxRecord
    BY <1>4, EmptySeq, LenProperties DEF ReturnPartial, TypeOK, WithinLimit
  <2>2. /\ records' \in Seq(Seq(Byte))
        /\ \A i \in DOMAIN records' : Len(records'[i]) \in 1 .. MaxRecord
    BY <1>4, <2>1, AppendProperties, AppendLimit
       DEF ReturnPartial, TypeOK, WithinLimit
  <2>3. QED
    BY <1>4, <2>2 DEF ReturnPartial, TypeOK, PartialLine, LineStart, WithinLimit
<1>5. CASE ReturnZero
  BY <1>5 DEF ReturnZero, TypeOK, PartialLine, LineStart, WithinLimit, Outcomes
<1>6. CASE FillBufFails
  BY <1>6 DEF FillBufFails, TypeOK, PartialLine, LineStart, WithinLimit, Outcomes
<1>7. CASE UNCHANGED readerVars
  BY <1>7 DEF readerVars, TypeOK, PartialLine, LineStart, WithinLimit
<1>8. QED
  BY <1>1, <1>2, <1>3, <1>4, <1>5, <1>6, <1>7 DEF ReaderNext

(* read_record never leaves its types or its positions out of order.       *)
THEOREM TypeCorrect == ReaderSpec => []TypeOK
<1>1. ReaderInit => IInv
  BY InitIInv
<1>2. IInv /\ [ReaderNext]_readerVars => IInv'
  BY NextIInv
<1>3. IInv => TypeOK
  BY DEF IInv
<1>4. QED
  BY <1>1, <1>2, <1>3, PTL DEF ReaderSpec

(* At every await the line holds exactly the bytes consumed since the last *)
(* record.                                                                 *)
THEOREM PartialLineHolds == ReaderSpec => []PartialLine
<1>1. IInv => PartialLine
  BY DEF IInv
<1>2. QED
  BY <1>1, InitIInv, NextIInv, PTL DEF ReaderSpec

(* No record and no line under construction passes MAXIMUM_RECORD_BYTES.   *)
THEOREM LimitHolds == ReaderSpec => []WithinLimit
<1>1. IInv => WithinLimit
  BY DEF IInv
<1>2. QED
  BY <1>1, InitIInv, NextIInv, PTL DEF ReaderSpec

-----------------------------------------------------------------------------

(* Returning a record of the bytes up to e is the splitter's next line.    *)
LEMMA EmitsLine ==
    ASSUME IInv, outcome = "reading", UNCHANGED <<input, outcome>>,
           NEW e \in LineStart + 1 .. Len(input),
           input[e] = NL \/ e = Len(input),
           \A j \in LineStart + 1 .. e - 1 : input[j] # NL,
           e - LineStart <= MaxRecord,
           records' = Append(records, SubSeq(input, LineStart + 1, e)),
           LineStart' = e
    PROVE  Splitter!EmitLine
BY DEF Splitter!EmitLine, Splitter!IsLineEnd

LEMMA StepRefines ==
    ASSUME IInv, [ReaderNext]_readerVars
    PROVE  [Splitter!SplitterNext]_(Splitter!splitterVars)
<1> USE ReaderAssumption DEF IInv
<1>1. /\ LineStart \in 0 .. consumed
      /\ LineStart \in 0 .. Len(input)
      /\ Len(input) \in Nat
      /\ Len(line) \in Nat
      /\ Len(line) = consumed - LineStart
  BY LenProperties DEF TypeOK, PartialLine, LineStart
<1>2. CASE FillBuf \/ UNCHANGED readerVars
  BY <1>2 DEF FillBuf, readerVars, Splitter!splitterVars, LineStart
<1>3. CASE TakeChunk
  <2>1. PICK e \in consumed + 1 .. filled :
          /\ IsChunkEnd(e)
          /\ ~TooLong(e)
          /\ consumed' = e
          /\ IF input[e] = NL
                THEN /\ records' = Append(records, line \o Chunk(e))
                     /\ line' = << >>
                ELSE /\ line' = line \o Chunk(e)
                     /\ UNCHANGED records
    BY <1>3 DEF TakeChunk
  <2>2. UNCHANGED <<input, filled, outcome>> /\ outcome = "reading"
    BY <1>3 DEF TakeChunk
  <2>3. /\ line \o Chunk(e) = SubSeq(input, LineStart + 1, e)
        /\ line \o Chunk(e) \in Seq(Byte)
        /\ Len(line \o Chunk(e)) = Len(line) + (e - consumed)
    BY ExtendLine
  <2>4. CASE input[e] = NL
    <3>1. LineStart' = e
      BY <2>1, <2>4, EmptySeq, <1>1 DEF LineStart, TypeOK
    <3>2. e \in LineStart + 1 .. Len(input) /\ e - LineStart <= MaxRecord
      BY <1>1, <2>1 DEF TypeOK, TooLong
    <3>3. \A j \in LineStart + 1 .. e - 1 : input[j] # NL
      BY <1>1, <2>1 DEF IsChunkEnd, PartialLine, TypeOK
    <3>4. records' = Append(records, SubSeq(input, LineStart + 1, e))
      BY <2>1, <2>3, <2>4
    <3>5. Splitter!EmitLine
      BY <2>2, <2>4, <3>1, <3>2, <3>3, <3>4, EmitsLine
    <3>6. QED
      BY <3>5 DEF Splitter!SplitterNext
  <2>5. CASE input[e] # NL
    <3>1. LineStart' = LineStart
      <4>1. /\ Len(line') = Len(line) + (e - consumed)
            /\ consumed' = e
        BY <2>1, <2>3, <2>5
      <4>2. consumed \in Int /\ e \in Int /\ Len(line) \in Int
        BY <1>1, <2>1 DEF TypeOK
      <4>3. QED
        BY <4>1, <4>2 DEF LineStart
    <3>2. QED
      BY <2>1, <2>2, <2>5, <3>1 DEF Splitter!splitterVars
  <2>6. QED
    BY <2>4, <2>5
<1>4. CASE RejectChunk
  <2>1. PICK e \in consumed + 1 .. filled : IsChunkEnd(e) /\ TooLong(e)
    BY <1>4 DEF RejectChunk
  <2>2. e - LineStart > MaxRecord /\ e <= Len(input)
    BY <1>1, <2>1 DEF TypeOK, TooLong
  <2>3. \A j \in LineStart + 1 .. LineStart + MaxRecord : input[j] # NL
    BY <1>1, <2>1, <2>2 DEF IsChunkEnd, PartialLine, TypeOK
  <2>4. Len(input) - LineStart > MaxRecord
    BY <1>1, <2>1, <2>2 DEF TypeOK
  <2>5. /\ outcome = "reading" /\ outcome' = "too_long"
        /\ UNCHANGED <<input, records>> /\ LineStart' = LineStart
    BY <1>4 DEF RejectChunk, LineStart
  <2>6. QED
    BY <2>3, <2>4, <2>5 DEF Splitter!SplitterNext, Splitter!RejectLine
<1>5. CASE ReturnPartial
  <2>1. /\ line # << >> /\ consumed = Len(input) /\ outcome = "reading"
        /\ records' = Append(records, line) /\ line' = << >>
        /\ UNCHANGED <<input, consumed, outcome>>
    BY <1>5 DEF ReturnPartial, AtEnd
  <2>2. Len(line) \in 1 .. MaxRecord
    BY <2>1, EmptySeq, LenProperties DEF TypeOK, WithinLimit
  <2>3. LineStart' = Len(input)
    BY <1>1, <2>1, EmptySeq DEF LineStart
  <2>4. line = SubSeq(input, LineStart + 1, Len(input))
    BY <2>1 DEF PartialLine
  <2>5. /\ Len(input) \in LineStart + 1 .. Len(input)
        /\ Len(input) - LineStart <= MaxRecord
    BY <1>1, <2>1, <2>2
  <2>6. \A j \in LineStart + 1 .. Len(input) - 1 : input[j] # NL
    BY <1>1, <2>1 DEF PartialLine
  <2>7. Splitter!EmitLine
    BY <2>1, <2>3, <2>4, <2>5, <2>6, EmitsLine
  <2>8. QED
    BY <2>7 DEF Splitter!SplitterNext
<1>6. CASE ReturnZero
  <2>1. /\ LineStart = Len(input) /\ LineStart' = LineStart
    BY <1>1, <1>6, EmptySeq DEF ReturnZero, AtEnd, LineStart
  <2>2. QED
    BY <1>6, <2>1 DEF ReturnZero, Splitter!SplitterNext, Splitter!Finish
<1>7. CASE FillBufFails
  BY <1>7 DEF FillBufFails, LineStart, Splitter!SplitterNext, Splitter!InputFails
<1>8. QED
  BY <1>2, <1>3, <1>4, <1>5, <1>6, <1>7 DEF ReaderNext

(* The records are the lines of the input, in order and complete, whatever *)
(* pieces it was read in, and only a line over the limit is refused: every *)
(* step of read_record is a step of the line splitter or changes nothing   *)
(* the splitter has.                                                       *)
THEOREM Refinement == ReaderSpec => ImplementsSplitter
<1>1. ReaderInit => Splitter!SplitterInit
  <2> SUFFICES ASSUME ReaderInit PROVE Splitter!SplitterInit
    OBVIOUS
  <2>1. consumed = 0 /\ Len(line) = 0
    BY EmptySeq DEF ReaderInit
  <2>2. LineStart = 0
    BY <2>1 DEF LineStart
  <2>3. QED
    BY <2>2 DEF ReaderInit, Splitter!SplitterInit
<1>2. IInv /\ [ReaderNext]_readerVars => [Splitter!SplitterNext]_(Splitter!splitterVars)
  BY StepRefines
<1>3. QED
  BY <1>1, <1>2, InitIInv, NextIInv, PTL DEF ReaderSpec, ImplementsSplitter

(* A sequence of lines rs is the beginning of s up to a position, cut      *)
(* behind newlines: cut[i] is the end of the i-th of them.                 *)
IsSplit(s, rs, cut, to) ==
    /\ cut \in [0 .. Len(rs) -> 0 .. Len(s)]
    /\ cut[0] = 0 /\ cut[Len(rs)] = to
    /\ \A i \in 1 .. Len(rs) :
          /\ cut[i - 1] < cut[i]
          /\ Splitter!IsLineEnd(s, cut[i - 1], Len(s), cut[i])
          /\ rs[i] = SubSeq(s, cut[i - 1] + 1, cut[i])

(* The records are the input cut behind its newlines, from its first byte  *)
(* to the line being collected: no byte is lost, none is in two records.   *)
(* A clean end of the input leaves none of it out.                         *)
RecordsCoverInput ==
    /\ \E cut \in [0 .. Len(records) -> 0 .. Len(input)] :
           IsSplit(input, records, cut, LineStart)
    /\ outcome = "eof" => LineStart = Len(input)

LEMMA LineStartInInput ==
    ASSUME IInv
    PROVE  LineStart \in 0 .. Len(input) /\ Len(input) \in Nat /\ Len(records) \in Nat
BY LenProperties DEF IInv, TypeOK, PartialLine, LineStart

LEMMA SplitExtends ==
    ASSUME NEW s \in Seq(Byte), NEW rs \in Seq(Seq(Byte)),
           NEW from \in 0 .. Len(s), NEW e \in from + 1 .. Len(s), NEW cut,
           IsSplit(s, rs, cut, from), Splitter!IsLineEnd(s, from, Len(s), e)
    PROVE  \E new \in [0 .. Len(rs) + 1 -> 0 .. Len(s)] :
               IsSplit(s, Append(rs, SubSeq(s, from + 1, e)), new, e)
<1> DEFINE n == Len(rs)
           chunk == SubSeq(s, from + 1, e)
           more == Append(rs, chunk)
           new == [i \in 0 .. n + 1 |-> IF i <= n THEN cut[i] ELSE e]
<1>1. n \in Nat /\ Len(s) \in Nat
  BY LenProperties
<1>2. \A j \in from + 1 .. e : s[j] \in Byte
  BY <1>1, ElementOfSeq
<1>3. chunk \in Seq(Byte)
  BY <1>1, <1>2, SubSeqProperties
<1> HIDE DEF chunk
<1>4. /\ Len(more) = n + 1 /\ more[n + 1] = chunk
      /\ \A i \in 1 .. n : more[i] = rs[i]
  BY <1>3, AppendProperties
<1>5. /\ cut \in [0 .. n -> 0 .. Len(s)] /\ cut[0] = 0 /\ cut[n] = from
      /\ \A i \in 1 .. n :
            /\ cut[i - 1] < cut[i]
            /\ Splitter!IsLineEnd(s, cut[i - 1], Len(s), cut[i])
            /\ rs[i] = SubSeq(s, cut[i - 1] + 1, cut[i])
  BY DEF IsSplit
<1> HIDE DEF n, more
<1>6. /\ new \in [0 .. n + 1 -> 0 .. Len(s)]
      /\ new[n + 1] = e /\ \A i \in 0 .. n : new[i] = cut[i]
  BY <1>1, <1>5
<1> HIDE DEF new
<1>7. ASSUME NEW i \in 1 .. n + 1
      PROVE  /\ new[i - 1] < new[i]
             /\ Splitter!IsLineEnd(s, new[i - 1], Len(s), new[i])
             /\ more[i] = SubSeq(s, new[i - 1] + 1, new[i])
  <2>1. CASE i \in 1 .. n
    <3>1. new[i] = cut[i] /\ new[i - 1] = cut[i - 1] /\ more[i] = rs[i]
      BY <1>1, <1>4, <1>6, <2>1
    <3>2. QED
      BY <1>5, <2>1, <3>1
  <2>2. CASE i = n + 1
    <3>1. new[i] = e /\ new[i - 1] = from /\ more[i] = chunk
      BY <1>1, <1>4, <1>5, <1>6, <2>2
    <3>2. from < e
      BY <1>1
    <3>3. QED
      BY <3>1, <3>2 DEF chunk
  <2>3. QED
    BY <1>1, <2>1, <2>2
<1>8. new[0] = 0
  BY <1>1, <1>5, <1>6
<1>9. IsSplit(s, more, new, e)
  BY <1>1, <1>4, <1>6, <1>7, <1>8 DEF IsSplit
<1>10. QED
  BY <1>6, <1>9 DEF n, more, chunk

LEMMA InitCover == ReaderInit => RecordsCoverInput
<1> SUFFICES ASSUME ReaderInit PROVE RecordsCoverInput
  OBVIOUS
<1> DEFINE cut == [i \in 0 .. 0 |-> 0]
<1>1. /\ records = << >> /\ Len(records) = 0 /\ outcome # "eof"
      /\ consumed = 0 /\ Len(line) = 0 /\ Len(input) \in Nat
  BY EmptySeq, ReaderAssumption DEF ReaderInit
<1>2. LineStart = 0
  BY <1>1 DEF LineStart
<1>3. cut \in [0 .. 0 -> 0 .. Len(input)] /\ cut[0] = 0
  BY <1>1
<1> HIDE DEF cut
<1>4. IsSplit(input, records, cut, LineStart)
  BY <1>1, <1>2, <1>3 DEF IsSplit
<1>5. QED
  BY <1>1, <1>3, <1>4 DEF RecordsCoverInput

LEMMA NextCover ==
    ASSUME IInv, RecordsCoverInput, [ReaderNext]_readerVars
    PROVE  RecordsCoverInput'
<1>1. /\ LineStart \in 0 .. Len(input) /\ Len(input) \in Nat
      /\ input \in Seq(Byte) /\ records \in Seq(Seq(Byte))
  BY LineStartInInput DEF IInv, TypeOK
<1>2. PICK cut \in [0 .. Len(records) -> 0 .. Len(input)] :
          IsSplit(input, records, cut, LineStart)
  BY DEF RecordsCoverInput
<1>3. CASE Splitter!EmitLine
  <2>1. PICK e \in LineStart + 1 .. Len(input) :
            /\ Splitter!IsLineEnd(input, LineStart, Len(input), e)
            /\ records' = Append(records, SubSeq(input, LineStart + 1, e))
            /\ LineStart' = e
    BY <1>3 DEF Splitter!EmitLine
  <2>2. UNCHANGED <<input, outcome>> /\ outcome # "eof"
    BY <1>3 DEF Splitter!EmitLine
  <2>3. PICK new \in [0 .. Len(records) + 1 -> 0 .. Len(input)] :
            IsSplit(input, Append(records, SubSeq(input, LineStart + 1, e)), new, e)
    BY <1>1, <1>2, <2>1, SplitExtends
  <2>4. IsSplit(input', records', new, LineStart')
    BY <2>1, <2>2, <2>3
  <2>5. new \in [0 .. Len(records') -> 0 .. Len(input')]
    BY <2>4 DEF IsSplit
  <2>6. QED
    BY <2>2, <2>4, <2>5 DEF RecordsCoverInput
<1>4. CASE UNCHANGED <<input, LineStart, records>> /\
           (outcome' = "eof" => LineStart = Len(input))
  BY <1>2, <1>4 DEF RecordsCoverInput
<1>5. CASE Splitter!Finish \/ Splitter!RejectLine \/ Splitter!InputFails
  BY <1>4, <1>5 DEF Splitter!Finish, Splitter!RejectLine, Splitter!InputFails
<1>6. CASE UNCHANGED Splitter!splitterVars
  BY <1>4, <1>6 DEF Splitter!splitterVars, RecordsCoverInput
<1>7. QED
  BY StepRefines, <1>3, <1>5, <1>6 DEF Splitter!SplitterNext

(* What is handed over is the input itself, cut behind its newlines.       *)
THEOREM RecordsAreTheInput == ReaderSpec => []RecordsCoverInput
BY InitIInv, NextIInv, InitCover, NextCover, PTL DEF ReaderSpec

LEMMA NextCut ==
    ASSUME NEW s \in Seq(Byte), NEW rs \in Seq(Seq(Byte)), NEW cut, NEW to,
           IsSplit(s, rs, cut, to), NEW i \in Nat, i < Len(rs)
    PROVE  /\ cut[i] \in 0 .. Len(s) /\ cut[i + 1] \in 0 .. Len(s)
           /\ cut[i] < cut[i + 1]
           /\ Splitter!IsLineEnd(s, cut[i], Len(s), cut[i + 1])
<1>1. Len(rs) \in Nat
  BY LenProperties
<1> DEFINE k == i + 1
<1>2. k \in 1 .. Len(rs) /\ k - 1 = i /\ i \in 0 .. Len(rs) /\ k \in 0 .. Len(rs)
  BY <1>1
<1> HIDE DEF k
<1>3. /\ cut[k - 1] < cut[k]
      /\ Splitter!IsLineEnd(s, cut[k - 1], Len(s), cut[k])
      /\ cut[i] \in 0 .. Len(s) /\ cut[k] \in 0 .. Len(s)
  BY <1>2 DEF IsSplit
<1>4. QED
  BY <1>2, <1>3 DEF k

(* There is one way to cut an input: two readers of the same bytes, in     *)
(* whatever pieces they come, cut them alike as far as both have come.     *)
LEMMA SameCuts ==
    ASSUME NEW s \in Seq(Byte),
           NEW rs \in Seq(Seq(Byte)), NEW qs \in Seq(Seq(Byte)),
           NEW cut, NEW dut, NEW to, NEW by,
           IsSplit(s, rs, cut, to), IsSplit(s, qs, dut, by)
    PROVE  \A i \in Nat : i <= Len(rs) /\ i <= Len(qs) => cut[i] = dut[i]
<1> DEFINE same == {i \in Nat : i <= Len(rs) /\ i <= Len(qs) => cut[i] = dut[i]}
<1>1. Len(s) \in Nat /\ Len(rs) \in Nat /\ Len(qs) \in Nat
  BY LenProperties
<1>2. 0 \in same
  BY DEF IsSplit
<1>3. ASSUME NEW i \in Nat, i \in same PROVE i + 1 \in same
  <2>1. SUFFICES ASSUME i + 1 <= Len(rs), i + 1 <= Len(qs) PROVE cut[i + 1] = dut[i + 1]
    BY <1>3
  <2>2. i < Len(rs) /\ i < Len(qs)
    BY <1>1, <2>1
  <2>3. cut[i] = dut[i]
    BY <1>1, <1>3, <2>2
  <2> DEFINE a == cut[i + 1]
             b == dut[i + 1]
             c == cut[i]
  <2>4. /\ a \in 0 .. Len(s) /\ c \in 0 .. Len(s) /\ c < a
        /\ Splitter!IsLineEnd(s, c, Len(s), a)
    BY <2>2, NextCut
  <2>5. b \in 0 .. Len(s) /\ c < b /\ Splitter!IsLineEnd(s, c, Len(s), b)
    BY <2>2, <2>3, NextCut
  <2> HIDE DEF a, b, c
  <2>6. ~(a < b) /\ ~(b < a)
    BY <1>1, <2>4, <2>5 DEF Splitter!IsLineEnd
  <2>7. a = b
    BY <1>1, <2>4, <2>5, <2>6
  <2>8. QED
    BY <2>7 DEF a, b
<1> HIDE DEF same
<1>4. Nat \subseteq same
  BY <1>2, <1>3, Induction
<1>5. QED
  BY <1>4 DEF same

(* Nor is there a longer one of two that cut the whole of it: when both    *)
(* have come to the end of the input they have the same records.           *)
THEOREM ReadingIsDetermined ==
    ASSUME NEW s \in Seq(Byte),
           NEW rs \in Seq(Seq(Byte)), NEW qs \in Seq(Seq(Byte)), NEW cut, NEW dut,
           IsSplit(s, rs, cut, Len(s)), IsSplit(s, qs, dut, Len(s))
    PROVE  rs = qs
<1>1. Len(s) \in Nat /\ Len(rs) \in Nat /\ Len(qs) \in Nat
  BY LenProperties
<1>2. \A i \in Nat : i <= Len(rs) /\ i <= Len(qs) => cut[i] = dut[i]
  BY SameCuts
<1>3. cut[Len(rs)] = Len(s) /\ dut[Len(qs)] = Len(s)
  BY DEF IsSplit
<1>4. ~(Len(rs) < Len(qs))
  <2>1. SUFFICES ASSUME Len(rs) < Len(qs) PROVE FALSE
    OBVIOUS
  <2>2. dut[Len(rs)] < dut[Len(rs) + 1] /\ dut[Len(rs) + 1] \in 0 .. Len(s)
    BY <1>1, <2>1, NextCut
  <2>3. dut[Len(rs)] = Len(s)
    <3>1. Len(rs) \in Nat /\ Len(rs) <= Len(rs) /\ Len(rs) <= Len(qs)
      BY <1>1, <2>1
    <3>2. cut[Len(rs)] = dut[Len(rs)]
      BY <1>2, <3>1, Zenon
    <3>3. QED
      BY <1>3, <3>2
  <2>4. QED
    BY <1>1, <2>2, <2>3
<1>5. ~(Len(qs) < Len(rs))
  <2>1. SUFFICES ASSUME Len(qs) < Len(rs) PROVE FALSE
    OBVIOUS
  <2>2. cut[Len(qs)] < cut[Len(qs) + 1] /\ cut[Len(qs) + 1] \in 0 .. Len(s)
    BY <1>1, <2>1, NextCut
  <2>3. cut[Len(qs)] = Len(s)
    <3>1. Len(qs) \in Nat /\ Len(qs) <= Len(rs) /\ Len(qs) <= Len(qs)
      BY <1>1, <2>1
    <3>2. cut[Len(qs)] = dut[Len(qs)]
      BY <1>2, <3>1, Zenon
    <3>3. QED
      BY <1>3, <3>2
  <2>4. QED
    BY <1>1, <2>2, <2>3
<1>6. Len(rs) = Len(qs)
  BY <1>1, <1>4, <1>5
<1>7. ASSUME NEW i \in 1 .. Len(rs) PROVE rs[i] = qs[i]
  <2>1. cut[i] = dut[i] /\ cut[i - 1] = dut[i - 1]
    BY <1>1, <1>2, <1>6
  <2>2. rs[i] = SubSeq(s, cut[i - 1] + 1, cut[i])
    BY DEF IsSplit
  <2>3. qs[i] = SubSeq(s, dut[i - 1] + 1, dut[i])
    BY <1>6 DEF IsSplit
  <2>4. QED
    BY <2>1, <2>2, <2>3
<1>8. QED
  BY <1>6, <1>7, SeqEqual

(* What StreamEnds rests on, without the fairness: while read_record has   *)
(* not come to an end there is a step for it to take, ...                  *)
ReadingGoesOn ==
    outcome = "reading" =>
        \/ AtEnd
        \/ BufferEmpty /\ consumed < Len(input)
        \/ \E e \in consumed + 1 .. filled : IsChunkEnd(e)

(* The first newline that is available, or all there is, ends a chunk.     *)
THEOREM NeverStuck == ReaderSpec => []ReadingGoesOn
<1>1. ASSUME IInv PROVE ReadingGoesOn
  <2>1. filled \in Nat /\ consumed \in 0 .. filled /\ filled <= Len(input) /\ Len(input) \in Nat
    BY <1>1, LenProperties DEF IInv, TypeOK
  <2>2. CASE filled = consumed
    BY <2>1, <2>2 DEF ReadingGoesOn, AtEnd, BufferEmpty
  <2>3. CASE filled # consumed
    <3> DEFINE ends == {e \in consumed + 1 .. filled : input[e] = NL \/ e = filled}
    <3>1. ends \in SUBSET Nat /\ filled \in ends
      BY <2>1, <2>3
    <3>2. PICK e \in ends : \A m \in ends : e <= m
      BY <3>1, LeastNumber
    <3>3. IsChunkEnd(e)
      BY <2>1, <3>2 DEF IsChunkEnd
    <3>4. QED
      BY <3>2, <3>3 DEF ReadingGoesOn
  <2>4. QED
    BY <2>2, <2>3
<1>2. QED
  BY <1>1, InitIInv, NextIInv, PTL DEF ReaderSpec

(* ... and every step uses up some of a finite stock: read_record consumes *)
(* bytes, and between two of them it fills the buffer and returns a line   *)
(* at most once.                                                           *)
WorkLeft ==
    IF outcome # "reading" THEN 0
    ELSE 3 * (Len(input) - consumed) + (IF BufferEmpty THEN 2 ELSE 1)
             + (IF line = << >> THEN 0 ELSE 1)

StepCounts == WorkLeft \in Nat /\ WorkLeft' \in Nat /\ WorkLeft' < WorkLeft

(* No step is taken in vain, whatever sizes the reads have.                *)
THEOREM EveryStepCounts == ReaderSpec => [][StepCounts]_readerVars
<1>1. ASSUME IInv, ReaderNext PROVE StepCounts
  <2>1. /\ consumed \in Nat /\ Len(input) \in Nat /\ consumed <= filled
        /\ filled <= Len(input) /\ filled \in Nat
    BY <1>1, LenProperties DEF IInv, TypeOK
  <2>2. outcome = "reading"
    BY <1>1 DEF ReaderNext, FillBuf, TakeChunk, RejectChunk, ReturnPartial,
                ReturnZero, FillBufFails
  <2>3. WorkLeft \in Nat /\ WorkLeft > 0
    BY <2>1, <2>2 DEF WorkLeft
  <2>4. CASE FillBuf
    BY <2>1, <2>2, <2>4 DEF FillBuf, StepCounts, WorkLeft, BufferEmpty
  <2>5. CASE TakeChunk
    <3>1. PICK e \in consumed + 1 .. filled : consumed' = e
      BY <2>5 DEF TakeChunk
    <3>2. UNCHANGED <<input, outcome>>
      BY <2>5 DEF TakeChunk
    <3>3. e \in Nat /\ consumed + 1 <= e /\ e <= Len(input)
      BY <2>1
    <3>4. /\ WorkLeft' \in Nat
          /\ WorkLeft' <= 3 * (Len(input) - e) + 3
      BY <2>1, <2>2, <3>1, <3>2, <3>3 DEF WorkLeft
    <3>5. WorkLeft >= 3 * (Len(input) - consumed) + 1
      BY <2>1, <2>2 DEF WorkLeft
    <3>6. QED
      BY <2>1, <2>3, <3>3, <3>4, <3>5 DEF StepCounts
  <2>6. CASE ReturnPartial
    BY <2>1, <2>2, <2>6 DEF ReturnPartial, StepCounts, WorkLeft, BufferEmpty
  <2>7. CASE outcome' # "reading"
    BY <2>3, <2>7 DEF StepCounts, WorkLeft
  <2>8. QED
    BY <1>1, <2>4, <2>5, <2>6, <2>7
    DEF ReaderNext, RejectChunk, ReturnZero, FillBufFails
<1>2. QED
  BY <1>1, InitIInv, NextIInv, PTL DEF ReaderSpec

-----------------------------------------------------------------------------

(* ccze_severity_join, which Severity::detect and the loop use, has the    *)
(* laws that native/agda/Severity.agda proves of its join, and those of a  *)
(* least upper bound: so the order in which words are looked for does not  *)
(* matter, and no word lowers the severity of a line.                      *)
THEOREM JoinIsLattice ==
    \A a, b, c \in Severities :
        /\ SeverityJoin(a, b) \in Severities
        /\ SeverityJoin(a, a) = a
        /\ SeverityJoin(a, b) = SeverityJoin(b, a)
        /\ SeverityJoin(SeverityJoin(a, b), c) = SeverityJoin(a, SeverityJoin(b, c))
        /\ a <= SeverityJoin(a, b)
        /\ a <= c /\ b <= c => SeverityJoin(a, b) <= c
<1>1. \A a, b \in Severities :
          SeverityJoin(a, b) = IF a > b THEN a ELSE b
  <2>1. SUFFICES ASSUME NEW a \in Severities, NEW b \in Severities
                 PROVE  SeverityJoin(a, b) = IF a > b THEN a ELSE b
    OBVIOUS
  <2>2. a \in Int /\ b \in Int
    BY DEF Severities
  <2> DEFINE m == IF a > b THEN a ELSE b
  <2>3. /\ m \in {a, b} /\ \A x \in {a, b} : m >= x
        /\ \A n \in {a, b} : (\A x \in {a, b} : n >= x) => n = m
    BY <2>2
  <2> HIDE DEF m
  <2>4. Max({a, b}) = m
    BY <2>3 DEF Max
  <2>5. QED
    BY <2>4 DEF SeverityJoin, m
<1>2. \A a \in Severities : a \in Int
  BY DEF Severities
<1>3. \A a, b \in Severities : SeverityJoin(a, b) \in Severities
  BY <1>1
<1>4. QED
  BY <1>1, <1>2, <1>3

(* The transitions that native/idris/Protocol.idr gives as total.          *)
Transitions ==
    { <<0, "Start", 1>>, <<1, "Authenticate", 2>>, <<2, "Bind", 3>>,
      <<3, "Ready", 4>> } \cup { <<from, "Reset", 0>> : from \in Phases }

(* ccze_protocol_step, which ProtocolVerifier calls with codes, takes these*)
(* and no others: a reset is always accepted, and leads to Cold.           *)
THEOREM StepsAreTransitions ==
    \A from \in Phases, event \in Events :
        /\ Violates(from, event) <=>
               ~ \E to \in Phases : <<from, event, to>> \in Transitions
        /\ ~ Violates(from, event) =>
               <<from, event, InspectPhase(from, event)>> \in Transitions
<1>1. SUFFICES ASSUME NEW from \in Phases, NEW event \in Events
               PROVE  /\ Violates(from, event) <=>
                             ~ \E to \in Phases : <<from, event, to>> \in Transitions
                      /\ ~ Violates(from, event) =>
                             <<from, event, InspectPhase(from, event)>> \in Transitions
  OBVIOUS
<1>2. /\ event # NoEvent
      /\ EventCode[event] \in 0 .. 4
      /\ event = "Reset" <=> EventCode[event] = 4
      /\ event = "Start" <=> EventCode[event] = 0
      /\ event = "Authenticate" <=> EventCode[event] = 1
      /\ event = "Bind" <=> EventCode[event] = 2
      /\ event = "Ready" <=> EventCode[event] = 3
  BY DEF Events, EventCode, NoEvent
<1>3. from \in 0 .. 4 /\ Phases = 0 .. 4
  BY DEF Phases, Cold, Ready
<1>4. \A to \in Phases : <<from, event, to>> \in Transitions <=>
          \/ event = "Reset" /\ to = 0
          \/ event # "Reset" /\ EventCode[event] = from /\ to = from + 1
  <2>1. ASSUME NEW to \in Phases
        PROVE  <<from, event, to>> \in Transitions <=>
                   \/ from = 0 /\ event = "Start" /\ to = 1
                   \/ from = 1 /\ event = "Authenticate" /\ to = 2
                   \/ from = 2 /\ event = "Bind" /\ to = 3
                   \/ from = 3 /\ event = "Ready" /\ to = 4
                   \/ event = "Reset" /\ to = 0
    BY DEF Transitions
  <2>2. QED
    BY <1>2, <1>3, <2>1
<1>5. ProtocolStep(from, event) =
          IF event = "Reset" THEN 0
          ELSE IF EventCode[event] = from THEN from + 1 ELSE -1
  BY <1>2, <1>3 DEF ProtocolStep, Cold
<1>6. CASE event = "Reset"
  BY <1>2, <1>3, <1>4, <1>5, <1>6 DEF Violates, InspectPhase
<1>7. CASE event # "Reset" /\ EventCode[event] = from
  BY <1>2, <1>3, <1>4, <1>5, <1>7 DEF Violates, InspectPhase
<1>8. CASE event # "Reset" /\ EventCode[event] # from
  BY <1>2, <1>3, <1>4, <1>5, <1>8 DEF Violates, InspectPhase
<1>9. QED
  BY <1>6, <1>7, <1>8

-----------------------------------------------------------------------------

Notes == [line : Lines, anomaly : BOOLEAN, violation : BOOLEAN]

(* A line is about to be written only between its reading and the hand-over*)
(* to the blocking thread, which has one at most.                          *)
InPlace ==
    /\ pc \in Places
    /\ writeError \in WriteErrors
    /\ rendered \in Seq(Notes) /\ inflight \in Seq(Notes)
    /\ delivered \in Seq(Notes) /\ history \in Seq(Notes)
    /\ Len(inflight) <= 1
    /\ Len(rendered) = IF pc = "writing" THEN 1 ELSE 0

(* Nothing follows a write that failed.                                    *)
Copied ==
    IF writeError = "none"
    THEN delivered \o inflight \o rendered = history
    ELSE inflight = << >> /\ \E rest \in Seq(Notes) : delivered \o rest = history

(* The flush has waited for the blocking thread.                           *)
Flushed == pc = "exit0" /\ writeError = "none" => inflight = << >>

LoopInv == InPlace /\ Copied /\ Flushed

LEMMA EmptyNotes ==
    ASSUME NEW s \in Seq(Notes)
    PROVE  /\ Len(s) \in Nat
           /\ Len(s) = 0 <=> s = << >>
           /\ s \o << >> = s /\ << >> \o s = s
           /\ << >> \in Seq(Notes) /\ Len(<< >>) = 0
BY EmptySeq, ConcatEmptySeq, LenProperties

LEMMA Associative ==
    ASSUME NEW s \in Seq(Notes), NEW t \in Seq(Notes), NEW u \in Seq(Notes)
    PROVE  (s \o t) \o u = s \o (t \o u)
BY ConcatAssociative

LEMMA NoteType ==
    ASSUME NEW l \in Lines
    PROVE  Annotate(l) \in Notes
<1> DEFINE a == "analytics" \in options /\ Anomaly(WindowAfter(l), threshold)
           v == "verify" \in options /\ Violates(phase, DetectEvent(l.words))
<1>1. a \in BOOLEAN /\ v \in BOOLEAN
  OBVIOUS
<1>2. Annotate(l) = [line |-> l, anomaly |-> a, violation |-> v]
  BY DEF Annotate
<1> HIDE DEF a, v
<1>3. QED
  BY <1>1, <1>2 DEF Notes

LEMMA InitLoop == FilterInit => LoopInv
BY EmptyNotes DEF FilterInit, LoopInv, InPlace, Copied, Flushed, Places, WriteErrors

LEMMA NextLoop ==
    ASSUME LoopInv, [FilterNext]_filterVars
    PROVE  LoopInv'
<1> USE DEF Places, WriteErrors
<1>0. /\ InPlace /\ Copied /\ Flushed
      /\ rendered \in Seq(Notes) /\ inflight \in Seq(Notes)
      /\ delivered \in Seq(Notes) /\ history \in Seq(Notes)
      /\ << >> \in Seq(Notes)
  BY EmptyNotes DEF LoopInv, InPlace
<1>1. CASE ReadRecord
  <2>1. PICK l \in Lines :
            /\ rendered' = <<Annotate(l)>>
            /\ history' = Append(history, Annotate(l))
    BY <1>1 DEF ReadRecord
  <2> DEFINE x == Annotate(l)
  <2>2. x \in Notes
    BY NoteType
  <2>3. /\ pc = "reading" /\ pc' = "writing"
        /\ UNCHANGED <<inflight, writeError, delivered>>
    BY <1>1 DEF ReadRecord
  <2> HIDE DEF x
  <2>4. rendered' = <<x>> /\ history' = Append(history, x)
    BY <2>1 DEF x
  <2>5. /\ rendered' \in Seq(Notes) /\ Len(rendered') = 1
        /\ history' \in Seq(Notes)
        /\ history' = history \o <<x>>
    BY <1>0, <2>2, <2>4, AppendProperties, AppendIsConcat
  <2>6. InPlace'
    BY <1>0, <2>3, <2>5 DEF InPlace
  <2>7. CASE writeError = "none"
    <3>1. rendered = << >>
      BY <1>0, <2>3, EmptyNotes DEF InPlace
    <3>2. delivered \o inflight \in Seq(Notes)
      BY <1>0, ConcatProperties
    <3>3. delivered \o inflight = history
      BY <1>0, <2>7, <3>1, <3>2, EmptyNotes DEF Copied
    <3>4. QED
      BY <2>3, <2>4, <2>5, <2>6, <2>7, <3>3 DEF LoopInv, Copied, Flushed
  <2>8. CASE writeError # "none"
    <3>1. PICK rest \in Seq(Notes) : delivered \o rest = history
      BY <1>0, <2>8 DEF Copied
    <3> DEFINE one == <<x>>
    <3>2. one \in Seq(Notes)
      BY <2>2
    <3>3. history' = history \o one
      BY <2>5
    <3> HIDE DEF one
    <3>4. (delivered \o rest) \o one = delivered \o (rest \o one)
      <4>1. delivered \in Seq(Notes) /\ rest \in Seq(Notes) /\ one \in Seq(Notes)
        BY <1>0, <3>1, <3>2
      <4>2. QED
        BY <4>1, Associative
    <3>5. rest \o one \in Seq(Notes)
      BY <3>1, <3>2, ConcatProperties
    <3>6. delivered \o (rest \o one) = history'
      BY <3>1, <3>3, <3>4
    <3>7. QED
      BY <1>0, <2>3, <2>6, <2>8, <3>5, <3>6 DEF LoopInv, Copied, Flushed
  <2>9. QED
    BY <2>7, <2>8
<1>2. CASE WriteAll
  <2>1. /\ pc = "writing" /\ inflight = << >> /\ rendered' = << >>
        /\ UNCHANGED <<writeError, delivered, history>>
    BY <1>2 DEF WriteAll
  <2>2. CASE writeError = "none"
    <3>1. inflight' = rendered /\ pc' = "reading"
      BY <1>2, <2>2 DEF WriteAll
    <3>2. delivered \o inflight = delivered
      BY <1>0, <2>1, EmptyNotes
    <3>3. delivered \o rendered = history
      BY <1>0, <2>2, <3>2 DEF Copied
    <3>4. delivered \o rendered \o << >> = delivered \o rendered
      BY <1>0, ConcatProperties, EmptyNotes
    <3>5. Copied'
      BY <2>1, <2>2, <3>1, <3>3, <3>4 DEF Copied
    <3>6. /\ Len(inflight') = 1 /\ inflight' \in Seq(Notes)
          /\ Len(rendered') = 0 /\ rendered' \in Seq(Notes)
      BY <1>0, <2>1, <3>1, EmptyNotes DEF InPlace
    <3>7. InPlace'
      <4>1. /\ pc' = "reading" /\ writeError' = writeError
            /\ delivered' = delivered /\ history' = history
        BY <2>1, <3>1
      <4>2. Len(inflight') <= 1
        BY <3>6
      <4>3. QED
        BY <1>0, <3>6, <4>1, <4>2 DEF InPlace
    <3>8. QED
      BY <3>1, <3>5, <3>7 DEF LoopInv, Flushed
  <2>3. CASE writeError # "none"
    <3>1. pc' \in {"exit0", "exit1"} /\ UNCHANGED inflight
      BY <1>2, <2>3 DEF WriteAll, ExitFor
    <3>2. Len(rendered') = 0 /\ rendered' \in Seq(Notes)
      BY <1>0, <2>1, EmptyNotes
    <3>3. InPlace'
      BY <1>0, <2>1, <3>1, <3>2 DEF InPlace
    <3>4. QED
      BY <1>0, <2>1, <2>3, <3>1, <3>3 DEF LoopInv, Copied, Flushed
  <2>4. QED
    BY <2>2, <2>3
<1>3. CASE WriteDone
  <2>1. /\ inflight # << >> /\ delivered' = delivered \o inflight
        /\ inflight' = << >>
        /\ UNCHANGED <<pc, rendered, writeError, history>>
    BY <1>3 DEF WriteDone
  <2>2. writeError = "none"
    BY <1>0, <2>1 DEF Copied
  <2>3. delivered' \in Seq(Notes) /\ Len(<< >>) = 0
    BY <1>0, <2>1, ConcatProperties, EmptyNotes
  <2>4. delivered' \o inflight' = delivered'
    BY <2>1, <2>3, EmptyNotes
  <2>5. Copied'
    BY <1>0, <2>1, <2>2, <2>4 DEF Copied
  <2>6. QED
    BY <1>0, <2>1, <2>3, <2>5 DEF LoopInv, InPlace, Flushed
<1>4. CASE WriteFails
  <2>1. /\ inflight # << >> /\ inflight' = << >>
        /\ writeError' \in WriteErrors \ {"none"}
        /\ UNCHANGED <<pc, rendered, delivered, history>>
    BY <1>4 DEF WriteFails
  <2>2. writeError = "none"
    BY <1>0, <2>1 DEF Copied
  <2>3. delivered \o (inflight \o rendered) = history
    <3>1. (delivered \o inflight) \o rendered = delivered \o (inflight \o rendered)
      BY <1>0, ConcatAssociative
    <3>2. QED
      BY <1>0, <2>2, <3>1 DEF Copied
  <2>4. inflight \o rendered \in Seq(Notes) /\ Len(<< >>) = 0
    BY <1>0, ConcatProperties, EmptyNotes
  <2>5. Copied'
    BY <2>1, <2>3, <2>4 DEF Copied
  <2>6. QED
    BY <1>0, <2>1, <2>4, <2>5 DEF LoopInv, InPlace, Flushed
<1>5. CASE EndOfInput \/ InputError
  BY <1>0, <1>5
     DEF EndOfInput, InputError, LoopInv, InPlace, Copied, Flushed
<1>6. CASE Flush
  BY <1>0, <1>6
     DEF Flush, ExitFor, LoopInv, InPlace, Copied, Flushed
<1>7. CASE UNCHANGED filterVars
  BY <1>0, <1>7 DEF filterVars, LoopInv, InPlace, Copied, Flushed
<1>8. QED
  BY <1>1, <1>2, <1>3, <1>4, <1>5, <1>6, <1>7 DEF FilterNext

(* Standard output shows the records in order, without gap or repeat,      *)
(* whatever writes fail.                                                   *)
THEOREM OutputIsInOrder == FilterSpec => []OutputInOrder
<1>1. LoopInv => OutputInOrder
  <2> SUFFICES ASSUME LoopInv PROVE OutputInOrder
    OBVIOUS
  <2>1. CASE writeError = "none"
    BY <2>1 DEF LoopInv, Copied, OutputInOrder
  <2>2. CASE writeError # "none"
    <3>1. PICK rest \in Seq(Notes) : delivered \o rest = history
      BY <2>2 DEF LoopInv, Copied
    <3>2. delivered \in Seq(Notes)
      BY DEF LoopInv, InPlace
    <3>3. Len(delivered) \in Nat /\ Len(rest) \in Nat
          /\ Len(history) = Len(delivered) + Len(rest)
      BY <3>1, <3>2, ConcatProperties, LenProperties
    <3>4. Len(delivered) \in 1 - 1 .. Len(delivered)
          /\ 1 \in 1 .. Len(delivered) + 1
      BY <3>3
    <3>5. SubSeq(delivered \o rest, 1, Len(delivered))
            = SubSeq(delivered, 1, Len(delivered))
      BY <3>2, <3>4, SubSeqOfConcat1
    <3>6. IsPrefix(delivered, history)
      BY <3>1, <3>3, <3>5 DEF IsPrefix
    <3>7. QED
      BY <2>2, <3>6 DEF OutputInOrder
  <2>3. QED
    BY <2>1, <2>2
<1>2. QED
  BY <1>1, InitLoop, NextLoop, PTL DEF FilterSpec

(* A clean exit has every record written, and an input error costs at most *)
(* the one that was in flight.                                             *)
THEOREM ExitIsComplete == FilterSpec => []ExitKeepsOutput
<1>1. LoopInv => ExitKeepsOutput
  <2> SUFFICES ASSUME LoopInv, writeError = "none",
                      pc \in {"exit0", "exit1"}
               PROVE  /\ pc = "exit0" => delivered = history
                      /\ Len(history) - Len(delivered) <= 1
    BY DEF ExitKeepsOutput
  <2>1. /\ delivered \in Seq(Notes) /\ inflight \in Seq(Notes)
        /\ Len(inflight) <= 1 /\ rendered = << >>
    BY EmptyNotes DEF LoopInv, InPlace
  <2>2. delivered \o inflight \in Seq(Notes)
    BY <2>1, ConcatProperties
  <2>3. delivered \o inflight = history
    BY <2>1, <2>2, EmptyNotes DEF LoopInv, Copied
  <2>4. pc = "exit0" => delivered = history
    BY <2>1, <2>3, EmptyNotes DEF LoopInv, Flushed
  <2>5. Len(history) = Len(delivered) + Len(inflight)
        /\ Len(delivered) \in Nat /\ Len(inflight) \in Nat
    BY <2>1, <2>3, ConcatProperties, LenProperties
  <2>6. QED
    BY <2>1, <2>4, <2>5
<1>2. QED
  BY <1>1, InitLoop, NextLoop, PTL DEF FilterSpec

-----------------------------------------------------------------------------

LEMMA MinOfTwo ==
    ASSUME NEW a \in Nat, NEW b \in Nat
    PROVE  Min({a, b}) = IF a <= b THEN a ELSE b
<1> DEFINE m == IF a <= b THEN a ELSE b
<1>1. m \in {a, b} /\ \A y \in {a, b} : m <= y
  OBVIOUS
<1>2. \A x \in {a, b} : (\A y \in {a, b} : x <= y) => x = m
  OBVIOUS
<1> HIDE DEF m
<1>3. (CHOOSE x \in {a, b} : \A y \in {a, b} : x <= y) = m
  BY <1>1, <1>2
<1>4. QED
  BY <1>3 DEF Min, m

Samples == {Sample(l) : l \in Lines}

(* A sample pushed on a full window takes the place of the oldest.         *)
LEMMA Pushed ==
    ASSUME NEW w \in Seq(Samples), NEW c \in Nat \ {0}, Len(w) <= c,
           NEW e \in Samples
    PROVE  LET new == PushSample(w, e, c)
               drop == IF Len(w) = c THEN 1 ELSE 0
               n == Len(w) + 1 - drop
           IN  /\ new \in [1 .. n -> Samples]
               /\ \A i \in 1 .. n - 1 : new[i] = w[i + drop]
               /\ new[n] = e
<1> DEFINE drop == IF Len(w) = c THEN 1 ELSE 0
           kept == IF Len(w) = c THEN Tail(w) ELSE w
           new == Append(kept, e)
<1>1. Len(w) \in Nat
  BY LenProperties
<1>2. /\ kept \in Seq(Samples)
      /\ Len(kept) = Len(w) - drop
      /\ \A i \in 1 .. Len(kept) : kept[i] = w[i + drop]
  <2>1. CASE Len(w) = c
    <3>1. w # << >>
      BY <2>1, EmptySeq
    <3>2. /\ Tail(w) \in Seq(Samples) /\ Len(Tail(w)) = Len(w) - 1
          /\ \A i \in 1 .. Len(Tail(w)) : Tail(w)[i] = w[i + 1]
      BY <3>1, HeadTailProperties
    <3>3. QED
      BY <2>1, <3>2
  <2>2. CASE Len(w) # c
    BY <1>1, <2>2
  <2>3. QED
    BY <2>1, <2>2
<1>3. drop \in 0 .. 1 /\ drop <= Len(w)
  BY <1>1
<1> HIDE DEF drop, kept
<1>4. /\ new \in Seq(Samples)
      /\ Len(new) = Len(kept) + 1
      /\ \A i \in 1 .. Len(kept) : new[i] = kept[i]
      /\ new[Len(kept) + 1] = e
  BY <1>2, AppendProperties
<1> HIDE DEF new
<1> DEFINE n == Len(w) + 1 - drop
<1>5. n = Len(kept) + 1 /\ n - 1 = Len(kept)
  BY <1>1, <1>2, <1>3
<1>6. new \in [1 .. n -> Samples]
  <2>1. DOMAIN new = 1 .. n
    BY <1>4, <1>5, LenProperties
  <2>2. QED
    BY <1>4, <2>1, LenProperties
<1>7. \A i \in 1 .. n - 1 : new[i] = w[i + drop]
  BY <1>2, <1>4, <1>5
<1>8. new[n] = e
  BY <1>4, <1>5
<1>9. PushSample(w, e, c) = new
  BY DEF PushSample, new, kept
<1>10. QED
  BY <1>6, <1>7, <1>8, <1>9 DEF drop

(* The window is a stretch of the history that ends with it.               *)
Capacity == WindowCapacity(Window)
Recent(h) == IF Len(h) <= Capacity THEN Len(h) ELSE Capacity

LEMMA CapacityType == Capacity \in Nat \ {0}
BY FilterAssumption DEF Capacity, WindowCapacity

LEMMA RecentIsMin ==
    ASSUME NEW h \in Seq(Notes)
    PROVE  Min({Len(h), WindowCapacity(Window)}) = Recent(h)
<1>1. Len(h) \in Nat /\ Capacity \in Nat
  BY CapacityType, LenProperties
<1>2. QED
  BY <1>1, MinOfTwo DEF Recent, Capacity

LEMMA NextWindow ==
    ASSUME LoopInv, WindowIsRecent, [FilterNext]_filterVars
    PROVE  WindowIsRecent'
<1>1. CASE UNCHANGED <<options, threshold, window, history>>
  BY <1>1 DEF WindowIsRecent
<1>2. CASE ReadRecord /\ "analytics" \in options
  <2> DEFINE L == Len(history)
             n == Recent(history)
             n2 == Recent(history')
             drop == IF n = Capacity THEN 1 ELSE 0
  <2>1. PICK l \in Lines :
            /\ history' = Append(history, Annotate(l))
            /\ window' = WindowAfter(l)
            /\ options' = options
    BY <1>2 DEF ReadRecord
  <2> DEFINE x == Annotate(l)
             e == Sample(l)
  <2>2. x \in Notes /\ e \in Samples /\ x.line = l
    BY NoteType DEF Samples, Annotate
  <2>3. /\ history \in Seq(Notes) /\ L \in Nat
        /\ Capacity \in Nat \ {0}
    BY CapacityType, LenProperties DEF LoopInv, InPlace
  <2>4. window = [i \in 1 .. n |-> Sample(history[L - n + i].line)]
    BY <1>2, <2>3, RecentIsMin DEF WindowIsRecent
  <2>5. /\ history' \in Seq(Notes) /\ Len(history') = L + 1
        /\ \A i \in 1 .. L : history'[i] = history[i]
        /\ history'[L + 1] = x
    <3> HIDE DEF x
    <3>1. QED
      BY <2>1, <2>2, <2>3, AppendProperties DEF x
  <2>6. n \in Nat /\ n <= Capacity /\ n <= L
    BY <2>3 DEF Recent
  <2>7. n2 = n + 1 - drop /\ L + 1 - n2 = L - n + drop
    <3>1. n2 = IF L + 1 <= Capacity THEN L + 1 ELSE Capacity
      BY <2>5 DEF Recent
    <3>2. n = IF L <= Capacity THEN L ELSE Capacity
      BY DEF Recent
    <3> HIDE DEF L, n, n2
    <3>3. QED
      BY <2>3, <3>1, <3>2
  <2> HIDE DEF L, n, n2, x, e
  <2>8. window \in Seq(Samples) /\ Len(window) = n
    <3>1. \A i \in 1 .. n : history[L - n + i] \in Notes
      <4>1. \A i \in 1 .. n : L - n + i \in 1 .. L
        BY <2>3, <2>6
      <4>2. QED
        BY <2>3, <4>1, ElementOfSeq DEF L
    <3>2. \A i \in 1 .. n : Sample(history[L - n + i].line) \in Samples
      BY <3>1 DEF Notes, Samples
    <3>3. window \in [1 .. n -> Samples]
      BY <2>4, <3>2
    <3>4. window \in Seq(Samples)
      BY <2>6, <3>3, SeqDef
    <3>5. QED
      BY <2>6, <3>3, <3>4, LenProperties
  <2>9. window' = PushSample(window, e, Capacity)
    BY <1>2, <2>1 DEF WindowAfter, Capacity, e
  <2>10. /\ window' \in [1 .. n2 -> Samples]
         /\ \A i \in 1 .. n2 - 1 : window'[i] = window[i + drop]
         /\ window'[n2] = e
    <3> DEFINE d == IF Len(window) = Capacity THEN 1 ELSE 0
               m == Len(window) + 1 - d
               new == PushSample(window, e, Capacity)
    <3>1. /\ window' \in [1 .. m -> Samples]
          /\ \A i \in 1 .. m - 1 : window'[i] = window[i + d]
          /\ window'[m] = e
      <4>1. Len(window) <= Capacity
        BY <2>6, <2>8
      <4>2. /\ new \in [1 .. m -> Samples]
            /\ \A i \in 1 .. m - 1 : new[i] = window[i + d]
            /\ new[m] = e
        <5>1. /\ window \in Seq(Samples) /\ Capacity \in Nat \ {0}
              /\ Len(window) <= Capacity /\ e \in Samples
          BY <2>2, <2>3, <2>8, <4>1
        <5>2. QED
          BY <5>1, Pushed
      <4> HIDE DEF new, d, m
      <4>3. window' = new
        BY <2>9 DEF new
      <4>4. QED
        BY <4>2, <4>3
    <3>2. d = drop /\ m = n2
      BY <2>7, <2>8
    <3> HIDE DEF d, m, drop
    <3>3. QED
      BY <3>1, <3>2
  <2>11. drop \in 0 .. 1 /\ n2 \in Nat /\ n2 - 1 = n - drop /\ n2 \in 1 .. L + 1
    BY <2>3, <2>6, <2>7
  <2> HIDE DEF drop
  <2>12. ASSUME NEW i \in 1 .. n2
         PROVE  window'[i] = Sample(history'[L + 1 - n2 + i].line)
    <3>1. CASE i = n2
      <4>1. L + 1 - n2 + i = L + 1
        BY <2>3, <2>11, <3>1
      <4>2. QED
        BY <2>2, <2>5, <2>10, <3>1, <4>1 DEF e
    <3>2. CASE i # n2
      <4>1. i \in 1 .. n2 - 1 /\ i + drop \in 1 .. n
        BY <2>6, <2>11, <3>2
      <4>2. /\ L + 1 - n2 + i = L - n + (i + drop)
            /\ L - n + (i + drop) \in 1 .. L
        BY <2>3, <2>6, <2>7, <2>11, <4>1
      <4>3. window[i + drop] = Sample(history[L - n + (i + drop)].line)
        BY <2>4, <4>1
      <4>4. QED
        BY <2>5, <2>10, <4>1, <4>2, <4>3
    <3>3. QED
      BY <3>1, <3>2
  <2>13. Last(history').anomaly
           = Anomaly(window', threshold')
    <3>1. Last(history') = x
      BY <2>5 DEF Last
    <3>2. x.anomaly <=> Anomaly(window', threshold')
      BY <1>2, <2>1 DEF x, Annotate, ReadRecord
    <3>3. x.anomaly \in BOOLEAN
      BY <2>2 DEF Notes
    <3>4. Anomaly(window', threshold') \in BOOLEAN
      BY DEF Anomaly
    <3>5. QED
      BY <3>1, <3>2, <3>3, <3>4
  <2> DEFINE m == Min({Len(history'), WindowCapacity(Window)})
  <2>14. m = n2
    BY <2>5, RecentIsMin DEF n2
  <2> HIDE DEF m
  <2>15. window' = [i \in 1 .. m |->
                       Sample(history'[Len(history') - m + i].line)]
    <3>1. \A i \in 1 .. m : Len(history') - m + i = L + 1 - n2 + i
      <4>1. Len(history') = L + 1
        BY <2>5
      <4>2. QED
        BY <2>3, <2>11, <2>14, <4>1
    <3>2. \A i \in 1 .. m : window'[i] = Sample(history'[Len(history') - m + i].line)
      BY <2>12, <2>14, <3>1
    <3>3. window' \in [1 .. m -> Samples]
      BY <2>10, <2>14
    <3>4. QED
      BY <3>2, <3>3
  <2>16. QED
    BY <2>13, <2>15, Zenon DEF m, WindowIsRecent
<1>3. CASE "analytics" \notin options /\ options' = options
  BY <1>3 DEF WindowIsRecent
<1>4. QED
  BY <1>1, <1>2, <1>3
     DEF FilterNext, filterVars, ReadRecord, WriteAll,
         WriteDone, WriteFails, EndOfInput,
         InputError, Flush

LEMMA InitWindow ==
    ASSUME FilterInit
    PROVE  WindowIsRecent
<1>1. /\ history \in Seq(Notes) /\ Len(history) = 0 /\ window = << >>
      /\ Capacity \in Nat \ {0}
  BY EmptySeq, CapacityType DEF FilterInit
<1> DEFINE m == Min({Len(history), WindowCapacity(Window)})
<1>2. m = 0
  <2>1. m = Recent(history)
    BY <1>1, RecentIsMin
  <2>2. Recent(history) = 0
    BY <1>1 DEF Recent
  <2>3. QED
    BY <2>1, <2>2
<1> HIDE DEF m
<1>3. /\ window = [i \in 1 .. m |-> Sample(history[Len(history) - m + i].line)]
      /\ ~(m > 0)
  BY <1>1, <1>2
<1>4. QED
  BY <1>3, Zenon DEF m, WindowIsRecent

(* The window is the last records, as many as it holds, and the note on a  *)
(* record is the analysis of those.                                        *)
THEOREM WindowTellsRecent == FilterSpec => []WindowIsRecent
BY InitLoop, NextLoop, InitWindow, NextWindow, PTL DEF FilterSpec

-----------------------------------------------------------------------------

(* What an accumulator holds after each of n turns.                        *)
Adds(sum, numbers, n) ==
    /\ sum \in [0 .. n -> Int]
    /\ sum[0] = 0
    /\ \A i \in 1 .. n : sum[i] = sum[i - 1] + numbers[i]

(* Some accumulator does that, for any number of turns.                    *)
LEMMA SumsExist ==
    ASSUME NEW numbers \in Seq(Int)
    PROVE  \E sum : Adds(sum, numbers, Len(numbers))
<1> DEFINE N == Len(numbers)
           S == {n \in Nat : n <= N => \E sum : Adds(sum, numbers, n)}
<1>1. N \in Nat /\ \A i \in 1 .. N : numbers[i] \in Int
  BY LenProperties, ElementOfSeq
<1>2. 0 \in S
  <2>1. Adds([i \in 0 .. 0 |-> 0], numbers, 0)
    BY DEF Adds
  <2>2. QED
    BY <2>1
<1>3. ASSUME NEW n \in Nat, n \in S PROVE n + 1 \in S
  <2>1. SUFFICES ASSUME n + 1 <= N PROVE \E sum : Adds(sum, numbers, n + 1)
    OBVIOUS
  <2>2. PICK f : Adds(f, numbers, n)
    BY <1>1, <1>3, <2>1
  <2> HIDE DEF N, S
  <2> DEFINE g == [i \in 0 .. n + 1 |->
                      IF i = n + 1 THEN f[n] + numbers[n + 1] ELSE f[i]]
  <2>3. f[n] \in Int /\ numbers[n + 1] \in Int
    BY <1>1, <2>1, <2>2 DEF Adds
  <2>4. g \in [0 .. n + 1 -> Int]
    BY <2>2, <2>3 DEF Adds
  <2>5. ASSUME NEW i \in 1 .. n + 1 PROVE g[i] = g[i - 1] + numbers[i]
    <3>1. CASE i = n + 1
      BY <3>1
    <3>2. CASE i # n + 1
      <4>1. i \in 1 .. n /\ i - 1 \in 0 .. n /\ i - 1 # n + 1
        BY <3>2
      <4>2. g[i] = f[i] /\ g[i - 1] = f[i - 1]
        BY <4>1
      <4>3. QED
        BY <2>2, <4>1, <4>2 DEF Adds
    <3>3. QED
      BY <3>1, <3>2
  <2>6. g[0] = 0
    BY <2>2 DEF Adds
  <2>7. QED
    BY <2>4, <2>5, <2>6 DEF Adds
<1> HIDE DEF S
<1>4. N \in S
  BY <1>1, <1>2, <1>3, Induction
<1>5. QED
  BY <1>1, <1>4 DEF S

(* RunningSums is one, and what it starts from and adds are numbers.       *)
LEMMA RunningSumsAdd ==
    ASSUME NEW numbers \in Seq(Int)
    PROVE  Adds(RunningSums(numbers), numbers, Len(numbers))
<1> DEFINE N == Len(numbers)
           Turns(sum) == [i \in 0 .. N |->
                             IF i = 0 THEN 0 ELSE sum[i - 1] + numbers[i]]
           R == RunningSums(numbers)
<1>1. N \in Nat /\ \A i \in 1 .. N : numbers[i] \in Int
  BY LenProperties, ElementOfSeq
<1>2. PICK f : Adds(f, numbers, N)
  BY SumsExist
<1>3. f = Turns(f)
  <2>1. \A i \in 0 .. N : f[i] = IF i = 0 THEN 0 ELSE f[i - 1] + numbers[i]
    BY <1>1, <1>2 DEF Adds
  <2>2. QED
    BY <1>2, <2>1 DEF Adds
<1>4. R = CHOOSE sum : sum = Turns(sum)
  BY DEF RunningSums
<1>5. R = Turns(R)
  BY <1>3, <1>4
<1> HIDE DEF R
<1>6. R[0] = 0 /\ \A i \in 1 .. N : R[i] = R[i - 1] + numbers[i]
  BY <1>1, <1>5
<1>7. R = [i \in 0 .. N |-> R[i]]
  BY <1>5
<1> HIDE DEF Turns, N
<1> DEFINE S == {n \in Nat : n <= N => R[n] \in Int}
<1>8. 0 \in S
  BY <1>6
<1>9. ASSUME NEW n \in Nat, n \in S PROVE n + 1 \in S
  <2>1. SUFFICES ASSUME n + 1 <= N PROVE R[n + 1] \in Int
    OBVIOUS
  <2>2. R[n] \in Int
    BY <1>1, <1>9, <2>1
  <2>3. n + 1 \in 1 .. N
    BY <1>1, <2>1
  <2>4. R[n + 1] = R[(n + 1) - 1] + numbers[n + 1] /\ (n + 1) - 1 = n
    BY <1>6, <2>3
  <2>5. QED
    BY <1>1, <2>2, <2>3, <2>4
<1> HIDE DEF S
<1>10. Nat \subseteq S
  BY <1>8, <1>9, Induction
<1>11. \A n \in 0 .. N : R[n] \in Int
  BY <1>1, <1>10 DEF S
<1>12. QED
  BY <1>6, <1>7, <1>11 DEF Adds, R, N

-----------------------------------------------------------------------------

(* What one more number x does to m numbers of sum s and sum of squares q: *)
(* m times the new spread is a multiple of the old one and a square.       *)
LEMMA SpreadIdentity ==
    ASSUME NEW m \in Int, NEW s \in Int, NEW q \in Int, NEW x \in Int
    PROVE  m * ((m + 1) * (q + x * x) - (s + x) * (s + x))
             = (m + 1) * (m * q - s * s) + (m * x - s) * (m * x - s)
OBVIOUS

LEMMA SquareNatural ==
    ASSUME NEW a \in Int
    PROVE  a * a \in Nat
<1>1. CASE a >= 0
  BY <1>1
<1>2. CASE a < 0
  <2>1. -a \in Nat /\ (-a) * (-a) = a * a
    BY <1>2
  <2>2. QED
    BY <2>1
<1>3. QED
  BY <1>1, <1>2

LEMMA ProductNatural ==
    ASSUME NEW a \in Nat, NEW b \in Nat
    PROVE  a * b \in Nat
OBVIOUS

(* A factor that is positive can be divided out.                           *)
LEMMA Cancel ==
    ASSUME NEW a \in Int, NEW b \in Int, NEW c \in Nat \ {0}, a * c >= b * c
    PROVE  a >= b
OBVIOUS

LEMMA FactorIsNatural ==
    ASSUME NEW m \in Nat \ {0}, NEW d \in Int, m * d \in Nat
    PROVE  d \in Nat
<1>1. d * m = m * d /\ 0 * m = 0
  OBVIOUS
<1>2. d * m >= 0 * m
  BY <1>1
<1>3. d >= 0
  BY <1>2, Cancel
<1>4. QED
  BY <1>3

(* No variance is negative.                                                *)
LEMMA SpreadsNatural ==
    ASSUME NEW x \in Seq(Int), NEW s, NEW q,
           Adds(s, x, Len(x)),
           Adds(q, [i \in DOMAIN x |-> x[i] * x[i]], Len(x))
    PROVE  \A n \in 0 .. Len(x) : n * q[n] - s[n] * s[n] \in Nat
<1> DEFINE N == Len(x)
           S == {n \in Nat : n <= N => n * q[n] - s[n] * s[n] \in Nat}
<1>1. /\ N \in Nat /\ \A i \in 1 .. N : x[i] \in Int
      /\ DOMAIN x = 1 .. N
  BY LenProperties, ElementOfSeq
<1>2. /\ s[0] = 0 /\ q[0] = 0
      /\ \A n \in 0 .. N : s[n] \in Int /\ q[n] \in Int
      /\ \A n \in 1 .. N : /\ s[n] = s[n - 1] + x[n]
                           /\ q[n] = q[n - 1] + x[n] * x[n]
  BY <1>1 DEF Adds
<1> HIDE DEF N
<1>3. 0 \in S
  <2>1. 0 * q[0] - s[0] * s[0] = 0
    BY <1>2
  <2>2. QED
    BY <2>1
<1>4. ASSUME NEW m \in Nat, m \in S PROVE m + 1 \in S
  <2>1. SUFFICES ASSUME m + 1 <= N
                 PROVE  (m + 1) * q[m + 1] - s[m + 1] * s[m + 1] \in Nat
    OBVIOUS
  <2>2. /\ m + 1 \in 1 .. N /\ m \in 0 .. N /\ (m + 1) - 1 = m
        /\ m * q[m] - s[m] * s[m] \in Nat
    BY <1>1, <1>4, <2>1
  <2>3. PICK a \in Int, b \in Int, e \in Int : a = s[m] /\ b = q[m] /\ e = x[m + 1]
    BY <1>1, <1>2, <2>2
  <2>4. s[m + 1] = a + e /\ q[m + 1] = b + e * e
    BY <1>2, <2>2, <2>3
  <2>5. m * b - a * a \in Nat
    BY <2>2, <2>3
  <2> DEFINE d == (m + 1) * (b + e * e) - (a + e) * (a + e)
  <2>6. d \in Int
    OBVIOUS
  <2>7. CASE m = 0
    <3>1. a = 0 /\ b = 0
      BY <1>2, <2>3, <2>7
    <3>2. d = 0
      BY <2>7, <3>1
    <3>3. QED
      BY <2>4, <3>2
  <2>8. CASE m # 0
    <3>1. m * d = (m + 1) * (m * b - a * a) + (m * e - a) * (m * e - a)
      BY SpreadIdentity
    <3>2. (m * e - a) * (m * e - a) \in Nat
      BY SquareNatural
    <3>3. (m + 1) * (m * b - a * a) \in Nat
      BY <2>5, ProductNatural
    <3>4. m * d \in Nat
      BY <3>1, <3>2, <3>3
    <3>5. d \in Nat
      BY <2>6, <2>8, <3>4, FactorIsNatural
    <3>6. QED
      BY <2>4, <3>5
  <2>9. QED
    BY <2>7, <2>8
<1> HIDE DEF S
<1>5. Nat \subseteq S
  BY <1>3, <1>4, Induction
<1>6. QED
  BY <1>1, <1>5 DEF S, N

(* The last number of n is at most sqrt(n - 1) standard deviations from    *)
(* the mean.                                                               *)
LEMMA LastIsNear ==
    ASSUME NEW w \in Seq(Samples), w # << >>
    PROVE  /\ Deviation(w) \in Int /\ Spread(w) \in Int
           /\ Deviation(w) * Deviation(w) <= (Len(w) - 1) * Spread(w)
<1> DEFINE N == Len(w)
           x == Lengths(w)
           squares == [i \in DOMAIN w |-> x[i] * x[i]]
           s == RunningSums(x)
           q == RunningSums(squares)
<1>1. N \in Nat \ {0} /\ DOMAIN w = 1 .. N /\ \A i \in 1 .. N : w[i] \in Samples
  BY EmptySeq, LenProperties, ElementOfSeq
<1>2. \A i \in 1 .. N : w[i].len \in Int
  BY <1>1, FilterAssumption DEF Samples, Sample
<1>3. x \in Seq(Int) /\ Len(x) = N /\ DOMAIN x = 1 .. N
  <2>1. x \in [1 .. N -> Int]
    BY <1>1, <1>2 DEF Lengths
  <2>2. x \in Seq(Int)
    BY <1>1, <2>1, SeqDef
  <2> HIDE DEF x
  <2>3. QED
    BY <1>1, <2>1, <2>2, LenProperties
<1>4. squares \in Seq(Int) /\ Len(squares) = N
  <2>1. \A i \in 1 .. N : x[i] \in Int
    BY <1>3, ElementOfSeq
  <2> HIDE DEF x
  <2>2. squares \in [1 .. N -> Int]
    BY <1>1, <2>1
  <2>3. squares \in Seq(Int)
    BY <1>1, <2>2, SeqDef
  <2> HIDE DEF squares
  <2>4. QED
    BY <1>1, <2>2, <2>3, LenProperties
<1>5. squares = [i \in DOMAIN x |-> x[i] * x[i]]
  BY <1>1, <1>3
<1>6. Last(w).len = x[N] /\ x[N] \in Int
  BY <1>1, <1>2 DEF Last, Lengths
<1> HIDE DEF x, squares
<1>7. Adds(s, x, N) /\ Adds(q, squares, N)
  BY <1>3, <1>4, RunningSumsAdd
<1>8. Spread(w) = N * q[N] - s[N] * s[N] /\ Deviation(w) = N * x[N] - s[N]
  BY <1>3, <1>4, <1>6 DEF Spread, Deviation, SumOf, x, squares
<1> HIDE DEF s, q
<1>9. \A n \in 0 .. N : n * q[n] - s[n] * s[n] \in Nat
  BY <1>3, <1>5, <1>7, SpreadsNatural
<1> DEFINE m == N - 1
<1>10. m \in Nat /\ N = m + 1 /\ m \in 0 .. N /\ N \in 1 .. N
  BY <1>1
<1>11. PICK a \in Int, b \in Int, e \in Int : a = s[m] /\ b = q[m] /\ e = x[N]
  BY <1>6, <1>7, <1>10 DEF Adds
<1>12. s[N] = a + e /\ q[N] = b + e * e
  <2>1. squares[N] = x[N] * x[N]
    BY <1>3, <1>5, <1>10
  <2>2. s[N] = s[N - 1] + x[N] /\ q[N] = q[N - 1] + squares[N]
    BY <1>7, <1>10 DEF Adds
  <2>3. QED
    BY <1>11, <2>1, <2>2
<1>13. m * b - a * a \in Nat
  BY <1>9, <1>10, <1>11
<1> HIDE DEF N, m
<1>14. Spread(w) = (m + 1) * (b + e * e) - (a + e) * (a + e)
  BY <1>8, <1>10, <1>12
<1>15. Deviation(w) = m * e - a
  <2>1. Deviation(w) = (m + 1) * e - (a + e)
    BY <1>8, <1>10, <1>11, <1>12
  <2>2. QED
    BY <1>10, <2>1
<1>16. m * Spread(w)
           = (m + 1) * (m * b - a * a) + Deviation(w) * Deviation(w)
  BY <1>10, <1>14, <1>15, SpreadIdentity
<1>17. (m + 1) * (m * b - a * a) \in Nat
  BY <1>10, <1>13, ProductNatural
<1>18. Deviation(w) \in Int /\ Spread(w) \in Int
  BY <1>10, <1>14, <1>15
<1>19. Deviation(w) * Deviation(w) <= m * Spread(w)
  <2>1. Deviation(w) * Deviation(w) \in Int /\ m * Spread(w) \in Int
    BY <1>10, <1>18
  <2>2. QED
    BY <1>16, <1>17, <2>1
<1>20. QED
  BY <1>18, <1>19 DEF N, m

(* What the test of the z-score comes to when the last is so near.         *)
LEMMA NearNeedsSamples ==
    ASSUME NEW d2 \in Nat, NEW spread \in Nat \ {0}, NEW m \in Nat,
           NEW num \in Int, NEW den \in Nat,
           d2 <= m * spread, d2 * den * den >= num * num * spread
    PROVE  m * den * den >= num * num
<1> DEFINE f == den * den
<1>1. f \in Nat /\ num * num \in Nat /\ m * f \in Nat
  BY ProductNatural, SquareNatural
<1>2. d2 * den * den = d2 * f /\ m * den * den = m * f
  OBVIOUS
<1>3. (m * f) * spread = (m * spread) * f
  OBVIOUS
<1> HIDE DEF f
<1>4. m * spread \in Nat
  BY ProductNatural
<1>5. d2 * f <= (m * spread) * f
  BY <1>1, <1>4
<1>6. d2 * f \in Int /\ (num * num) * spread \in Int /\ (m * f) * spread \in Int
  BY <1>1
<1>7. (m * f) * spread >= (num * num) * spread
  BY <1>2, <1>3, <1>5, <1>6
<1>8. m * f >= num * num
  BY <1>1, <1>7, Cancel
<1>9. QED
  BY <1>2, <1>8

LEMMA MarkNeedsSamples ==
    ASSUME NEW w \in Seq(Samples), NEW limit \in Thresholds, FarFromMean(w, limit),
           w # << >>
    PROVE  (Len(w) - 1) * limit.den * limit.den >= limit.num * limit.num
<1>1. limit.num \in Int /\ limit.den \in Nat
  BY FilterAssumption DEF Fractions
<1> DEFINE m == Len(w) - 1
           d2 == Deviation(w) * Deviation(w)
           num == limit.num
           den == limit.den
<1>2. Spread(w) > 0 /\ d2 * den * den >= num * num * Spread(w)
  BY DEF FarFromMean
<1>3. m \in Nat
  BY EmptySeq, LenProperties
<1>4. Spread(w) \in Nat \ {0} /\ d2 \in Nat /\ d2 <= m * Spread(w)
  BY <1>2, LastIsNear, SquareNatural
<1> HIDE DEF m, d2, num, den
<1>5. num \in Int /\ den \in Nat
  BY <1>1 DEF num, den
<1>6. m * den * den >= num * num
  BY <1>2, <1>3, <1>4, <1>5, NearNeedsSamples
<1>7. QED
  BY <1>6 DEF m, num, den

(* What the window holds are samples; the threshold is one of those given. *)
WindowTyped == window \in Seq(Samples) /\ threshold \in Thresholds

LEMMA NextWindowTyped ==
    ASSUME WindowTyped, [FilterNext]_filterVars
    PROVE  WindowTyped'
<1>0. threshold' = threshold
  BY DEF FilterNext, filterVars, ReadRecord, WriteAll, WriteDone, WriteFails,
         EndOfInput, InputError, Flush
<1>1. CASE UNCHANGED window
  BY <1>0, <1>1 DEF WindowTyped
<1>2. CASE ReadRecord
  <2>1. PICK l \in Lines : window' = WindowAfter(l)
    BY <1>2 DEF ReadRecord
  <2>2. CASE "analytics" \notin options
    BY <1>0, <2>1, <2>2 DEF WindowAfter, WindowTyped
  <2>3. CASE "analytics" \in options
    <3> DEFINE c == WindowCapacity(Window)
               kept == IF Len(window) = c THEN Tail(window) ELSE window
    <3>1. window' = Append(kept, Sample(l)) /\ Sample(l) \in Samples
      BY <2>1, <2>3 DEF WindowAfter, PushSample, Samples
    <3>2. CASE Len(window) = c
      <4>1. window # << >>
        BY <3>2, EmptySeq, CapacityType DEF Capacity
      <4>2. kept \in Seq(Samples)
        BY <3>2, <4>1, HeadTailProperties DEF WindowTyped
      <4> HIDE DEF kept
      <4>3. QED
        BY <1>0, <3>1, <4>2, AppendProperties DEF WindowTyped
    <3>3. CASE Len(window) # c
      <4>1. kept \in Seq(Samples)
        BY <3>3 DEF WindowTyped
      <4> HIDE DEF kept
      <4>2. QED
        BY <1>0, <3>1, <4>1, AppendProperties DEF WindowTyped
    <3>4. QED
      BY <3>2, <3>3
  <2>4. QED
    BY <2>2, <2>3
<1>3. QED
  BY <1>1, <1>2 DEF FilterNext, filterVars, WriteAll, WriteDone, WriteFails,
                    EndOfInput, InputError, Flush

(* What the notes say of the last record, by the threshold.                *)
LEMMA MarkFollowsThreshold ==
    ASSUME WindowTyped, LoopInv, WindowIsRecent
    PROVE  LengthNeedsSamples
<1> SUFFICES ASSUME "analytics" \in options, history # << >>
             PROVE  /\ threshold.num <= 0 => Last(history).anomaly
                    /\ Last(history).anomaly /\ threshold.num > 0 =>
                          \/ ErrorAnomaly(window)
                          \/ (Len(window) - 1) * threshold.den * threshold.den
                                 >= threshold.num * threshold.num
  BY DEF LengthNeedsSamples
<1>1. Recent(history) \in Nat \ {0}
  <2>1. history \in Seq(Notes)
    BY DEF LoopInv, InPlace
  <2>2. Len(history) \in Nat \ {0} /\ Capacity \in Nat \ {0}
    BY <2>1, EmptySeq, LenProperties, CapacityType
  <2>3. QED
    BY <2>2 DEF Recent
<1> DEFINE n == Min({Len(history), WindowCapacity(Window)})
<1>2. n \in Nat \ {0}
  BY <1>1, RecentIsMin DEF LoopInv, InPlace
<1>3. /\ window = [i \in 1 .. n |-> Sample(history[Len(history) - n + i].line)]
      /\ n > 0 => Last(history).anomaly = Anomaly(window, threshold)
  BY Zenon DEF WindowIsRecent
<1> HIDE DEF n
<1>4. window # << >> /\ Last(history).anomaly = Anomaly(window, threshold)
  BY <1>2, <1>3
<1>5. threshold.num \in Int
  BY FilterAssumption DEF WindowTyped, Fractions
<1>6. ASSUME threshold.num <= 0 PROVE Last(history).anomaly
  BY <1>4, <1>6 DEF Anomaly, LengthAnomaly
<1>7. ASSUME Last(history).anomaly, threshold.num > 0, ~ ErrorAnomaly(window)
      PROVE  (Len(window) - 1) * threshold.den * threshold.den
                 >= threshold.num * threshold.num
  <2>1. LengthAnomaly(window, threshold)
    BY <1>4, <1>7 DEF Anomaly
  <2>2. FarFromMean(window, threshold)
    BY <1>5, <1>7, <2>1 DEF LengthAnomaly
  <2>3. QED
    BY <1>4, <2>2, MarkNeedsSamples DEF WindowTyped
<1>8. QED
  BY <1>6, <1>7

(* Unless for the errors around it, a record is marked only in a window of *)
(* more samples than the square of the threshold, or for a threshold of 0  *)
(* or less, which marks every record: whatever the lines, the window and   *)
(* the threshold are.                                                      *)
THEOREM MarksNeedSamples == FilterSpec => []LengthNeedsSamples
<1>1. FilterInit => WindowTyped
  BY EmptySeq DEF FilterInit, WindowTyped
<1>2. QED
  BY <1>1, InitLoop, NextLoop, InitWindow, NextWindow, NextWindowTyped,
     MarkFollowsThreshold, PTL DEF FilterSpec

-----------------------------------------------------------------------------

LEMMA EventType ==
    ASSUME NEW words
    PROVE  DetectEvent(words) \in Events \cup {NoEvent}
<1> DEFINE found == {i \in DOMAIN EventWords : EventWords[i][1] \in words}
<1>1. found \subseteq 1 .. 5
  BY DEF EventWords
<1>2. \A i \in 1 .. 5 : EventWords[i][2] \in Events
  BY DEF EventWords, Events
<1>3. DetectEvent(words) = IF found = {} THEN NoEvent
                                  ELSE EventWords[Min(found)][2]
  BY DEF DetectEvent
<1> HIDE DEF found
<1>4. ASSUME found # {} PROVE Min(found) \in found
  <2>1. \E x \in found : \A y \in found : x <= y
    <3>1. CASE 1 \in found
      BY <1>1, <3>1
    <3>2. CASE 1 \notin found /\ 2 \in found
      BY <1>1, <3>2
    <3>3. CASE 1 \notin found /\ 2 \notin found /\ 3 \in found
      BY <1>1, <3>3
    <3>4. CASE 1 \notin found /\ 2 \notin found /\ 3 \notin found /\ 4 \in found
      BY <1>1, <3>4
    <3>5. CASE 1 \notin found /\ 2 \notin found /\ 3 \notin found /\ 4 \notin found
      <4>1. \A y \in found : y = 5
        BY <1>1, <3>5
      <4>2. 5 \in found
        BY <1>4, <4>1
      <4>3. QED
        BY <4>1, <4>2
    <3>6. QED
      BY <3>1, <3>2, <3>3, <3>4, <3>5
  <2>2. QED
    BY <2>1 DEF Min
<1>5. QED
  BY <1>1, <1>2, <1>3, <1>4

(* What an event does to the phase: nothing, a reset, or the next step.    *)
LEMMA PhaseStep ==
    ASSUME NEW now \in Phases, NEW event \in Events \cup {NoEvent}
    PROVE  LET after == InspectPhase(now, event)
           IN  \/ (event = NoEvent \/ Violates(now, event)) /\ after = now
               \/ /\ event # NoEvent /\ ~Violates(now, event)
                  /\ after = ProtocolStep(now, event)
                  /\ \/ event = "Reset" /\ after = 0
                     \/ /\ event # "Reset" /\ after = now + 1 /\ now \in 0 .. 3
                        /\ event = Lifecycle4[after]
                        /\ EventCode[event] + 1 = after
<1> USE DEF Phases, Cold, Ready, NoEvent
<1>1. CASE event = "none" \/ Violates(now, event)
  BY <1>1 DEF InspectPhase
<1>2. CASE event # "none" /\ ~Violates(now, event)
  <2>1. InspectPhase(now, event) = ProtocolStep(now, event)
    BY <1>2 DEF InspectPhase
  <2>2. ProtocolStep(now, event) \in 0 .. 4
    BY <1>2 DEF Violates
  <2>3. CASE event = "Reset"
    BY <1>2, <2>1, <2>3 DEF ProtocolStep, EventCode
  <2>4. CASE event # "Reset"
    <3>1. event \in {"Start", "Authenticate", "Bind", "Ready"}
      BY <1>2, <2>4 DEF Events
    <3>2. /\ EventCode[event] # 4
          /\ EventCode[event] = now /\ now \in 0 .. 3
          /\ ProtocolStep(now, event) = now + 1
      BY <2>2, <3>1 DEF ProtocolStep, EventCode
    <3>3. event = Lifecycle4[now + 1]
      BY <3>1, <3>2 DEF EventCode, Lifecycle4
    <3>4. QED
      BY <1>2, <2>1, <2>4, <3>2, <3>3
  <2>5. QED
    BY <2>3, <2>4
<1>3. QED
  BY <1>1, <1>2

(* A note that is not of an accepted event leaves the accepted ones, and   *)
(* one that is belongs to them.                                            *)
IsAccepted(note) == ~note.violation /\ EventOf(note) # NoEvent

LEMMA AcceptedGrows ==
    ASSUME NEW h \in Seq(Notes), NEW x \in Notes
    PROVE  LET L == Len(h)
               h2 == Append(h, x)
           IN  /\ L \in Nat
               /\ \A i \in 1 .. L : h2[i] = h[i]
               /\ h2[L + 1] = x
               /\ Accepted(h) \subseteq 1 .. L
               /\ Accepted(h2) =
                     Accepted(h) \cup (IF IsAccepted(x) THEN {L + 1} ELSE {})
<1> DEFINE L == Len(h)
           h2 == Append(h, x)
<1>1. /\ L \in Nat
      /\ DOMAIN h = 1 .. L
      /\ DOMAIN h2 = 1 .. L + 1
      /\ \A i \in 1 .. L : h2[i] = h[i]
      /\ h2[L + 1] = x
  BY AppendProperties, LenProperties
<1> HIDE DEF L, h2
<1>2. Accepted(h) = {i \in 1 .. L : IsAccepted(h[i])}
  BY <1>1 DEF Accepted, IsAccepted
<1>3. Accepted(h2) = {i \in 1 .. L + 1 : IsAccepted(h2[i])}
  BY <1>1 DEF Accepted, IsAccepted
<1>4. \A i \in 1 .. L + 1 : i \in 1 .. L \/ i = L + 1
  BY <1>1
<1>5. 1 .. L \subseteq 1 .. L + 1 /\ L + 1 \in 1 .. L + 1 /\ L + 1 \notin 1 .. L
  BY <1>1
<1>6. Accepted(h2) = Accepted(h) \cup (IF IsAccepted(x) THEN {L + 1} ELSE {})
  BY <1>1, <1>2, <1>3, <1>4, <1>5
<1>7. QED
  BY <1>1, <1>2, <1>6 DEF L, h2

PhaseInv == phase \in Phases /\ HandshakeInOrder

(* What HandshakeInOrder says of a history and a phase.                    *)
Steps(step, h, p) ==
    /\ step \in [1 .. p -> SinceReset(h)]
    /\ \A n \in 1 .. p :
          /\ EventOf(h[step[n]]) = Lifecycle4[n]
          /\ \A m \in 1 .. n - 1 : step[m] < step[n]
    /\ \A i \in SinceReset(h) : \E n \in 1 .. p : step[n] = i

LEMMA StepsAre ==
    HandshakeInOrder <=>
        ("verify" \in options => \E step : Steps(step, history, phase))
BY DEF HandshakeInOrder, Steps

(* A record that is no event, or a violation, adds nothing.                *)
LEMMA StepsStay ==
    ASSUME NEW h \in Seq(Notes), NEW x \in Notes, ~IsAccepted(x),
           NEW p \in Nat, NEW step, Steps(step, h, p)
    PROVE  Steps(step, Append(h, x), p)
<1> DEFINE h2 == Append(h, x)
           since == SinceReset(h)
           L == Len(h)
<1>1. /\ \A i \in Accepted(h) : h2[i] = h[i]
      /\ Accepted(h2) = Accepted(h)
  <2>1. /\ \A i \in 1 .. L : h2[i] = h[i]
        /\ Accepted(h) \subseteq 1 .. L
        /\ Accepted(h2) =
              Accepted(h) \cup (IF IsAccepted(x) THEN {L + 1} ELSE {})
    BY AcceptedGrows
  <2> HIDE DEF h2, L
  <2>2. QED
    BY <2>1
<1> HIDE DEF h2, L
<1>2. SinceReset(h2) = since
  BY <1>1 DEF SinceReset
<1>3. \A n \in 1 .. p : h2[step[n]] = h[step[n]]
  <2>1. \A n \in 1 .. p : step[n] \in Accepted(h)
    BY DEF Steps, SinceReset
  <2>2. QED
    BY <1>1, <2>1
<1>4. QED
  BY <1>2, <1>3 DEF Steps, h2

(* A reset begins anew.                                                    *)
LEMMA StepsReset ==
    ASSUME NEW h \in Seq(Notes), NEW x \in Notes, IsAccepted(x),
           EventOf(x) = "Reset"
    PROVE  \E step : Steps(step, Append(h, x), 0)
<1> DEFINE h2 == Append(h, x)
           L == Len(h)
           none == [n \in 1 .. 0 |-> 0]
<1>1. /\ L \in Nat /\ h2[L + 1] = x
      /\ Accepted(h) \subseteq 1 .. L
      /\ Accepted(h2) = Accepted(h) \cup {L + 1}
  BY AcceptedGrows
<1> HIDE DEF h2, L
<1>2. \A i \in Accepted(h2) : ~(L + 1 < i)
  BY <1>1
<1>3. SinceReset(h2) = {}
  BY <1>1, <1>2 DEF SinceReset
<1>4. Steps(none, h2, 0)
  BY <1>3 DEF Steps
<1>5. QED
  BY <1>4 DEF h2

(* The next step of the lifecycle is added at the end.                     *)
LEMMA StepsGo ==
    ASSUME NEW h \in Seq(Notes), NEW x \in Notes, IsAccepted(x),
           NEW p \in Nat, NEW step, Steps(step, h, p),
           EventOf(x) # "Reset",
           EventOf(x) = Lifecycle4[p + 1]
    PROVE  \E step2 : Steps(step2, Append(h, x), p + 1)
<1> DEFINE h2 == Append(h, x)
           L == Len(h)
           since == SinceReset(h)
           step2 == [n \in 1 .. p + 1 |-> IF n <= p THEN step[n] ELSE L + 1]
<1>1. /\ L \in Nat
      /\ \A i \in 1 .. L : h2[i] = h[i]
      /\ h2[L + 1] = x
      /\ Accepted(h) \subseteq 1 .. L
      /\ Accepted(h2) = Accepted(h) \cup {L + 1}
  BY AcceptedGrows
<1> HIDE DEF h2, L
<1>2. since \subseteq 1 .. L
  BY <1>1 DEF SinceReset
<1>3. SinceReset(h2) = since \cup {L + 1}
  <2>1. \A j \in Accepted(h) : j < L + 1
    BY <1>1
  <2>2. \A i \in Accepted(h) : h2[i] = h[i]
    BY <1>1
  <2>3. QED
    BY <1>1, <2>1, <2>2 DEF SinceReset
<1>4. /\ \A n \in 1 .. p : step[n] \in since /\ step[n] \in 1 .. L
      /\ \A n \in 1 .. p : EventOf(h[step[n]]) = Lifecycle4[n]
      /\ \A n \in 1 .. p : \A m \in 1 .. n - 1 : step[m] < step[n]
      /\ \A i \in since : \E n \in 1 .. p : step[n] = i
  BY <1>2 DEF Steps
<1> HIDE DEF since
<1>5. /\ \A n \in 1 .. p : step2[n] = step[n]
      /\ step2[p + 1] = L + 1
      /\ DOMAIN step2 = 1 .. p + 1
      /\ \A n \in 1 .. p + 1 : n \in 1 .. p \/ n = p + 1
  OBVIOUS
<1>6. step2 \in [1 .. p + 1 -> since \cup {L + 1}]
  BY <1>4
<1> HIDE DEF step2
<1>7. \A n \in 1 .. p + 1 : EventOf(h2[step2[n]]) = Lifecycle4[n]
  BY <1>1, <1>4, <1>5
<1>8. \A n \in 1 .. p + 1 : \A m \in 1 .. n - 1 : step2[m] < step2[n]
  <2>1. SUFFICES ASSUME NEW n \in 1 .. p + 1, NEW m \in 1 .. n - 1
                 PROVE  step2[m] < step2[n]
    OBVIOUS
  <2>2. m \in 1 .. p /\ step2[m] = step[m] /\ step[m] \in 1 .. L
    BY <1>4, <1>5
  <2>3. CASE n = p + 1
    BY <1>1, <1>5, <2>2, <2>3
  <2>4. CASE n \in 1 .. p
    BY <1>4, <1>5, <2>2, <2>4
  <2>5. QED
    BY <1>5, <2>3, <2>4
<1>9. \A i \in since \cup {L + 1} : \E n \in 1 .. p + 1 : step2[n] = i
  BY <1>4, <1>5
<1>10. Steps(step2, h2, p + 1)
  BY <1>3, <1>6, <1>7, <1>8, <1>9 DEF Steps
<1>11. QED
  BY <1>10 DEF h2

LEMMA InitPhase == ASSUME FilterInit PROVE PhaseInv
<1>1. phase = 0 /\ DOMAIN history = {}
  BY EmptySeq DEF FilterInit, Cold
<1>2. Steps([n \in 1 .. 0 |-> 0], history, phase)
  BY <1>1 DEF Steps, SinceReset, Accepted
<1>3. QED
  BY <1>1, <1>2, StepsAre DEF PhaseInv, Phases, Cold, Ready

LEMMA NextPhase ==
    ASSUME LoopInv, PhaseInv, [FilterNext]_filterVars
    PROVE  PhaseInv'
<1>1. CASE UNCHANGED <<options, phase, history>>
  BY <1>1 DEF PhaseInv, HandshakeInOrder
<1>2. CASE ReadRecord /\ "verify" \in options
  <2>1. PICK l \in Lines :
            /\ history' = Append(history, Annotate(l))
            /\ phase' = PhaseAfter(l)
            /\ options' = options
    BY <1>2 DEF ReadRecord
  <2> DEFINE x == Annotate(l)
             event == DetectEvent(l.words)
  <2>2. x \in Notes /\ history \in Seq(Notes) /\ phase \in Phases
    BY NoteType DEF LoopInv, InPlace, PhaseInv
  <2>3. event \in Events \cup {NoEvent}
    BY EventType
  <2>4. phase' = InspectPhase(phase, event)
    BY <1>2, <2>1 DEF PhaseAfter
  <2>5. /\ EventOf(x) = event
        /\ IsAccepted(x) <=> event # NoEvent /\ ~Violates(phase, event)
    BY <1>2 DEF Annotate, EventOf, IsAccepted
  <2> HIDE DEF x, event
  <2>6. PICK step : Steps(step, history, phase)
    BY <1>2, StepsAre DEF PhaseInv
  <2>7. history' = Append(history, x) /\ phase \in Nat
    BY <2>1, <2>2 DEF x, Phases, Cold, Ready
  <2>8. phase' \in Phases /\ \E step2 : Steps(step2, history', phase')
    <3>1. CASE ~IsAccepted(x)
      <4>1. phase' = phase
        BY <2>2, <2>3, <2>4, <2>5, <3>1, PhaseStep
      <4>2. QED
        BY <2>2, <2>6, <2>7, <3>1, <4>1, StepsStay
    <3>2. CASE IsAccepted(x) /\ event = "Reset"
      <4>1. phase' = 0
        BY <2>2, <2>3, <2>4, <2>5, <3>2, PhaseStep
      <4>2. QED
        BY <2>2, <2>5, <2>7, <3>2, <4>1, StepsReset
           DEF Phases, Cold, Ready
    <3>3. CASE IsAccepted(x) /\ event # "Reset"
      <4>1. /\ phase' = phase + 1 /\ phase \in 0 .. 3
            /\ event = Lifecycle4[phase + 1]
        BY <2>2, <2>3, <2>4, <2>5, <3>3, PhaseStep
      <4>2. \E step2 : Steps(step2, Append(history, x), phase + 1)
        BY <2>2, <2>5, <2>6, <2>7, <3>3, <4>1, StepsGo
      <4>3. QED
        BY <2>7, <4>1, <4>2 DEF Phases, Cold, Ready
    <3>4. QED
      BY <3>1, <3>2, <3>3
  <2>9. QED
    BY <2>8 DEF PhaseInv, HandshakeInOrder, Steps
<1>3. CASE ReadRecord /\ "verify" \notin options
  BY <1>3 DEF ReadRecord, PhaseAfter, PhaseInv, HandshakeInOrder
<1>4. QED
  BY <1>1, <1>2, <1>3
     DEF FilterNext, filterVars, WriteAll, WriteDone,
         WriteFails, EndOfInput, InputError, Flush

(* The verifier's phase is the number of the lifecycle's steps accepted in *)
(* order since the last reset.                                             *)
THEOREM HandshakeIsInOrder == FilterSpec => []HandshakeInOrder
<1>1. PhaseInv => HandshakeInOrder
  BY DEF PhaseInv
<1>2. QED
  BY <1>1, InitLoop, NextLoop, InitPhase, NextPhase, PTL DEF FilterSpec

-----------------------------------------------------------------------------
(* The renderer.                                                           *)


(* Appending one fragment that begins where the output ends.               *)
Contiguous(out, c) ==
    /\ \A i \in DOMAIN out : out[i].from <= out[i].to
    /\ \A i \in 1 .. Len(out) - 1 : out[i].to = out[i + 1].from
    /\ IF out = << >> THEN c = 0
       ELSE out[1].from = 0 /\ out[Len(out)].to = c

LEMMA AppendContiguous ==
    ASSUME NEW out \in Seq(Fragments), NEW c \in Nat, NEW to \in Nat,
           NEW kind \in Kinds \cup {Plain}, c <= to, Contiguous(out, c)
    PROVE  LET new == Append(out, Fragment(c, to, kind))
           IN  new \in Seq(Fragments) /\ Contiguous(new, to)
<1> DEFINE f == Fragment(c, to, kind)
           new == Append(out, f)
<1>1. f \in Fragments /\ f.from = c /\ f.to = to
  BY DEF Fragment, Fragments
<1> HIDE DEF f
<1>2. /\ new \in Seq(Fragments)
      /\ new # << >>
      /\ Len(new) = Len(out) + 1
      /\ \A i \in 1 .. Len(out) : new[i] = out[i]
      /\ new[Len(out) + 1] = f
  BY <1>1, AppendProperties
<1>3. DOMAIN new = 1 .. Len(out) + 1 /\ DOMAIN out = 1 .. Len(out)
      /\ Len(out) \in Nat
  BY <1>2, LenProperties
<1> HIDE DEF new
<1>4. CASE out = << >>
  <2>1. Len(out) = 0 /\ c = 0
    BY <1>4, EmptySeq DEF Contiguous
  <2>2. QED
    BY <1>1, <1>2, <1>3, <2>1 DEF Contiguous, new, f
<1>5. CASE out # << >>
  <2>1. Len(out) \in Nat \ {0}
    BY <1>5, EmptySeq
  <2>2. out[1].from = 0 /\ out[Len(out)].to = c
    BY <1>5 DEF Contiguous
  <2>3. \A i \in 1 .. Len(new) - 1 : new[i].to = new[i + 1].from
    BY <1>1, <1>2, <1>3, <2>1, <2>2 DEF Contiguous
  <2>4. \A i \in DOMAIN new : new[i].from <= new[i].to
    BY <1>1, <1>2, <1>3 DEF Contiguous
  <2>5. new[1].from = 0 /\ new[Len(new)].to = to
    BY <1>1, <1>2, <2>1, <2>2
  <2>6. QED
    BY <1>2, <2>3, <2>4, <2>5 DEF Contiguous, new, f
<1>6. QED
  BY <1>4, <1>5

(* The tokens in an order the sort may leave them in are still tokens.     *)
LEMMA SortedTokens ==
    ASSUME NEW list \in Seq(Tokens), NEW sorted \in SortedOrders(list)
    PROVE  sorted \in Seq(Tokens)
<1>1. PICK order \in [DOMAIN list -> DOMAIN list] :
          sorted = [i \in DOMAIN list |-> list[order[i]]]
  BY DEF SortedOrders
<1>2. /\ DOMAIN list = 1 .. Len(list)
      /\ Len(list) \in Nat
      /\ \A i \in 1 .. Len(list) : list[i] \in Tokens
  BY LenProperties, ElementOfSeq
<1>3. sorted \in [1 .. Len(list) -> Tokens]
  BY <1>1, <1>2
<1>4. QED
  BY <1>2, <1>3, SeqDef

(* Without color the only copy is made from the start of the line.         *)
PlainFromStart == stage = "rendering" /\ ~color => output = << >> /\ cursor = 0

(* The inductive invariant: RenderPlain keeps TextPreserved only because   *)
(* nothing has been copied before it, which PlainFromStart says.           *)
RenderIInv == RenderTypeOK /\ TextPreserved /\ ColorsAreTokens /\ PlainFromStart

(* A plain fragment puts no color on anything.                             *)
LEMMA AppendPlain ==
    ASSUME RenderIInv, NEW from \in Nat, NEW to \in Nat,
           output' = Append(output, Fragment(from, to, Plain)),
           UNCHANGED <<color, tokens>>, next' >= next, next' \in Nat
    PROVE  ColorsAreTokens'
<1> USE RenderAssumption DEF RenderIInv, RenderTypeOK
<1> DEFINE f == Fragment(from, to, Plain)
<1>1. f \in Fragments /\ f.kind = Plain
  BY DEF Fragment, Fragments
<1> HIDE DEF f
<1>2. /\ output' = Append(output, f)
      /\ \A i \in 1 .. Len(output) : output'[i] = output[i]
      /\ output'[Len(output) + 1] = f
      /\ DOMAIN output' = 1 .. Len(output) + 1
      /\ DOMAIN output = 1 .. Len(output)
      /\ Len(output) \in Nat
  <2>1. output' = Append(output, f)
    BY DEF f
  <2>2. QED
    BY <1>1, <2>1, AppendProperties, LenProperties
<1>3. SUFFICES ASSUME NEW i \in DOMAIN output', output'[i].kind # Plain
               PROVE  /\ color
                      /\ \E j \in DOMAIN tokens :
                          /\ tokens[j] = [start |-> output'[i].from,
                                          end |-> output'[i].to,
                                          kind |-> output'[i].kind]
                          /\ j < next'
  BY DEF ColorsAreTokens
<1>4. i \in DOMAIN output /\ output'[i] = output[i]
  BY <1>1, <1>2, <1>3
<1>5. PICK j \in DOMAIN tokens :
          /\ tokens[j] = [start |-> output[i].from, end |-> output[i].to,
                          kind |-> output[i].kind]
          /\ j < next
  BY <1>3, <1>4 DEF ColorsAreTokens
<1>6. color /\ j < next'
  <2>1. j \in Nat
    BY LenProperties
  <2>2. QED
    BY <1>3, <1>4, <1>5, <2>1 DEF ColorsAreTokens
<1>7. QED
  BY <1>4, <1>5, <1>6

LEMMA InitRenderIInv == ASSUME RenderInit PROVE RenderIInv
<1>1. /\ tokens \in Seq(Tokens) /\ output \in Seq(Fragments)
      /\ Len(output) = 0 /\ DOMAIN output = {}
  BY EmptySeq, LenProperties DEF RenderInit
<1>2. QED
  BY <1>1
     DEF RenderInit, RenderIInv, RenderTypeOK, TextPreserved, ColorsAreTokens, PlainFromStart

LEMMA NextRenderIInv == ASSUME RenderIInv, [RenderNext]_renderVars PROVE RenderIInv'
<1> USE RenderAssumption DEF RenderIInv
<1>0. Contiguous(output, cursor) /\ cursor \in Nat
  BY DEF TextPreserved, Contiguous, RenderTypeOK
<1>1. CASE Process
  <2>1. tokens' \in Seq(Tokens) /\ length' \in Nat
    BY <1>1, SortedTokens DEF Process
  <2>2. /\ output' \in Seq(Fragments) /\ DOMAIN output' = {}
        /\ Len(output') = 0 /\ output' = << >>
    BY <1>1, EmptySeq, LenProperties DEF Process
  <2>3. QED
    BY <1>1, <2>1, <2>2
       DEF Process, RenderTypeOK, TextPreserved, ColorsAreTokens, PlainFromStart
<1>2. CASE RenderPlain \/ RenderTail
  <2> DEFINE from == IF color THEN cursor ELSE 0
  <2>1. /\ output' = Append(output, Fragment(from, length, Plain))
        /\ cursor' = length /\ stage' = "idle" /\ stage = "rendering"
        /\ UNCHANGED <<length, color, tokens, next>>
    BY <1>2 DEF RenderPlain, RenderTail
  <2>2. from = cursor /\ cursor <= length /\ length \in Nat
    BY <2>1 DEF PlainFromStart, RenderTypeOK
  <2>3. output' \in Seq(Fragments) /\ Contiguous(output', length)
    BY <1>0, <2>1, <2>2, AppendContiguous DEF RenderTypeOK
  <2>4. ColorsAreTokens'
    BY <2>1, <2>2, <1>0, AppendPlain DEF RenderTypeOK
  <2>5. RenderTypeOK' /\ PlainFromStart'
    BY <2>1, <2>2, <2>3 DEF RenderTypeOK, PlainFromStart
  <2>6. TextPreserved'
    BY <2>1, <2>3 DEF TextPreserved, Contiguous
  <2>7. QED
    BY <2>4, <2>5, <2>6
<1>3. CASE RenderToken
  <2> DEFINE t == tokens[next]
  <2>1. /\ t \in Tokens /\ next \in DOMAIN tokens /\ next \in Nat \ {0}
        /\ next' = next + 1 /\ color /\ stage = "rendering"
        /\ UNCHANGED <<length, color, tokens, stage>>
    BY <1>3, ElementOfSeq, LenProperties DEF RenderToken, RenderTypeOK
  <2>2. CASE ~Fits(t)
    <3>1. UNCHANGED <<output, cursor>>
      BY <1>3, <2>2 DEF RenderToken
    <3>2. ColorsAreTokens'
      <4>1. SUFFICES ASSUME NEW i \in DOMAIN output, output[i].kind # Plain
                     PROVE  \E j \in DOMAIN tokens :
                                /\ tokens[j] = [start |-> output[i].from,
                                                end |-> output[i].to,
                                                kind |-> output[i].kind]
                                /\ j < next + 1
        BY <2>1, <3>1 DEF ColorsAreTokens
      <4>2. PICK j \in DOMAIN tokens :
                /\ tokens[j] = [start |-> output[i].from, end |-> output[i].to,
                                kind |-> output[i].kind]
                /\ j < next
        BY <4>1 DEF ColorsAreTokens
      <4>3. j \in Nat
        BY LenProperties DEF RenderTypeOK
      <4>4. QED
        BY <2>1, <4>2, <4>3
    <3>3. QED
      BY <2>1, <3>1, <3>2 DEF RenderTypeOK, TextPreserved, PlainFromStart
  <2>3. CASE Fits(t)
    <3> DEFINE gap == Fragment(cursor, t.start, Plain)
               shown == Fragment(t.start, t.end, t.kind)
               mid == Append(output, gap)
    <3>1. /\ output' = output \o <<gap, shown>> /\ cursor' = t.end
      BY <1>3, <2>3 DEF RenderToken
    <3>2. /\ t.start \in Nat /\ t.end \in Nat /\ t.kind \in Kinds
          /\ cursor <= t.start /\ t.start <= t.end /\ t.end <= length
      BY <1>0, <2>1, <2>3 DEF Fits, Tokens, RenderTypeOK
    <3>3. gap \in Fragments /\ shown \in Fragments
          /\ gap.kind = Plain /\ shown.from = t.start /\ shown.to = t.end
          /\ shown.kind = t.kind
      BY <1>0, <3>2 DEF Fragment, Fragments
    <3>4. mid \in Seq(Fragments) /\ Contiguous(mid, t.start)
      BY <1>0, <3>2, AppendContiguous DEF RenderTypeOK
    <3>5. /\ Append(mid, shown) \in Seq(Fragments)
          /\ Contiguous(Append(mid, shown), t.end)
      BY <3>2, <3>4, AppendContiguous
    <3> HIDE DEF gap, shown, t
    <3>6. output' = Append(mid, shown)
      BY <3>1, <3>3, AppendIsConcat, ConcatAssociative DEF RenderTypeOK
    <3>7. RenderTypeOK' /\ PlainFromStart'
      BY <2>1, <3>1, <3>2, <3>5, <3>6 DEF RenderTypeOK, PlainFromStart
    <3>8. TextPreserved'
      BY <2>1, <3>1, <3>5, <3>6 DEF TextPreserved, Contiguous
    <3>9. ColorsAreTokens'
      <4>1. SUFFICES ASSUME NEW i \in DOMAIN output', output'[i].kind # Plain
                     PROVE  \E j \in DOMAIN tokens :
                                /\ tokens[j] = [start |-> output'[i].from,
                                                end |-> output'[i].to,
                                                kind |-> output'[i].kind]
                                /\ j < next + 1
        BY <2>1 DEF ColorsAreTokens
      <4>2. /\ DOMAIN output' = 1 .. Len(output) + 2
            /\ DOMAIN output = 1 .. Len(output)
            /\ Len(output) \in Nat
            /\ \A k \in 1 .. Len(output) : output'[k] = output[k]
            /\ output'[Len(output) + 1] = gap
            /\ output'[Len(output) + 2] = shown
        <5>1. /\ Len(mid) = Len(output) + 1
              /\ \A k \in 1 .. Len(output) : mid[k] = output[k]
              /\ mid[Len(output) + 1] = gap
              /\ Len(output) \in Nat
          BY <3>3, AppendProperties, LenProperties DEF RenderTypeOK
        <5>2. /\ Len(output') = Len(mid) + 1
              /\ \A k \in 1 .. Len(mid) : output'[k] = mid[k]
              /\ output'[Len(mid) + 1] = shown
              /\ output' \in Seq(Fragments)
          BY <3>3, <3>4, <3>6, AppendProperties
        <5> HIDE DEF mid
        <5>3. /\ DOMAIN output' = 1 .. Len(output')
              /\ DOMAIN output = 1 .. Len(output)
          BY <5>2, LenProperties DEF RenderTypeOK
        <5>4. QED
          BY <5>1, <5>2, <5>3
      <4>3. CASE i \in DOMAIN output
        <5>1. output'[i] = output[i]
          BY <4>2, <4>3
        <5>2. PICK j \in DOMAIN tokens :
                  /\ tokens[j] = [start |-> output[i].from,
                                  end |-> output[i].to,
                                  kind |-> output[i].kind]
                  /\ j < next
          BY <4>1, <4>3, <5>1 DEF ColorsAreTokens
        <5>3. j \in Nat
          BY LenProperties DEF RenderTypeOK
        <5>4. QED
          BY <2>1, <5>1, <5>2, <5>3
      <4>4. CASE i = Len(output) + 2
        <5>1. output'[i] = shown
          BY <4>2, <4>4
        <5>2. t = [start |-> t.start, end |-> t.end, kind |-> t.kind]
          BY <2>1 DEF Tokens
        <5>3. tokens[next] = t
          BY DEF t
        <5>4. QED
          BY <2>1, <3>3, <5>1, <5>2, <5>3
      <4>5. CASE i = Len(output) + 1
        BY <3>3, <4>1, <4>2, <4>5
      <4>6. QED
        BY <4>1, <4>2, <4>3, <4>4, <4>5
    <3>10. QED
      BY <3>7, <3>8, <3>9
  <2>4. QED
    BY <2>2, <2>3
<1>4. CASE UNCHANGED renderVars
  BY <1>4
     DEF renderVars, RenderTypeOK, TextPreserved, ColorsAreTokens, PlainFromStart
<1>5. QED
  BY <1>1, <1>2, <1>3, <1>4 DEF RenderNext

(* The buffers and positions keep their types and ranges.                  *)
THEOREM RenderTypeCorrect == RenderSpec => []RenderTypeOK
<1>1. RenderIInv => RenderTypeOK
  BY DEF RenderIInv
<1>2. QED
  BY <1>1, InitRenderIInv, NextRenderIInv, PTL DEF RenderSpec

(* Whatever a parser pushes, the output without its escapes is the line.   *)
THEOREM TextIsPreserved == RenderSpec => []TextPreserved
<1>1. RenderIInv => TextPreserved
  BY DEF RenderIInv
<1>2. QED
  BY <1>1, InitRenderIInv, NextRenderIInv, PTL DEF RenderSpec

(* Only tokens of this line are colored.                                   *)
THEOREM OnlyTokensColored == RenderSpec => []ColorsAreTokens
<1>1. RenderIInv => ColorsAreTokens
  BY DEF RenderIInv
<1>2. QED
  BY <1>1, InitRenderIInv, NextRenderIInv, PTL DEF RenderSpec

-----------------------------------------------------------------------------

(* The order the sort leaves the tokens in, as the loop needs it: those it *)
(* has passed begin no later than the one it looks at.                     *)
PassedBefore ==
    /\ ByStart(tokens)
    /\ next <= Len(tokens) =>
          \A j \in 1 .. next - 1 : tokens[j].start <= tokens[next].start

(* The last token shown is the one that ends at the cursor, so a token     *)
(* that is passed over begins within it.                                   *)
LastShown ==
    stage = "rendering" /\ color /\ cursor > 0 =>
        \E k \in 1 .. next - 1 : Shown(tokens[k]) /\ tokens[k].end = cursor

(* The loop has not gone past the tokens there are.                        *)
NextInRange == next <= Len(tokens) + 1

(* The inductive strengthening of LosesOnlyToOverlap.                      *)
OverlapInv == PassedBefore /\ LastShown /\ NextInRange /\ LosesOnlyToOverlap

Appears(t, out) ==
    \E i \in DOMAIN out : out[i] = Fragment(t.start, t.end, t.kind)

(* What is shown stays shown while the output only grows.                  *)
Grows ==
    \A i \in DOMAIN output : i \in DOMAIN output' /\ output'[i] = output[i]

LEMMA ShownStays ==
    ASSUME Grows, NEW t, Shown(t)
    PROVE  Appears(t, output')
BY DEF Grows, Shown, Appears

LEMMA AppendGrows ==
    ASSUME RenderIInv, NEW f \in Fragments, output' = Append(output, f)
    PROVE  Grows
<1>1. output \in Seq(Fragments)
  BY DEF RenderIInv, RenderTypeOK
<1>2. /\ Len(output) \in Nat
      /\ DOMAIN output = 1 .. Len(output)
      /\ DOMAIN Append(output, f) = 1 .. Len(output) + 1
      /\ \A i \in 1 .. Len(output) : Append(output, f)[i] = output[i]
  BY <1>1, AppendProperties, LenProperties
<1>3. QED
  BY <1>2 DEF Grows

LEMMA CopyGrows ==
    ASSUME RenderIInv, NEW f \in Fragments, NEW g \in Fragments,
           output' = output \o <<f, g>>
    PROVE  Grows /\ \E i \in DOMAIN output' : output'[i] = g
<1>1. output \in Seq(Fragments) /\ <<f, g>> \in Seq(Fragments)
  BY DEF RenderIInv, RenderTypeOK
<1>2. /\ Len(output) \in Nat
      /\ DOMAIN output = 1 .. Len(output)
      /\ output' \in Seq(Fragments)
      /\ Len(output') = Len(output) + 2
      /\ \A i \in 1 .. Len(output') :
            output'[i] = IF i <= Len(output) THEN output[i]
                         ELSE <<f, g>>[i - Len(output)]
  BY <1>1, ConcatProperties, LenProperties
<1>3. DOMAIN output' = 1 .. Len(output) + 2
  BY <1>2, LenProperties
<1>4. Grows
  BY <1>2, <1>3 DEF Grows
<1>5. output'[Len(output) + 2] = g
  BY <1>2
<1>6. Len(output) + 2 \in DOMAIN output'
  BY <1>2, <1>3
<1>7. QED
  BY <1>4, <1>5, <1>6

(* What was lost to an overlap among the tokens passed stays so.           *)
LEMMA LossesStay ==
    ASSUME RenderIInv, LosesOnlyToOverlap, Grows, color,
           UNCHANGED <<tokens, length>>,
           NEW j \in 1 .. next - 1,
           tokens[j].start < tokens[j].end, tokens[j].end <= length
    PROVE  \/ Appears(tokens[j], output')
           \/ \E k \in 1 .. j - 1 :
                /\ Appears(tokens[k], output')
                /\ tokens[k].start <= tokens[j].start
                /\ tokens[j].start < tokens[k].end
<1>1. CASE Shown(tokens[j])
  BY <1>1, ShownStays
<1>2. CASE \E k \in 1 .. j - 1 :
              /\ Shown(tokens[k])
              /\ tokens[k].start <= tokens[j].start
              /\ tokens[j].start < tokens[k].end
  <2>1. PICK k \in 1 .. j - 1 :
              /\ Shown(tokens[k])
              /\ tokens[k].start <= tokens[j].start
              /\ tokens[j].start < tokens[k].end
    BY <1>2
  <2>2. Appears(tokens[k], output')
    BY <2>1, ShownStays
  <2>3. QED
    BY <2>1, <2>2
<1>3. QED
  BY <1>1, <1>2 DEF LosesOnlyToOverlap

LEMMA InitOverlap == ASSUME RenderInit PROVE OverlapInv
<1>1. Len(tokens) = 0 /\ next = 1 /\ cursor = 0
  BY EmptySeq DEF RenderInit
<1>2. QED
  BY <1>1
     DEF OverlapInv, PassedBefore, LastShown, NextInRange, LosesOnlyToOverlap,
         ByStart

LEMMA NextOverlap == ASSUME RenderIInv, OverlapInv, [RenderNext]_renderVars PROVE OverlapInv'
<1> USE RenderAssumption
<1>0. /\ length \in Nat /\ cursor \in 0 .. length /\ next \in Nat \ {0}
      /\ tokens \in Seq(Tokens) /\ output \in Seq(Fragments)
      /\ Len(tokens) \in Nat
      /\ \A i \in 1 .. Len(tokens) :
            /\ tokens[i] \in Tokens
            /\ tokens[i].start \in Nat /\ tokens[i].end \in Nat
            /\ tokens[i].kind \in Kinds
  <2>1. tokens \in Seq(Tokens) /\ Len(tokens) \in Nat
    BY LenProperties DEF RenderIInv, RenderTypeOK
  <2>2. \A i \in 1 .. Len(tokens) : tokens[i] \in Tokens
    BY <2>1, ElementOfSeq
  <2>3. QED
    BY <2>1, <2>2 DEF RenderIInv, RenderTypeOK, Tokens
<1>1. CASE Process
  <2>1. ByStart(tokens)' /\ tokens' \in Seq(Tokens)
    BY <1>1, SortedTokens DEF Process, SortedOrders, ByStart
  <2>2. Len(tokens') \in Nat /\ next' = 1 /\ cursor' = 0
    BY <1>1, <2>1, LenProperties DEF Process
  <2>3. QED
    BY <2>1, <2>2
       DEF OverlapInv, PassedBefore, LastShown, NextInRange, LosesOnlyToOverlap
<1>2. CASE RenderPlain
  BY <1>2 DEF RenderPlain, OverlapInv, PassedBefore, LastShown, NextInRange,
              LosesOnlyToOverlap, ByStart
<1>3. CASE RenderTail
  <2>1. Fragment(cursor, length, Plain) \in Fragments
    BY <1>0 DEF Fragment, Fragments
  <2>2. Grows
    BY <1>3, <2>1, AppendGrows DEF RenderTail
  <2>3. LosesOnlyToOverlap'
    BY <1>3, <2>2, LossesStay
       DEF RenderTail, LosesOnlyToOverlap, OverlapInv, Shown, Appears
  <2>4. QED
    BY <1>3, <2>3 DEF RenderTail, OverlapInv, PassedBefore, LastShown,
                      NextInRange, ByStart
<1>4. CASE RenderToken
  <2> DEFINE t == tokens[next]
  <2>1. /\ stage = "rendering" /\ color /\ next <= Len(tokens)
        /\ next' = next + 1
        /\ UNCHANGED <<length, color, tokens, stage>>
    BY <1>4 DEF RenderToken
  <2>2. /\ next \in 1 .. Len(tokens)
        /\ t.start \in Nat /\ t.end \in Nat /\ t.kind \in Kinds
    BY <1>0, <2>1
  <2>3. PassedBefore' /\ NextInRange'
    <3>1. ASSUME next + 1 <= Len(tokens), NEW j \in 1 .. next
          PROVE  tokens[j].start <= tokens[next + 1].start
      <4>1. t.start <= tokens[next + 1].start
        BY <1>0, <2>2, <3>1 DEF OverlapInv, PassedBefore, ByStart
      <4>2. tokens[j].start <= t.start
        BY <1>0, <2>1, <2>2 DEF OverlapInv, PassedBefore
      <4>3. tokens[j].start \in Nat /\ tokens[next + 1].start \in Nat
        BY <1>0, <2>2, <3>1
      <4>4. QED
        BY <2>2, <4>1, <4>2, <4>3
    <3>2. QED
      BY <1>0, <2>1, <3>1 DEF OverlapInv, PassedBefore, NextInRange, ByStart
  <2>4. ASSUME Grows,
               t.start < t.end /\ t.end <= length =>
                   \/ Appears(t, output')
                   \/ \E k \in 1 .. next - 1 :
                        /\ Appears(tokens[k], output')
                        /\ tokens[k].start <= t.start
                        /\ t.start < tokens[k].end
        PROVE  LosesOnlyToOverlap'
    <3>1. SUFFICES ASSUME NEW j \in 1 .. next,
                          tokens[j].start < tokens[j].end,
                          tokens[j].end <= length
                   PROVE  \/ Appears(tokens[j], output')
                          \/ \E k \in 1 .. j - 1 :
                              /\ Appears(tokens[k], output')
                              /\ tokens[k].start <= tokens[j].start
                              /\ tokens[j].start < tokens[k].end
      <4>1. 1 .. next' - 1 = 1 .. next
        BY <1>0, <2>1
      <4>2. tokens' = tokens /\ length' = length
        BY <2>1
      <4>3. \A j : Shown(tokens[j])' <=> Appears(tokens[j], output')
        BY <4>2 DEF Shown, Appears
      <4> HIDE DEF t
      <4>4. QED
        BY <4>1, <4>2, <4>3 DEF LosesOnlyToOverlap
    <3>2. CASE j = next
      <4>1. t.start < t.end /\ t.end <= length /\ tokens[j] = t
        BY <3>1, <3>2
      <4> HIDE DEF t
      <4>2. QED
        BY <2>4, <3>2, <4>1
    <3>3. CASE j \in 1 .. next - 1
      BY <2>1, <2>4, <3>1, <3>3, LossesStay DEF OverlapInv
    <3>4. QED
      BY <1>0, <3>2, <3>3
  <2>5. CASE Fits(t)
    <3> DEFINE gap == Fragment(cursor, t.start, Plain)
               shown == Fragment(t.start, t.end, t.kind)
    <3>1. output' = output \o <<gap, shown>> /\ cursor' = t.end
      BY <1>4, <2>5 DEF RenderToken
    <3>2. gap \in Fragments /\ shown \in Fragments
      BY <1>0, <2>2 DEF Fragment, Fragments
    <3>3. Grows /\ \E i \in DOMAIN output' : output'[i] = shown
      BY <3>1, <3>2, CopyGrows
    <3>4. Appears(t, output')
      BY <3>3 DEF Appears
    <3>5. LosesOnlyToOverlap'
      BY <2>4, <3>3, <3>4
    <3>6. LastShown'
      <4>1. next \in 1 .. next' - 1
        BY <2>1, <2>2
      <4>2. tokens'[next] = t
        BY <2>1
      <4>3. /\ \E i \in DOMAIN output' : output'[i] = Fragment(t.start, t.end, t.kind)
            /\ t.end = cursor'
        BY <3>1, <3>4 DEF Appears
      <4> HIDE DEF t
      <4>4. /\ \E i \in DOMAIN output' :
                  output'[i] = Fragment(tokens'[next].start, tokens'[next].end,
                                        tokens'[next].kind)
            /\ tokens'[next].end = cursor'
        BY <4>2, <4>3
      <4>5. QED
        BY <4>1, <4>4 DEF LastShown, Shown
    <3>7. QED
      BY <2>3, <3>5, <3>6 DEF OverlapInv
  <2>6. CASE ~Fits(t)
    <3>1. UNCHANGED <<output, cursor>>
      BY <1>4, <2>6 DEF RenderToken
    <3>2. Grows
      BY <3>1 DEF Grows
    <3>3. LastShown'
      BY <1>0, <2>1, <3>1 DEF OverlapInv, LastShown, Shown
    <3>4. ASSUME t.start < t.end, t.end <= length
          PROVE  \E k \in 1 .. next - 1 :
                    /\ Appears(tokens[k], output')
                    /\ tokens[k].start <= t.start
                    /\ t.start < tokens[k].end
      <4>1. t.start < cursor /\ cursor > 0
        BY <1>0, <2>2, <2>6, <3>4 DEF Fits
      <4>2. PICK k \in 1 .. next - 1 :
                Shown(tokens[k]) /\ tokens[k].end = cursor
        BY <2>1, <4>1 DEF OverlapInv, LastShown
      <4>3. tokens[k].start <= t.start
        BY <2>1, <4>2 DEF OverlapInv, PassedBefore
      <4>4. Appears(tokens[k], output')
        BY <2>1, <3>1, <4>2 DEF Shown, Appears
      <4>5. QED
        BY <4>1, <4>2, <4>3, <4>4
    <3>5. LosesOnlyToOverlap'
      BY <2>4, <3>2, <3>4
    <3>6. QED
      BY <2>3, <3>3, <3>5 DEF OverlapInv
  <2>7. QED
    BY <2>5, <2>6
<1>5. CASE UNCHANGED renderVars
  BY <1>5 DEF renderVars, OverlapInv, PassedBefore, LastShown, NextInRange,
              LosesOnlyToOverlap, ByStart, Shown
<1>6. QED
  BY <1>1, <1>2, <1>3, <1>4, <1>5 DEF RenderNext

(* A token inside the line goes without color only where a shown one       *)
(* covers its start: the sort, and that a shown token moves the cursor to  *)
(* its end, are what this rests on.                                        *)
THEOREM LostOnlyToOverlap == RenderSpec => []LosesOnlyToOverlap
<1>1. OverlapInv => LosesOnlyToOverlap
  BY DEF OverlapInv
<1>2. QED
  BY <1>1, InitRenderIInv, NextRenderIInv, InitOverlap, NextOverlap, PTL DEF RenderSpec

-----------------------------------------------------------------------------
(* The vector file.                                                        *)

VectorTypes == [run : {"new", "old", "foreign"}, n : Nat, phase : Phases]
CellTypes == [of : VectorTypes, part : {1, 2}]
EncodedTypes == [vector : VectorTypes, phase : Phases,
                 event : Events \cup {NoEvent}]

NewVectors == <<Header("new")>> \o EncodedVectors
HeldVectors == <<Header("old")>> \o OldVectorSeq

(* f is a beginning of the file that holds these vectors.                  *)
Begins(f, vectors) ==
    /\ Len(f) <= 2 * Len(vectors)
    /\ \A k \in 1 .. Len(vectors) :
          /\ 2 * k - 1 <= Len(f) => f[2 * k - 1] = Cells(vectors[k])[1]
          /\ 2 * k <= Len(f) => f[2 * k] = Cells(vectors[k])[2]

(* The encoder has not created the file yet.                               *)
Untouched ==
    /\ wpc \in {"start", "exit1", "crashed"}
    /\ file \in {<< >>, OldFile, ForeignFile}
    /\ encoded = << >> /\ vectorsWritten = 0

(* What is in the file when the encoder is at this place.                  *)
Written ==
    /\ Begins(file, NewVectors)
    /\ wpc # "start"
    /\ wpc = "write_first" => /\ Len(file) = 2 * Len(encoded)
                              /\ encoded = << >> => vectorsWritten = 0
                              /\ encoded # << >> =>
                                    vectorsWritten = Len(encoded) - 1
    /\ wpc = "write_rest" => /\ Len(file) = 2 * Len(encoded) + 1
                             /\ encoded = << >> => vectorsWritten = 0
                             /\ encoded # << >> =>
                                   vectorsWritten = Len(encoded) - 1
    /\ wpc \in {"reading", "exit0"} => /\ Len(file) = 2 * Len(encoded) + 2
                                       /\ vectorsWritten = Len(encoded)
    /\ vectorsWritten > 0 => Len(file) >= 2 + 2 * vectorsWritten

EncoderInv ==
    /\ file \in Seq(CellTypes)
    /\ encoded \in Seq(EncodedTypes)
    /\ verifier \in Phases
    /\ wpc \in {"start", "write_first", "write_rest", "reading"} \cup WriterEnds
    /\ vectorsWritten \in Nat
    /\ \A i \in 1 .. Len(encoded) : encoded[i].vector.n = i
    /\ vector = NewVectors[Len(encoded) + 1]
    /\ Untouched \/ Written

(* The decoder has printed a beginning of these vectors, after the header. *)
Printed(vectors) ==
    /\ Len(decoded) + 1 <= Len(vectors)
    /\ \A i \in 1 .. Len(decoded) :
          decoded[i] = [first |-> vectors[i + 1], rest |-> vectors[i + 1]]

(* The decoder is inside a file that is the one it opened.                 *)
Reads ==
    \/ Untouched /\ file = OldFile /\ Printed(HeldVectors)
    \/ Written /\ Printed(NewVectors)

DecoderInv ==
    /\ decoded \in Seq([first : VectorTypes, rest : VectorTypes])
    /\ rpc \in {"closed", "header"} => decoded = << >>
    /\ Printed(HeldVectors) \/ Printed(NewVectors)
    /\ rpc \in {"header", "mid"} =>
          offset \in 1 .. Len(file) /\ first = <<file[offset]>>
    /\ rpc = "header" => offset = 1
    /\ rpc = "open" => offset = 2 * Len(decoded) + 2 /\ offset <= Len(file)
    /\ rpc = "mid" => offset = 2 * Len(decoded) + 3
    /\ rpc \in {"open", "mid"} => Reads

VectorInv == EncoderInv /\ (~overtaken => DecoderInv)

(* A header in front of a sequence of vectors.                             *)
LEMMA Headed ==
    ASSUME NEW h \in VectorTypes, NEW s \in Seq(VectorTypes)
    PROVE  LET all == <<h>> \o s
           IN  /\ all \in Seq(VectorTypes)
               /\ Len(all) = Len(s) + 1
               /\ all[1] = h
               /\ \A k \in 1 .. Len(s) : all[k + 1] = s[k]
<1>1. <<h>> \in Seq(VectorTypes) /\ Len(<<h>>) = 1 /\ <<h>>[1] = h
  OBVIOUS
<1>2. Len(s) \in Nat
  BY LenProperties
<1>3. /\ <<h>> \o s \in Seq(VectorTypes)
      /\ Len(<<h>> \o s) = 1 + Len(s)
      /\ \A i \in 1 .. 1 + Len(s) :
            (<<h>> \o s)[i] = IF i <= 1 THEN <<h>>[i] ELSE s[i - 1]
  BY <1>1, ConcatProperties
<1>4. \A k \in 1 .. Len(s) : (<<h>> \o s)[k + 1] = s[(k + 1) - 1]
  BY <1>2, <1>3
<1>5. \A k \in 1 .. Len(s) : (k + 1) - 1 = k
  BY <1>2
<1>6. QED
  BY <1>1, <1>2, <1>3, <1>4, <1>5

LEMMA HeaderType == \A run \in {"new", "old", "foreign"} : Header(run) \in VectorTypes
BY DEF Header, Vector, VectorTypes, Phases, Cold, Ready

LEMMA VectorsOf ==
    ASSUME NEW notes \in Seq(EncodedTypes)
    PROVE  LET some == [i \in DOMAIN notes |-> notes[i].vector]
               all == <<Header("new")>> \o some
           IN  /\ all \in Seq(VectorTypes)
               /\ Len(all) = Len(notes) + 1
               /\ all[1] = Header("new")
               /\ \A k \in 1 .. Len(notes) : all[k + 1] = notes[k].vector
               /\ some \in Seq(VectorTypes)
               /\ Len(some) = Len(notes)
               /\ \A k \in 1 .. Len(notes) : some[k] = notes[k].vector
<1> DEFINE some == [i \in DOMAIN notes |-> notes[i].vector]
<1>1. /\ Len(notes) \in Nat /\ DOMAIN notes = 1 .. Len(notes)
      /\ \A k \in 1 .. Len(notes) : notes[k] \in EncodedTypes
  BY LenProperties, ElementOfSeq
<1>2. /\ some \in Seq(VectorTypes)
      /\ Len(some) = Len(notes)
      /\ \A k \in 1 .. Len(notes) : some[k] = notes[k].vector
  BY <1>1 DEF EncodedTypes
<1>3. QED
  BY <1>2, Headed, HeaderType

LEMMA NewAre ==
    ASSUME encoded \in Seq(EncodedTypes)
    PROVE  /\ NewVectors \in Seq(VectorTypes)
           /\ Len(NewVectors) = Len(encoded) + 1
           /\ NewVectors[1] = Header("new")
           /\ \A k \in 1 .. Len(encoded) : NewVectors[k + 1] = encoded[k].vector
           /\ EncodedVectors \in Seq(VectorTypes)
           /\ Len(EncodedVectors) = Len(encoded)
           /\ \A k \in 1 .. Len(encoded) : EncodedVectors[k] = encoded[k].vector
BY VectorsOf DEF NewVectors, EncodedVectors

LEMMA HeldAre ==
    /\ HeldVectors \in Seq(VectorTypes)
    /\ Len(HeldVectors) = OldVectors + 1
    /\ HeldVectors[1] = Header("old")
    /\ \A k \in 1 .. OldVectors : HeldVectors[k + 1] = OldVectorSeq[k]
    /\ OldVectorSeq \in Seq(VectorTypes)
    /\ Len(OldVectorSeq) = OldVectors
<1>1. OldVectors \in Nat
  BY FileAssumption
<1>2. \A k \in 1 .. OldVectors : Vector("old", k, Cold) \in VectorTypes
  BY <1>1 DEF Vector, VectorTypes, Phases, Cold, Ready
<1>3. OldVectorSeq \in Seq(VectorTypes) /\ Len(OldVectorSeq) = OldVectors
  BY <1>1, <1>2 DEF OldVectorSeq
<1>4. QED
  BY <1>3, Headed, HeaderType DEF HeldVectors

LEMMA CellsAre ==
    ASSUME NEW v \in VectorTypes
    PROVE  /\ Cells(v)[1] = [of |-> v, part |-> 1] /\ Cells(v)[1] \in CellTypes
           /\ Cells(v)[2] = [of |-> v, part |-> 2] /\ Cells(v)[2] \in CellTypes
           /\ Cells(v) \in Seq(CellTypes) /\ Len(Cells(v)) = 2
BY DEF Cells, CellTypes

(* Places in a file are the first or the second cell of a record.          *)
LEMMA Halves ==
    ASSUME NEW n \in Nat, NEW i \in 1 .. 2 * n
    PROVE  \E k \in 1 .. n : \/ i = 2 * k - 1 /\ (i + 1) \div 2 = k /\ i % 2 = 1
                             \/ i = 2 * k /\ (i + 1) \div 2 = k /\ i % 2 = 0
<1> DEFINE k == (i + 1) \div 2
<1>1. k \in 1 .. n /\ (i = 2 * k - 1 \/ i = 2 * k)
  OBVIOUS
<1>2. i % 2 = IF i = 2 * k THEN 0 ELSE 1
  OBVIOUS
<1>3. QED
  BY <1>1, <1>2

LEMMA ContentsAre ==
    ASSUME NEW vectors \in Seq(VectorTypes)
    PROVE  /\ Contents(vectors) \in Seq(CellTypes)
           /\ Len(Contents(vectors)) = 2 * Len(vectors)
           /\ Begins(Contents(vectors), vectors)
<1> DEFINE n == Len(vectors)
           f == Contents(vectors)
<1>1. n \in Nat /\ \A k \in 1 .. n : vectors[k] \in VectorTypes
  BY LenProperties, ElementOfSeq
<1>2. f = [i \in 1 .. 2 * n |-> Cells(vectors[(i + 1) \div 2])[2 - (i % 2)]]
  BY DEF Contents
<1> HIDE DEF f, n
<1>3. \A k \in 1 .. n : /\ 2 * k - 1 \in 1 .. 2 * n /\ 2 * k \in 1 .. 2 * n
                        /\ ((2 * k - 1) + 1) \div 2 = k /\ (2 * k - 1) % 2 = 1
                        /\ (2 * k + 1) \div 2 = k /\ (2 * k) % 2 = 0
  BY <1>1
<1>4. \A k \in 1 .. n : /\ f[2 * k - 1] = Cells(vectors[k])[1]
                        /\ f[2 * k] = Cells(vectors[k])[2]
  <2>1. SUFFICES ASSUME NEW k \in 1 .. n
                 PROVE  /\ f[2 * k - 1] = Cells(vectors[k])[1]
                        /\ f[2 * k] = Cells(vectors[k])[2]
    OBVIOUS
  <2>2. f[2 * k - 1] = Cells(vectors[((2 * k - 1) + 1) \div 2])[2 - ((2 * k - 1) % 2)]
    BY <1>2, <1>3
  <2>3. f[2 * k] = Cells(vectors[(2 * k + 1) \div 2])[2 - ((2 * k) % 2)]
    BY <1>2, <1>3
  <2>4. 2 - 1 = 1 /\ 2 - 0 = 2
    OBVIOUS
  <2>5. QED
    BY <1>3, <2>2, <2>3, <2>4
<1>5. \A i \in 1 .. 2 * n : f[i] \in CellTypes
  <2>1. SUFFICES ASSUME NEW i \in 1 .. 2 * n PROVE f[i] \in CellTypes
    OBVIOUS
  <2>2. PICK k \in 1 .. n : i = 2 * k - 1 \/ i = 2 * k
    BY <1>1, Halves
  <2>3. Cells(vectors[k])[1] \in CellTypes /\ Cells(vectors[k])[2] \in CellTypes
    BY <1>1, CellsAre
  <2>4. QED
    BY <1>4, <2>2, <2>3
<1>6. f \in Seq(CellTypes) /\ Len(f) = 2 * n
  BY <1>1, <1>2, <1>5
<1>7. QED
  BY <1>4, <1>6 DEF Begins, f, n

LEMMA BeginsWhole ==
    ASSUME NEW f \in Seq(CellTypes), NEW vectors \in Seq(VectorTypes),
           Begins(f, vectors), Len(f) = 2 * Len(vectors)
    PROVE  f = Contents(vectors)
<1> DEFINE n == Len(vectors)
           g == Contents(vectors)
<1>1. n \in Nat
  BY LenProperties
<1>2. g \in Seq(CellTypes) /\ Len(g) = 2 * n /\ Begins(g, vectors)
  BY ContentsAre
<1> HIDE DEF n, g
<1>3. \A k \in 1 .. n : f[2 * k - 1] = g[2 * k - 1] /\ f[2 * k] = g[2 * k]
  BY <1>1, <1>2 DEF Begins, n
<1>4. \A i \in 1 .. 2 * n : f[i] = g[i]
  BY <1>1, <1>3, Halves
<1>5. f = g
  BY <1>2, <1>4, SeqEqual DEF n
<1>6. QED
  BY <1>5 DEF g

(* One more cell.                                                          *)
LEMMA BeginsOn ==
    ASSUME NEW f \in Seq(CellTypes), NEW vectors \in Seq(VectorTypes),
           Begins(f, vectors),
           NEW k \in 1 .. Len(vectors), NEW p \in {1, 2},
           Len(f) + 1 = 2 * (k - 1) + p
    PROVE  LET g == Append(f, Cells(vectors[k])[p])
           IN  g \in Seq(CellTypes) /\ Len(g) = Len(f) + 1 /\ Begins(g, vectors)
<1> DEFINE n == Len(vectors)
           c == Cells(vectors[k])[p]
           g == Append(f, c)
<1>1. n \in Nat /\ Len(f) \in Nat /\ vectors[k] \in VectorTypes /\ k \in 1 .. n
  BY LenProperties, ElementOfSeq
<1>2. c \in CellTypes
  BY <1>1, CellsAre
<1>3. /\ g \in Seq(CellTypes) /\ Len(g) = Len(f) + 1
      /\ \A i \in 1 .. Len(f) : g[i] = f[i]
      /\ g[Len(f) + 1] = c
  BY <1>2, AppendProperties
<1>4. \A j \in 1 .. n : /\ 2 * j - 1 <= Len(f) => f[2 * j - 1] = Cells(vectors[j])[1]
                        /\ 2 * j <= Len(f) => f[2 * j] = Cells(vectors[j])[2]
  BY DEF Begins
<1>5. p = 1 => c = Cells(vectors[k])[1]
  OBVIOUS
<1>6. p = 2 => c = Cells(vectors[k])[2]
  OBVIOUS
<1> HIDE DEF n, c, g
<1>7. \A j \in 1 .. n : 2 * j - 1 <= Len(g) => g[2 * j - 1] = Cells(vectors[j])[1]
  <2>1. SUFFICES ASSUME NEW j \in 1 .. n, 2 * j - 1 <= Len(g)
                 PROVE  g[2 * j - 1] = Cells(vectors[j])[1]
    OBVIOUS
  <2>0. 2 * j - 1 <= Len(f) \/ 2 * j - 1 = Len(f) + 1
    <3>1. Len(f) \in Nat /\ Len(g) = Len(f) + 1 /\ j \in Int
      BY <1>1, <1>3
    <3>2. QED
      BY <2>1, <3>1
  <2>2. CASE 2 * j - 1 <= Len(f)
    <3>1. f[2 * j - 1] = Cells(vectors[j])[1]
      BY <1>4, <2>2
    <3>2. 2 * j - 1 \in 1 .. Len(f)
      BY <1>1, <2>2
    <3>3. QED
      BY <1>3, <3>1, <3>2
  <2>3. CASE 2 * j - 1 = Len(f) + 1
    <3>1. p = 1 /\ j = k
      BY <1>1, <2>3
    <3>2. QED
      BY <1>3, <1>5, <2>3, <3>1
  <2>4. QED
    BY <2>0, <2>2, <2>3
<1>8. \A j \in 1 .. n : 2 * j <= Len(g) => g[2 * j] = Cells(vectors[j])[2]
  <2>1. SUFFICES ASSUME NEW j \in 1 .. n, 2 * j <= Len(g)
                 PROVE  g[2 * j] = Cells(vectors[j])[2]
    OBVIOUS
  <2>0. 2 * j <= Len(f) \/ 2 * j = Len(f) + 1
    <3>1. Len(f) \in Nat /\ Len(g) = Len(f) + 1 /\ j \in Int
      BY <1>1, <1>3
    <3>2. QED
      BY <2>1, <3>1
  <2>2. CASE 2 * j <= Len(f)
    BY <1>1, <1>3, <1>4, <2>2
  <2>3. CASE 2 * j = Len(f) + 1
    <3>1. p = 2 /\ j = k
      BY <1>1, <2>3
    <3>2. QED
      BY <1>3, <1>6, <2>3, <3>1
  <2>4. QED
    BY <2>0, <2>2, <2>3
<1>9. Len(g) <= 2 * n
  BY <1>1, <1>3
<1>10. QED
  BY <1>3, <1>7, <1>8, <1>9 DEF Begins, n, g, c

(* The same file begins a longer sequence too.                             *)
LEMMA BeginsMore ==
    ASSUME NEW f \in Seq(CellTypes), NEW short \in Seq(VectorTypes),
           NEW long \in Seq(VectorTypes), Begins(f, short),
           Len(short) <= Len(long),
           \A k \in 1 .. Len(short) : long[k] = short[k]
    PROVE  Begins(f, long)
<1>1. Len(f) \in Nat /\ Len(short) \in Nat /\ Len(long) \in Nat
  BY LenProperties
<1>2. Len(f) <= 2 * Len(short)
  BY DEF Begins
<1>3. ASSUME NEW k \in 1 .. Len(long)
      PROVE  /\ 2 * k - 1 <= Len(f) => f[2 * k - 1] = Cells(long[k])[1]
             /\ 2 * k <= Len(f) => f[2 * k] = Cells(long[k])[2]
  <2>1. 2 * k - 1 <= Len(f) \/ 2 * k <= Len(f) => k \in 1 .. Len(short)
    BY <1>1, <1>2
  <2>2. k \in 1 .. Len(short) => long[k] = short[k]
    OBVIOUS
  <2>3. QED
    BY <2>1, <2>2 DEF Begins
<1>4. Len(f) <= 2 * Len(long)
  BY <1>1, <1>2
<1>5. QED
  BY <1>3, <1>4 DEF Begins

(* What the verifier makes of a record and what is recorded of it.         *)
LEMMA RecordedStep ==
    ASSUME verifier \in Phases, NEW event \in Events \cup {NoEvent}
    PROVE  /\ VerifierAfter(event) \in Phases
           /\ RecordedPhase(event) \in Phases
           /\ RecordedPhase(event) # Cold =>
                 /\ event # NoEvent
                 /\ RecordedPhase(event) = VerifierAfter(event)
                 /\ EventCode[event] + 1 = VerifierAfter(event)
<1> USE DEF Phases, Cold, Ready
<1>1. CASE verifying /\ event # NoEvent /\ ~Violates(verifier, event)
  BY <1>1, PhaseStep DEF VerifierAfter, RecordedPhase
<1>2. CASE ~(verifying /\ event # NoEvent /\ ~Violates(verifier, event))
  BY <1>2, PhaseStep DEF VerifierAfter, RecordedPhase
<1>3. QED
  BY <1>1, <1>2

LEMMA InitVectorInv == VectorInit => VectorInv
<1> SUFFICES ASSUME VectorInit PROVE VectorInv
  OBVIOUS
<1>1. /\ encoded \in Seq(EncodedTypes) /\ Len(encoded) = 0
      /\ decoded \in Seq([first : VectorTypes, rest : VectorTypes])
      /\ Len(decoded) = 0
  BY DEF VectorInit
<1>2. file \in Seq(CellTypes)
  <2>1. OldFile \in Seq(CellTypes)
    BY HeldAre, ContentsAre DEF OldFile, HeldVectors
  <2>2. ForeignFile \in Seq(CellTypes)
    BY HeaderType, CellsAre DEF ForeignFile
  <2>3. << >> \in Seq(CellTypes)
    OBVIOUS
  <2>4. QED
    BY <2>1, <2>2, <2>3 DEF VectorInit
<1>3. vector = NewVectors[Len(encoded) + 1] /\ Len(NewVectors) = 1
  BY <1>1, NewAre DEF VectorInit
<1>4. EncoderInv
  BY <1>1, <1>2, <1>3 DEF VectorInit, EncoderInv, Untouched, Phases, Cold, Ready
<1>5. DecoderInv
  BY <1>1, <1>3 DEF VectorInit, DecoderInv, Printed
<1>6. QED
  BY <1>4, <1>5 DEF VectorInv

EncoderSteps ==
    \/ Create \/ WriteFirst \/ WriteRest \/ Encode
    \/ FinishEncoding \/ EncodingFails \/ Crash
DecoderSteps == Open \/ ReadHeader \/ ReadFirst \/ ReadRest \/ DecodingFails

(* A vector more is encoded.                                               *)
LEMMA EncodeAdds ==
    ASSUME EncoderInv, Encode
    PROVE  /\ encoded' \in Seq(EncodedTypes)
           /\ verifier' \in Phases
           /\ Len(encoded') = Len(encoded) + 1
           /\ \A i \in 1 .. Len(encoded) : encoded'[i] = encoded[i]
           /\ vector' = encoded'[Len(encoded')].vector
           /\ vector'.n = Len(encoded')
           /\ LET new == encoded'[Len(encoded')]
              IN  new.vector.phase # Cold =>
                     /\ new.vector.phase = new.phase
                     /\ new.event # NoEvent
                     /\ EventCode[new.event] + 1 = new.phase
<1>1. PICK words \in LineWords :
         /\ verifier' = VerifierAfter(DetectEvent(words))
         /\ vector' = Vector("new", Len(encoded) + 1, RecordedPhase(DetectEvent(words)))
         /\ encoded' = Append(encoded, [vector |-> vector', phase |-> verifier',
                                        event |-> DetectEvent(words)])
  BY DEF Encode
<1> DEFINE event == DetectEvent(words)
           new == [vector |-> vector', phase |-> verifier', event |-> event]
<1>2. /\ event \in Events \cup {NoEvent} /\ verifier \in Phases
      /\ encoded \in Seq(EncodedTypes) /\ Len(encoded) \in Nat
  BY EventType, LenProperties DEF EncoderInv
<1>3. /\ verifier' \in Phases /\ RecordedPhase(event) \in Phases
      /\ RecordedPhase(event) # Cold =>
            /\ event # NoEvent /\ RecordedPhase(event) = verifier'
            /\ EventCode[event] + 1 = verifier'
  BY <1>1, <1>2, RecordedStep
<1> HIDE DEF event
<1>4. /\ new \in EncodedTypes /\ vector'.n = Len(encoded) + 1
      /\ vector'.phase = RecordedPhase(event)
  BY <1>1, <1>2, <1>3 DEF Vector, VectorTypes, EncodedTypes, event
<1>5. encoded' = Append(encoded, new)
  BY <1>1 DEF event
<1> HIDE DEF new
<1>6. /\ encoded' \in Seq(EncodedTypes) /\ Len(encoded') = Len(encoded) + 1
      /\ \A i \in 1 .. Len(encoded) : encoded'[i] = encoded[i]
      /\ encoded'[Len(encoded) + 1] = new
  BY <1>2, <1>4, <1>5, AppendProperties
<1>7. new.vector = vector' /\ new.phase = verifier' /\ new.event = event
  BY DEF new
<1>8. QED
  BY <1>3, <1>4, <1>6, <1>7

(* A phase is recorded only for the record whose event took the verifier   *)
(* there.                                                                  *)
LEMMA EarnedStays ==
    ASSUME EncoderInv, RecordedPhaseIsEarned, [VectorNext]_vectorVars
    PROVE  RecordedPhaseIsEarned'
<1>1. CASE Encode
  <2>1. /\ DOMAIN encoded = 1 .. Len(encoded) /\ Len(encoded) \in Nat
        /\ DOMAIN encoded' = 1 .. Len(encoded) + 1
    BY <1>1, EncodeAdds, LenProperties DEF EncoderInv
  <2>2. \A i \in 1 .. Len(encoded) + 1 : i \in 1 .. Len(encoded) \/ i = Len(encoded')
    BY <1>1, <2>1, EncodeAdds
  <2>3. QED
    BY <1>1, <2>1, <2>2, EncodeAdds DEF RecordedPhaseIsEarned
<1>2. CASE encoded' = encoded
  BY <1>2 DEF RecordedPhaseIsEarned
<1>3. QED
  BY <1>1, <1>2
     DEF VectorNext, vectorVars, encoderVars, Create, WriteFirst, WriteRest,
         FinishEncoding, EncodingFails, Crash, Open, ReadHeader, ReadFirst, ReadRest,
         DecodingFails

(* A step of the encoder keeps its invariant, and never takes a file that  *)
(* is being written for one that is not.                                   *)
LEMMA EncoderStep ==
    ASSUME EncoderInv, EncoderSteps
    PROVE  /\ EncoderInv'
           /\ Written => Written'
           /\ Untouched => Untouched' \/ Create
<1>0. /\ encoded \in Seq(EncodedTypes) /\ Len(encoded) \in Nat
      /\ DOMAIN encoded = 1 .. Len(encoded)
      /\ file \in Seq(CellTypes) /\ Len(file) \in Nat
      /\ vectorsWritten \in Nat
      /\ encoded = << >> <=> Len(encoded) = 0
  BY LenProperties, EmptySeq DEF EncoderInv
<1>1. /\ NewVectors \in Seq(VectorTypes)
      /\ Len(NewVectors) = Len(encoded) + 1
      /\ NewVectors[1] = Header("new")
      /\ \A k \in 1 .. Len(encoded) : NewVectors[k + 1] = encoded[k].vector
  BY <1>0, NewAre
<1> DEFINE n == Len(encoded)
           m == Len(file)
           all == Len(NewVectors)
<1>10. n \in Nat /\ m \in Nat /\ vectorsWritten \in Nat /\ all = n + 1
  BY <1>0, <1>1
<1>11. ASSUME NEW p \in {1, 2}, m = 2 * n + p - 1
       PROVE  n + 1 \in 1 .. all /\ m + 1 = 2 * ((n + 1) - 1) + p
  <2> HIDE DEF n, m, all
  <2>1. CASE p = 1
    BY <1>10, <1>11, <2>1
  <2>2. CASE p = 2
    BY <1>10, <1>11, <2>2
  <2>3. QED
    BY <2>1, <2>2
<1>2. CASE Create
  <2>1. /\ encoded = << >> /\ vectorsWritten = 0 /\ ~Written
    BY <1>2 DEF EncoderInv, Untouched, Written, Create
  <2>2. NewVectors' = NewVectors
    BY <1>2 DEF Create, NewVectors, EncodedVectors
  <2>3. file' \in Seq(CellTypes) /\ Len(file') = 0
    BY <1>2 DEF Create
  <2>4. Begins(file', NewVectors)
    BY <1>0, <1>1, <2>1, <2>3 DEF Begins
  <2>5. Written'
    BY <1>0, <1>2, <2>1, <2>2, <2>3, <2>4 DEF Create, Written
  <2>6. QED
    BY <1>2, <2>1, <2>2, <2>3, <2>5 DEF Create, EncoderInv
<1>3. CASE WriteFirst
  <2>1. ~Untouched /\ Written
    BY <1>3 DEF EncoderInv, Untouched, WriteFirst
  <2>2. /\ Len(file) = 2 * Len(encoded) /\ Begins(file, NewVectors)
        /\ encoded = << >> => vectorsWritten = 0
        /\ encoded # << >> => vectorsWritten = Len(encoded) - 1
    BY <1>3, <2>1 DEF Written, WriteFirst
  <2>3. NewVectors' = NewVectors
    BY <1>3 DEF WriteFirst, NewVectors, EncodedVectors
  <2>4. file' = Append(file, Cells(NewVectors[Len(encoded) + 1])[1])
    BY <1>3 DEF WriteFirst, EncoderInv
  <2>5. file' \in Seq(CellTypes) /\ Len(file') = Len(file) + 1 /\ Begins(file', NewVectors)
    <3>1. /\ Len(encoded) + 1 \in 1 .. Len(NewVectors)
          /\ Len(file) + 1 = 2 * ((Len(encoded) + 1) - 1) + 1
      <4>1. m = 2 * n + 1 - 1
        BY <1>10, <2>2
      <4>2. QED
        BY <1>11, <4>1
    <3>2. QED
      BY <1>0, <1>1, <2>2, <2>4, <3>1, BeginsOn
  <2>6. Len(file') >= 2 * Len(encoded) + 1 /\ Len(file') = 2 * Len(encoded) + 1
    BY <1>10, <2>2, <2>5
  <2>7. vectorsWritten > 0 => Len(file') >= 2 + 2 * vectorsWritten
    <3>1. vectorsWritten = 0 \/ vectorsWritten = n - 1
      BY <2>2
    <3>2. QED
      BY <1>10, <2>6, <3>1
  <2>8. Written'
    BY <1>3, <2>2, <2>3, <2>5, <2>6, <2>7 DEF WriteFirst, Written
  <2>9. QED
    BY <1>3, <2>1, <2>3, <2>5, <2>8 DEF WriteFirst, EncoderInv
<1>4. CASE WriteRest
  <2>1. ~Untouched /\ Written
    BY <1>4 DEF EncoderInv, Untouched, WriteRest
  <2>2. /\ Len(file) = 2 * Len(encoded) + 1 /\ Begins(file, NewVectors)
        /\ encoded = << >> => vectorsWritten = 0
        /\ encoded # << >> => vectorsWritten = Len(encoded) - 1
    BY <1>4, <2>1 DEF Written, WriteRest
  <2>3. NewVectors' = NewVectors
    BY <1>4 DEF WriteRest, NewVectors, EncodedVectors
  <2>4. file' = Append(file, Cells(NewVectors[Len(encoded) + 1])[2])
    BY <1>4 DEF WriteRest, EncoderInv
  <2>5. file' \in Seq(CellTypes) /\ Len(file') = Len(file) + 1 /\ Begins(file', NewVectors)
    <3>1. /\ Len(encoded) + 1 \in 1 .. Len(NewVectors)
          /\ Len(file) + 1 = 2 * ((Len(encoded) + 1) - 1) + 2
      <4>1. m = 2 * n + 2 - 1
        BY <1>10, <2>2
      <4>2. QED
        BY <1>11, <4>1
    <3>2. QED
      BY <1>0, <1>1, <2>2, <2>4, <3>1, BeginsOn
  <2>6. vectorsWritten' = Len(encoded)
    <3>1. CASE encoded = << >>
      <4>1. vector.n = 0
        BY <1>0, <1>1, <3>1 DEF EncoderInv, Header, Vector
      <4>2. QED
        BY <1>0, <1>4, <2>2, <3>1, <4>1 DEF WriteRest
    <3>2. CASE encoded # << >>
      <4>1. vector.n = Len(encoded)
        BY <1>0, <1>1, <3>2 DEF EncoderInv
      <4>2. QED
        <5>1. vectorsWritten = n - 1 /\ n # 0
          BY <1>0, <2>2, <3>2
        <5>2. vectorsWritten' = vectorsWritten + 1
          BY <1>4, <4>1, <5>1 DEF WriteRest
        <5>3. QED
          BY <1>10, <5>1, <5>2
    <3>3. QED
      BY <3>1, <3>2
  <2>7. Len(file') = 2 * Len(encoded) + 2 /\ Len(file') >= 2 + 2 * Len(encoded)
    BY <1>10, <2>2, <2>5
  <2>8. Written'
    BY <1>4, <2>3, <2>5, <2>6, <2>7 DEF WriteRest, Written
  <2>9. QED
    BY <1>0, <1>4, <2>1, <2>3, <2>5, <2>6, <2>8 DEF WriteRest, EncoderInv
<1>5. CASE Encode
  <2>1. ~Untouched /\ Written
    BY <1>5 DEF EncoderInv, Untouched, Encode
  <2>2. /\ Len(file) = 2 * Len(encoded) + 2 /\ vectorsWritten = Len(encoded)
        /\ Begins(file, NewVectors)
        /\ vectorsWritten > 0 => Len(file) >= 2 + 2 * vectorsWritten
    BY <1>5, <2>1 DEF Written, Encode
  <2>3. /\ encoded' \in Seq(EncodedTypes) /\ verifier' \in Phases
        /\ Len(encoded') = Len(encoded) + 1
        /\ \A i \in 1 .. Len(encoded) : encoded'[i] = encoded[i]
        /\ vector' = encoded'[Len(encoded')].vector
        /\ vector'.n = Len(encoded')
    BY <1>5, EncodeAdds
  <2>4. /\ NewVectors' \in Seq(VectorTypes)
        /\ Len(NewVectors') = Len(encoded') + 1
        /\ NewVectors'[1] = Header("new")
        /\ \A k \in 1 .. Len(encoded') : NewVectors'[k + 1] = encoded'[k].vector
    <3>1. NewVectors' = <<Header("new")>>
                            \o [i \in DOMAIN encoded' |-> encoded'[i].vector]
      BY DEF NewVectors, EncodedVectors
    <3>2. QED
      BY <2>3, <3>1, VectorsOf
  <2>5. \A k \in 1 .. Len(NewVectors) : NewVectors'[k] = NewVectors[k]
    <3>1. SUFFICES ASSUME NEW k \in 1 .. Len(NewVectors)
                   PROVE  NewVectors'[k] = NewVectors[k]
      OBVIOUS
    <3>2. CASE k = 1
      BY <1>1, <2>4, <3>2
    <3>3. CASE k # 1
      <4>1. k - 1 \in 1 .. Len(encoded) /\ k - 1 \in 1 .. Len(encoded') /\ k = (k - 1) + 1
        BY <1>0, <1>1, <2>3, <3>1, <3>3
      <4>2. QED
        BY <1>1, <2>3, <2>4, <4>1
    <3>4. QED
      BY <3>2, <3>3
  <2>6. file' = file /\ vectorsWritten' = vectorsWritten /\ wpc' = "write_first"
    BY <1>5 DEF Encode
  <2>7. Begins(file', NewVectors')
    <3>1. Len(NewVectors) <= Len(NewVectors')
      BY <1>10, <2>3, <2>4
    <3>2. QED
      BY <1>0, <1>1, <2>2, <2>4, <2>5, <2>6, <3>1, BeginsMore
  <2>8. Len(file') = 2 * Len(encoded') /\ vectorsWritten' = Len(encoded') - 1
        /\ encoded' # << >>
    BY <1>0, <2>2, <2>3, <2>6
  <2>9. Written'
    BY <2>2, <2>6, <2>7, <2>8 DEF Written
  <2>10. vector' = NewVectors'[Len(encoded') + 1]
    <3>1. Len(encoded') \in 1 .. Len(encoded')
      BY <1>10, <2>3
    <3>2. NewVectors'[Len(encoded') + 1] = encoded'[Len(encoded')].vector
      BY <2>4, <3>1
    <3>3. QED
      BY <2>3, <3>2
  <2>11. \A i \in 1 .. Len(encoded') : encoded'[i].vector.n = i
    BY <1>0, <2>3 DEF EncoderInv
  <2>12. QED
    BY <1>0, <2>1, <2>3, <2>6, <2>9, <2>10, <2>11 DEF EncoderInv
<1>6. CASE FinishEncoding \/ EncodingFails \/ Crash
  <2>1. /\ UNCHANGED <<file, verifier, vector, vectorsWritten, encoded>>
        /\ wpc' \in WriterEnds /\ wpc # "exit0"
        /\ wpc' = "exit0" => wpc = "reading"
    BY <1>6 DEF FinishEncoding, EncodingFails, Crash, WriterEnds
  <2>2. NewVectors' = NewVectors
    BY <2>1 DEF NewVectors, EncodedVectors
  <2>3. Written => Written'
    BY <2>1, <2>2 DEF Written, WriterEnds
  <2>4. Untouched => Untouched'
    BY <2>1 DEF Untouched, WriterEnds
  <2>5. QED
    BY <2>1, <2>2, <2>3, <2>4 DEF EncoderInv
<1>7. QED
  BY <1>2, <1>3, <1>4, <1>5, <1>6 DEF EncoderSteps

(* A file the decoder can be inside is a beginning of some vectors.        *)
LEMMA ReadsBegins ==
    ASSUME EncoderInv, Reads
    PROVE  \E vectors \in {HeldVectors, NewVectors} :
              /\ vectors \in Seq(VectorTypes)
              /\ Begins(file, vectors) /\ Printed(vectors)
<1>1. CASE Untouched /\ file = OldFile /\ Printed(HeldVectors)
  BY <1>1, HeldAre, ContentsAre DEF OldFile, HeldVectors
<1>2. CASE Written /\ Printed(NewVectors)
  BY <1>2, NewAre DEF EncoderInv, Written
<1>3. QED
  BY <1>1, <1>2 DEF Reads

(* What the encoder does beside a decoder only adds to what it reads.      *)
LEMMA DecoderBesideEncoder ==
    ASSUME EncoderInv, ~overtaken => DecoderInv, EncoderSteps, ~overtaken'
    PROVE  DecoderInv'
<1>1. UNCHANGED <<rpc, offset, first, decoded>>
  BY DEF EncoderSteps, decoderVars, Create, WriteFirst, WriteRest, Encode,
         FinishEncoding, EncodingFails, Crash
<1>2. DecoderInv
  BY DEF EncoderSteps, Create, WriteFirst, WriteRest, Encode,
         FinishEncoding, EncodingFails, Crash
<1>3. /\ encoded \in Seq(EncodedTypes) /\ Len(encoded) \in Nat
      /\ file \in Seq(CellTypes) /\ Len(file) \in Nat
      /\ Len(decoded) \in Nat
  BY <1>2, LenProperties DEF EncoderInv, DecoderInv
<1>4. Printed(NewVectors) => Printed(NewVectors)'
  <2>1. CASE Encode
    <3>1. /\ encoded' \in Seq(EncodedTypes) /\ Len(encoded') = Len(encoded) + 1
          /\ \A i \in 1 .. Len(encoded) : encoded'[i] = encoded[i]
      BY <2>1, EncodeAdds
    <3>2. NewVectors' = <<Header("new")>>
                            \o [i \in DOMAIN encoded' |-> encoded'[i].vector]
      BY DEF NewVectors, EncodedVectors
    <3>3. /\ Len(NewVectors') = Len(encoded') + 1
          /\ \A k \in 1 .. Len(encoded') : NewVectors'[k + 1] = encoded'[k].vector
      BY <3>1, <3>2, VectorsOf
    <3>4. /\ Len(NewVectors) = Len(encoded) + 1
          /\ \A k \in 1 .. Len(encoded) : NewVectors[k + 1] = encoded[k].vector
      BY <1>3, NewAre
    <3>5. ASSUME Printed(NewVectors) PROVE Printed(NewVectors)'
      <4>1. Len(decoded) <= Len(encoded) /\ Len(decoded) + 1 <= Len(NewVectors')
        BY <1>3, <3>1, <3>3, <3>4, <3>5 DEF Printed
      <4>2. \A i \in 1 .. Len(decoded) :
               i \in 1 .. Len(encoded) /\ i \in 1 .. Len(encoded')
        BY <1>3, <3>1, <4>1
      <4>3. \A i \in 1 .. Len(decoded) : NewVectors'[i + 1] = NewVectors[i + 1]
        BY <3>1, <3>3, <3>4, <4>2
      <4>4. QED
        BY <1>1, <3>5, <4>1, <4>3 DEF Printed
    <3>6. QED
      BY <3>5
  <2>2. CASE encoded' = encoded
    BY <1>1, <2>2 DEF Printed, NewVectors, EncodedVectors
  <2>3. QED
    BY <2>1, <2>2 DEF EncoderSteps, Create, WriteFirst, WriteRest,
                      FinishEncoding, EncodingFails, Crash
<1>5. Printed(HeldVectors) => Printed(HeldVectors)'
  BY <1>1 DEF Printed, HeldVectors, OldVectorSeq
<1>6. CASE Create
  <2>1. rpc \notin {"open", "mid", "header"}
    BY <1>6 DEF Create
  <2>2. QED
    BY <1>1, <1>2, <1>4, <1>5, <2>1 DEF DecoderInv
<1>7. CASE ~Create
  <2>1. Reads => Reads'
    <3>1. (Written => Written') /\ (Untouched => Untouched')
      BY <1>7, EncoderStep
    <3>2. Untouched => file' = file
      BY <1>7 DEF Untouched, EncoderSteps, WriteFirst, WriteRest, Encode,
                  FinishEncoding, EncodingFails, Crash
    <3>3. OldFile' = OldFile
      BY DEF OldFile, OldVectorSeq
    <3>4. QED
      BY <1>4, <1>5, <3>1, <3>2, <3>3 DEF Reads
  <2>2. /\ Len(file') \in Nat /\ Len(file) <= Len(file')
        /\ \A i \in 1 .. Len(file) : file'[i] = file[i]
    <3>1. CASE file' = file
      BY <1>3, <3>1
    <3>2. CASE \E c : file' = Append(file, c)
      <4>1. PICK c : file' = Append(file, c)
        BY <3>2
      <4>2. file \in Seq(CellTypes \cup {c}) /\ c \in CellTypes \cup {c}
        BY <1>3
      <4>3. /\ Len(file') = Len(file) + 1
            /\ \A i \in 1 .. Len(file) : file'[i] = file[i]
        BY <4>1, <4>2, AppendProperties
      <4>4. QED
        BY <1>3, <4>3
    <3>3. QED
      BY <1>7, <3>1, <3>2 DEF EncoderSteps, WriteFirst, WriteRest, Encode,
                              FinishEncoding, EncodingFails, Crash
  <2>3. ASSUME offset \in 1 .. Len(file)
        PROVE  offset \in 1 .. Len(file') /\ file'[offset] = file[offset]
    BY <1>3, <2>2, <2>3
  <2>4. ASSUME offset = 2 * Len(decoded) + 2, offset <= Len(file)
        PROVE  offset <= Len(file')
    BY <1>3, <2>2, <2>4
  <2>5. QED
    BY <1>1, <1>2, <1>4, <1>5, <2>1, <2>3, <2>4 DEF DecoderInv
<1>8. QED
  BY <1>6, <1>7

(* A step of the decoder.                                                  *)
LEMMA DecoderStep ==
    ASSUME EncoderInv, DecoderInv, DecoderSteps
    PROVE  DecoderInv'
<1>1. UNCHANGED <<file, wpc, verifying, verifier, vector, vectorsWritten, encoded>>
  BY DEF DecoderSteps, Open, ReadHeader, ReadFirst, ReadRest, DecodingFails,
         encoderVars
<1>2. /\ file \in Seq(CellTypes) /\ Len(file) \in Nat
      /\ Len(decoded) \in Nat
      /\ decoded \in Seq([first : VectorTypes, rest : VectorTypes])
  BY LenProperties DEF EncoderInv, DecoderInv
<1>3. /\ NewVectors' = NewVectors /\ HeldVectors' = HeldVectors
      /\ OldFile' = OldFile
      /\ Written' <=> Written
      /\ Untouched' <=> Untouched
  BY <1>1 DEF NewVectors, EncodedVectors, HeldVectors, OldVectorSeq, OldFile,
              Written, Untouched
<1>4. ASSUME NEW i
      PROVE  /\ i <= Len(file) => /\ CellAt(i) = <<file[i]>> /\ CellAt(i)[1] = file[i]
                                  /\ Len(CellAt(i)) = 1 /\ CellAt(i) # << >>
             /\ ~(i <= Len(file)) => CellAt(i) = << >>
  BY DEF CellAt
<1>5. ASSUME decoded' = decoded
      PROVE  /\ Printed(NewVectors)' <=> Printed(NewVectors)
             /\ Printed(HeldVectors)' <=> Printed(HeldVectors)
             /\ Reads' <=> Reads
  <2>1. /\ Printed(NewVectors)' <=> Printed(NewVectors)
        /\ Printed(HeldVectors)' <=> Printed(HeldVectors)
    BY <1>3, <1>5 DEF Printed
  <2>2. QED
    BY <1>1, <1>3, <2>1 DEF Reads
<1>6. CASE Open
  <2>1. decoded' = decoded /\ first' = CellAt(1) /\ offset' = Len(first')
        /\ rpc' = (IF first' = << >> THEN "truncated" ELSE "header")
        /\ rpc = "closed"
    BY <1>6 DEF Open
  <2>2. CASE 1 <= Len(file)
    <3>1. first' = <<file[1]>> /\ offset' = 1 /\ rpc' = "header"
      BY <1>4, <2>1, <2>2
    <3>2. offset' \in 1 .. Len(file') /\ first' = <<file'[offset']>>
      BY <1>1, <1>2, <2>2, <3>1
    <3>3. decoded = << >>
      BY <2>1 DEF DecoderInv
    <3>4. QED
      BY <1>2, <1>5, <2>1, <3>1, <3>2, <3>3 DEF DecoderInv
  <2>3. CASE ~(1 <= Len(file))
    <3>1. rpc' = "truncated"
      BY <1>4, <2>1, <2>3
    <3>2. QED
      BY <1>2, <1>5, <2>1, <3>1 DEF DecoderInv
  <2>4. QED
    BY <2>2, <2>3
<1>7. CASE ReadHeader
  <2> DEFINE rest == CellAt(offset + 1)
  <2>1. /\ rpc = "header" /\ decoded' = decoded /\ decoded = << >>
        /\ offset = 1 /\ first = <<file[1]>> /\ 1 <= Len(file)
        /\ offset' = offset + Len(rest)
        /\ rpc' = IF rest = << >> THEN "truncated"
                  ELSE IF "foreign" \in {first[1].of.run, rest[1].of.run}
                  THEN "bad_header" ELSE "open"
    BY <1>2, <1>7 DEF ReadHeader, DecoderInv
  <2>2. CASE rpc' # "open"
    <3>1. rpc' \in {"truncated", "bad_header"}
      BY <2>1, <2>2
    <3>2. QED
      BY <1>2, <1>5, <2>1, <3>1 DEF DecoderInv
  <2>3. CASE rpc' = "open"
    <3>1. /\ 2 <= Len(file) /\ offset' = 2
          /\ file[1].of.run # "foreign"
      <4>1. rest # << >> /\ "foreign" \notin {first[1].of.run, rest[1].of.run}
        BY <2>1, <2>3
      <4>2. offset + 1 <= Len(file) /\ Len(rest) = 1
        BY <1>4, <4>1
      <4>3. first[1] = file[1]
        BY <2>1
      <4> HIDE DEF rest
      <4>4. QED
        BY <2>1, <4>1, <4>2, <4>3
    <3>2. Len(decoded) = 0
      BY <2>1
    <3>3. Untouched => file = OldFile
      <4>1. ForeignFile[1].of.run = "foreign"
        BY DEF ForeignFile, Cells, Header, Vector
      <4>2. file # << >>
        BY <3>1
      <4>3. QED
        BY <3>1, <4>1, <4>2 DEF Untouched
    <3>4. Printed(NewVectors) /\ Printed(HeldVectors)
      <4>1. Len(NewVectors) >= 1 /\ Len(HeldVectors) >= 1
        <5>1. Len(encoded) \in Nat /\ Len(NewVectors) = Len(encoded) + 1
          BY NewAre, LenProperties DEF EncoderInv
        <5>2. OldVectors \in Nat /\ Len(HeldVectors) = OldVectors + 1
          BY HeldAre, FileAssumption
        <5>3. QED
          BY <5>1, <5>2
      <4>2. QED
        BY <3>2, <4>1 DEF Printed
    <3>5. Reads
      BY <3>3, <3>4 DEF Reads, EncoderInv
    <3>6. QED
      BY <1>1, <1>2, <1>5, <2>1, <2>3, <3>1, <3>2, <3>4, <3>5 DEF DecoderInv
  <2>4. QED
    BY <2>2, <2>3
<1>8. CASE ReadFirst
  <2>1. /\ rpc = "open" /\ decoded' = decoded
        /\ first' = CellAt(offset + 1)
        /\ offset' = offset + Len(first')
        /\ rpc' = IF first' = << >> THEN "eof" ELSE "mid"
        /\ offset = 2 * Len(decoded) + 2 /\ Reads
    BY <1>8 DEF ReadFirst, DecoderInv
  <2>2. CASE offset + 1 <= Len(file)
    <3>1. /\ first' = <<file[offset + 1]>> /\ offset' = offset + 1
          /\ rpc' = "mid"
      <4>1. /\ CellAt(offset + 1) = <<file[offset + 1]>>
            /\ Len(CellAt(offset + 1)) = 1 /\ CellAt(offset + 1) # << >>
        BY <1>4, <2>2
      <4>2. QED
        BY <2>1, <4>1
    <3>2. offset' = 2 * Len(decoded) + 3 /\ offset' \in 1 .. Len(file)
      BY <1>2, <2>1, <2>2, <3>1
    <3>3. QED
      BY <1>1, <1>2, <1>5, <2>1, <3>1, <3>2 DEF DecoderInv
  <2>3. CASE ~(offset + 1 <= Len(file))
    <3>1. rpc' = "eof"
      BY <1>4, <2>1, <2>3
    <3>2. QED
      BY <1>2, <1>5, <2>1, <3>1 DEF DecoderInv
  <2>4. QED
    BY <2>2, <2>3
<1>9. CASE ReadRest
  <2> DEFINE rest == CellAt(offset + 1)
             d == Len(decoded)
  <2>1. /\ rpc = "mid" /\ offset = 2 * d + 3 /\ offset \in 1 .. Len(file)
        /\ first = <<file[offset]>> /\ Reads
        /\ offset' = offset + Len(rest)
        /\ \/ rest = << >> /\ rpc' = "truncated" /\ decoded' = decoded
           \/ /\ rest # << >> /\ rpc' = "open"
              /\ decoded' = Append(decoded, [first |-> first[1].of, rest |-> rest[1].of])
           \/ rpc' = "invalid" /\ decoded' = decoded
    BY <1>9 DEF ReadRest, DecoderInv
  <2>2. CASE rpc' # "open"
    <3>1. rpc' \in {"truncated", "invalid"} /\ decoded' = decoded
      BY <2>1, <2>2
    <3>2. QED
      BY <1>2, <1>5, <3>1 DEF DecoderInv
  <2>3. CASE rpc' = "open"
    <3>1. /\ rest = <<file[offset + 1]>> /\ offset + 1 <= Len(file)
          /\ offset' = 2 * d + 4
      <4>1. rest # << >>
        BY <2>1, <2>3
      <4>2. offset + 1 <= Len(file) /\ rest = <<file[offset + 1]>>
        BY <1>4, <4>1
      <4>3. Len(rest) = 1
        BY <1>4, <4>2
      <4> HIDE DEF d, rest
      <4>4. d \in Nat
        BY <1>2 DEF d
      <4>5. offset' = (2 * d + 3) + 1
        BY <2>1, <4>3
      <4>6. QED
        BY <4>2, <4>4, <4>5
    <3>2. ASSUME NEW vectors \in Seq(VectorTypes),
                 Begins(file, vectors), Printed(vectors)
          PROVE  /\ decoded' = Append(decoded, [first |-> vectors[d + 2],
                                                rest |-> vectors[d + 2]])
                 /\ vectors[d + 2] \in VectorTypes
                 /\ d + 2 <= Len(vectors)
      <4> DEFINE n == Len(vectors)
      <4>1. n \in Nat /\ Len(file) <= 2 * n
        BY <3>2, LenProperties DEF Begins
      <4>2. d + 2 \in 1 .. n /\ 2 * (d + 2) - 1 = offset /\ 2 * (d + 2) = offset + 1
        <5> HIDE DEF d, n
        <5>1. d \in Nat
          BY <1>2 DEF d
        <5>2. 2 * d + 4 <= 2 * n
          BY <1>2, <2>1, <3>1, <4>1, <5>1
        <5>3. QED
          BY <2>1, <4>1, <5>1, <5>2
      <4>3. /\ file[offset] = Cells(vectors[d + 2])[1]
            /\ file[offset + 1] = Cells(vectors[d + 2])[2]
        <5> HIDE DEF d
        <5>1. /\ 2 * (d + 2) - 1 <= Len(file) /\ 2 * (d + 2) <= Len(file)
          BY <1>2, <2>1, <3>1, <4>2
        <5>2. QED
          BY <3>2, <4>2, <5>1 DEF Begins
      <4>4. vectors[d + 2] \in VectorTypes
        BY <4>2, ElementOfSeq
      <4>5. first[1].of = vectors[d + 2] /\ rest[1].of = vectors[d + 2]
        <5>1. first[1] = file[offset] /\ rest[1] = file[offset + 1]
          BY <2>1, <3>1
        <5>2. /\ Cells(vectors[d + 2])[1].of = vectors[d + 2]
              /\ Cells(vectors[d + 2])[2].of = vectors[d + 2]
          BY DEF Cells
        <5>3. QED
          BY <4>3, <5>1, <5>2
      <4>6. QED
        BY <2>1, <2>3, <4>2, <4>4, <4>5
    <3>3. ASSUME NEW vectors \in Seq(VectorTypes),
                 Begins(file, vectors), Printed(vectors)
          PROVE  /\ decoded' \in Seq([first : VectorTypes, rest : VectorTypes])
                 /\ Len(decoded') = d + 1
                 /\ Len(decoded') + 1 <= Len(vectors)
                 /\ \A i \in 1 .. Len(decoded') :
                       decoded'[i] = [first |-> vectors[i + 1], rest |-> vectors[i + 1]]
      <4> DEFINE x == [first |-> vectors[d + 2], rest |-> vectors[d + 2]]
      <4>1. x \in [first : VectorTypes, rest : VectorTypes] /\ decoded' = Append(decoded, x)
        BY <3>2, <3>3
      <4>2. /\ decoded' \in Seq([first : VectorTypes, rest : VectorTypes])
            /\ Len(decoded') = d + 1
            /\ \A i \in 1 .. d : decoded'[i] = decoded[i]
            /\ decoded'[d + 1] = x
        <5> HIDE DEF x
        <5>1. QED
          BY <1>2, <4>1, AppendProperties
      <4>3. /\ \A i \in 1 .. d :
                  decoded[i] = [first |-> vectors[i + 1], rest |-> vectors[i + 1]]
            /\ d + 2 <= Len(vectors) /\ d \in Nat
        BY <1>2, <3>2, <3>3 DEF Printed
      <4>4. (d + 1) + 1 = d + 2
        BY <4>3
      <4>5. \A i \in 1 .. d + 1 : i \in 1 .. d \/ i = d + 1
        BY <4>3
      <4> HIDE DEF d
      <4>6. \A i \in 1 .. d + 1 :
               decoded'[i] = [first |-> vectors[i + 1], rest |-> vectors[i + 1]]
        BY <4>2, <4>3, <4>4, <4>5
      <4>7. QED
        BY <4>2, <4>3, <4>4, <4>6
    <3>4. Reads' /\ decoded' \in Seq([first : VectorTypes, rest : VectorTypes])
          /\ Len(decoded') = d + 1 /\ (Printed(HeldVectors)' \/ Printed(NewVectors)')
      <4>1. CASE Untouched /\ file = OldFile /\ Printed(HeldVectors)
        <5>1. HeldVectors \in Seq(VectorTypes) /\ Begins(file, HeldVectors)
          BY <4>1, HeldAre, ContentsAre DEF OldFile, HeldVectors
        <5>2. QED
          BY <1>1, <1>3, <3>3, <4>1, <5>1 DEF Reads, Printed
      <4>2. CASE Written /\ Printed(NewVectors)
        <5>1. NewVectors \in Seq(VectorTypes) /\ Begins(file, NewVectors)
          BY <4>2, NewAre DEF EncoderInv, Written
        <5>2. QED
          BY <1>1, <1>3, <3>3, <4>2, <5>1 DEF Reads, Printed
      <4>3. QED
        BY <2>1, <4>1, <4>2 DEF Reads
    <3>5. offset' = 2 * Len(decoded') + 2 /\ offset' <= Len(file)
      BY <1>2, <2>1, <3>1, <3>4
    <3>6. QED
      BY <1>1, <2>3, <3>4, <3>5 DEF DecoderInv
  <2>4. QED
    BY <2>2, <2>3
<1>10. CASE DecodingFails
  <2>1. decoded' = decoded /\ rpc' = "failed"
    BY <1>10 DEF DecodingFails
  <2>2. QED
    BY <1>2, <1>5, <2>1 DEF DecoderInv
<1>11. QED
  BY <1>6, <1>7, <1>8, <1>9, <1>10 DEF DecoderSteps

LEMMA NextVectorInv == VectorInv /\ [VectorNext]_vectorVars => VectorInv'
<1> SUFFICES ASSUME VectorInv, [VectorNext]_vectorVars PROVE VectorInv'
  OBVIOUS
<1>1. CASE EncoderSteps
  BY <1>1, EncoderStep, DecoderBesideEncoder DEF VectorInv
<1>2. CASE DecoderSteps
  <2>1. /\ UNCHANGED <<file, wpc, verifying, verifier, vector, vectorsWritten, encoded>>
        /\ overtaken' = overtaken
    BY <1>2 DEF DecoderSteps, Open, ReadHeader, ReadFirst, ReadRest, DecodingFails,
                encoderVars
  <2>2. EncoderInv'
    BY <2>1 DEF VectorInv, EncoderInv, NewVectors, EncodedVectors, Untouched, Written
  <2>3. QED
    BY <1>2, <2>1, <2>2, DecoderStep DEF VectorInv
<1>3. CASE UNCHANGED vectorVars
  <2>1. EncoderInv'
    BY <1>3 DEF vectorVars, encoderVars, VectorInv, EncoderInv, NewVectors,
                EncodedVectors, Untouched, Written
  <2>2. NewVectors' = NewVectors /\ HeldVectors' = HeldVectors /\ OldFile' = OldFile
    BY <1>3 DEF vectorVars, encoderVars, NewVectors, EncodedVectors, HeldVectors,
                OldVectorSeq, OldFile
  <2>3. /\ Printed(NewVectors)' <=> Printed(NewVectors)
        /\ Printed(HeldVectors)' <=> Printed(HeldVectors)
    BY <1>3, <2>2 DEF vectorVars, decoderVars, Printed
  <2>4. Reads' <=> Reads
    BY <1>3, <2>2, <2>3 DEF vectorVars, encoderVars, Reads, Untouched, Written
  <2>5. DecoderInv' <=> DecoderInv
    BY <1>3, <2>3, <2>4 DEF vectorVars, decoderVars, DecoderInv
  <2>6. QED
    BY <1>3, <2>1, <2>5 DEF vectorVars, VectorInv
<1>4. QED
  BY <1>1, <1>2, <1>3 DEF VectorNext, EncoderSteps, DecoderSteps

(* What a decoder prints is a beginning of one encoding, for any records,  *)
(* wherever the encoder fails or is killed and whenever the decoder reads. *)
THEOREM PrefixIsDecoded == VectorSpec => []DecodesAPrefix
<1>1. VectorInv => DecodesAPrefix
  <2> SUFFICES ASSUME EncoderInv, DecoderInv
               PROVE  /\ \A i \in DOMAIN decoded : decoded[i].first = decoded[i].rest
                      /\ \/ IsPrefix(Whole(decoded), EncodedVectors)
                         \/ IsPrefix(Whole(decoded), OldVectorSeq)
    BY DEF VectorInv, DecodesAPrefix
  <2>1. /\ decoded \in Seq([first : VectorTypes, rest : VectorTypes])
        /\ Len(decoded) \in Nat /\ DOMAIN decoded = 1 .. Len(decoded)
        /\ encoded \in Seq(EncodedTypes) /\ Len(encoded) \in Nat
    BY LenProperties DEF EncoderInv, DecoderInv
  <2>2. ASSUME NEW all \in Seq(VectorTypes), NEW some \in Seq(VectorTypes),
               Len(all) = Len(some) + 1,
               \A k \in 1 .. Len(some) : all[k + 1] = some[k],
               Printed(all)
        PROVE  /\ \A i \in DOMAIN decoded : decoded[i].first = decoded[i].rest
               /\ IsPrefix(Whole(decoded), some)
    <3>1. Len(some) \in Nat
      BY LenProperties
    <3>2. Len(decoded) <= Len(some)
      BY <2>1, <2>2, <3>1 DEF Printed
    <3>3. \A i \in 1 .. Len(decoded) : i \in 1 .. Len(some)
      BY <2>1, <3>1, <3>2
    <3>4. \A i \in 1 .. Len(decoded) : /\ decoded[i].first = some[i]
                                       /\ decoded[i].rest = some[i]
      <4>1. SUFFICES ASSUME NEW i \in 1 .. Len(decoded)
                     PROVE  decoded[i].first = some[i] /\ decoded[i].rest = some[i]
        OBVIOUS
      <4>2. all[i + 1] = some[i]
        BY <2>2, <3>3
      <4>3. decoded[i] = [first |-> all[i + 1], rest |-> all[i + 1]]
        BY <2>2 DEF Printed
      <4>4. QED
        BY <4>2, <4>3
    <3> DEFINE w == Whole(decoded)
    <3>5. w = [i \in 1 .. Len(decoded) |-> some[i]]
      BY <2>1, <3>4 DEF Whole
    <3>6. \A i \in 1 .. Len(decoded) : some[i] \in VectorTypes
      BY <3>3, ElementOfSeq
    <3> HIDE DEF w
    <3>7. w \in Seq(VectorTypes) /\ Len(w) = Len(decoded)
      BY <2>1, <3>5, <3>6
    <3>8. w = SubSeq(some, 1, Len(w))
      BY <2>1, <3>1, <3>2, <3>5, <3>7
    <3>9. IsPrefix(w, some)
      BY <3>2, <3>7, <3>8 DEF IsPrefix
    <3>10. QED
      BY <2>1, <3>4, <3>9 DEF w
  <2>3. CASE Printed(NewVectors)
    BY <2>1, <2>2, <2>3, NewAre
  <2>4. CASE Printed(HeldVectors)
    BY <2>2, <2>4, HeldAre
  <2>5. QED
    BY <2>3, <2>4 DEF DecoderInv
<1>2. QED
  BY <1>1, InitVectorInv, NextVectorInv, PTL DEF VectorSpec

(* The file of an encoding that succeeded holds every record, and the      *)
(* counter never claims more than the file holds.                          *)
THEOREM EncodingIsComplete == VectorSpec => []SuccessIsComplete
<1>1. VectorInv => SuccessIsComplete
  <2> SUFFICES ASSUME EncoderInv PROVE SuccessIsComplete
    BY DEF VectorInv
  <2>1. /\ file \in Seq(CellTypes) /\ encoded \in Seq(EncodedTypes)
        /\ Len(encoded) \in Nat /\ Len(file) \in Nat
    BY LenProperties DEF EncoderInv
  <2>2. /\ NewVectors \in Seq(VectorTypes) /\ Len(NewVectors) = Len(encoded) + 1
    BY <2>1, NewAre
  <2>3. ASSUME wpc = "exit0"
        PROVE  /\ vectorsWritten = Len(encoded)
               /\ file = Contents(<<Header("new")>> \o EncodedVectors)
    <3>1. /\ Begins(file, NewVectors) /\ Len(file) = 2 * Len(encoded) + 2
          /\ vectorsWritten = Len(encoded)
      BY <2>3 DEF EncoderInv, Untouched, Written
    <3>2. Len(file) = 2 * Len(NewVectors)
      BY <2>1, <2>2, <3>1
    <3>3. QED
      BY <2>1, <2>2, <3>1, <3>2, BeginsWhole DEF NewVectors
  <2>4. vectorsWritten > 0 => Len(file) >= 2 + 2 * vectorsWritten
    BY DEF EncoderInv, Untouched, Written
  <2>5. QED
    BY <2>3, <2>4 DEF SuccessIsComplete
<1>2. QED
  BY <1>1, InitVectorInv, NextVectorInv, PTL DEF VectorSpec

(* A phase is recorded only with the event that took the verifier there.   *)
THEOREM RecordedIsEarned == VectorSpec => []RecordedPhaseIsEarned
<1>1. VectorInit => RecordedPhaseIsEarned
  BY DEF VectorInit, RecordedPhaseIsEarned
<1>2. VectorInv => EncoderInv
  BY DEF VectorInv
<1>3. QED
  BY <1>1, <1>2, InitVectorInv, NextVectorInv, EarnedStays, PTL DEF VectorSpec

(* The clean end of a file comes after all of its records, never inside    *)
(* one and never before the header is whole.                               *)
THEOREM CleanEofTells == VectorSpec => CleanEofIsComplete
<1>1. ASSUME VectorInv, [VectorNext]_vectorVars
      PROVE  [rpc' = "eof" /\ ~overtaken => Len(file) = 2 * Len(decoded) + 2]_rpc
  <2> SUFFICES ASSUME rpc' # rpc, rpc' = "eof", ~overtaken
               PROVE  Len(file) = 2 * Len(decoded) + 2
    OBVIOUS
  <2>1. ReadFirst
    BY <1>1 DEF VectorNext, vectorVars, decoderVars, Create, WriteFirst, WriteRest,
                Encode, FinishEncoding, EncodingFails, Crash, Open, ReadHeader, ReadRest,
                DecodingFails
  <2>2. /\ offset = 2 * Len(decoded) + 2 /\ offset <= Len(file)
        /\ Len(file) \in Nat /\ Len(decoded) \in Nat
    BY <1>1, <2>1, LenProperties DEF VectorInv, EncoderInv, DecoderInv, ReadFirst
  <2>3. CellAt(offset + 1) = << >>
    BY <2>1 DEF ReadFirst
  <2>4. ~(offset + 1 <= Len(file))
    BY <2>3 DEF CellAt
  <2>5. QED
    BY <2>2, <2>4
<1>2. QED
  BY <1>1, InitVectorInv, NextVectorInv, PTL DEF VectorSpec, CleanEofIsComplete

=============================================================================
