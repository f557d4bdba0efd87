----------------------------- MODULE VectorFile -----------------------------
(***************************************************************************)
(* The vector file: encode_vectors writes one vector per record with a     *)
(* VectorWriter, decode_vectors of another ccze process reads them back    *)
(* with a VectorReader, during the encoding, after it or after a crash of  *)
(* it.  The path may hold an older vector file or something else, which    *)
(* creating the file truncates.                                            *)
(*                                                                         *)
(* A record of the file is two cells, its first byte and the rest, because *)
(* the reader reads them apart and a write can stop between them; the      *)
(* header is two cells for the same reason.  Of the eight features of a    *)
(* vector the model keeps the protocol phase, and a tag that tells vectors *)
(* apart.                                                                  *)
(***************************************************************************)
EXTENDS Lifecycle, SequencesExt

CONSTANTS
    LineWords,      \* the lines, as the sets of search words in them
    MaxRecords,     \* bound on the records of one encoding
    OldVectors      \* how many vectors an older file at the path holds

ASSUME FileAssumption == MaxRecords \in Nat /\ OldVectors \in Nat

VARIABLES
    file,           \* the cells at the path
    wpc,            \* where encode_vectors is
    verifying,      \* --verify-protocol is given
    verifier,       \* ProtocolVerifier.phase
    vector,         \* the vector being written
    vectorsWritten, \* VectorWriter.vectors_written
    encoded,        \* the vectors encoded so far, with the verifier's view
    rpc,            \* where decode_vectors is
    offset,         \* the reader's position in the file
    first,          \* the cell read_exact has to complete
    decoded,        \* the vectors printed
    overtaken       \* the file was truncated while the reader had it open

encoderVars == <<wpc, verifying, verifier, vector, vectorsWritten, encoded>>
decoderVars == <<rpc, offset, first, decoded>>
vectorVars == <<file, encoderVars, decoderVars, overtaken>>

Vector(run, n, p) == [run |-> run, n |-> n, phase |-> p]
Header(run) == Vector(run, 0, Cold)
Cells(v) == << [of |-> v, part |-> 1], [of |-> v, part |-> 2] >>

(* A file that holds these vectors and nothing else, the header first.     *)
Contents(vectors) ==
    [i \in 1 .. 2 * Len(vectors) |-> Cells(vectors[(i + 1) \div 2])[2 - (i % 2)]]

OldVectorSeq == [i \in 1 .. OldVectors |-> Vector("old", i, Cold)]
OldFile == Contents(<<Header("old")>> \o OldVectorSeq)
ForeignFile == Cells(Header("foreign"))

WriterEnds == {"exit0", "exit1", "crashed"}
ReaderEnds == {"eof", "truncated", "bad_header", "invalid", "failed"}

VectorInit ==
    /\ file \in {<< >>, OldFile, ForeignFile}
    /\ wpc = "start"
    /\ verifying \in BOOLEAN
    /\ verifier = Cold
    /\ vector = Header("new")
    /\ vectorsWritten = 0
    /\ encoded = << >>
    /\ rpc = "closed"
    /\ offset = 0
    /\ first = << >>
    /\ decoded = << >>
    /\ overtaken = FALSE

-----------------------------------------------------------------------------
(* encode_vectors                                                          *)

(* A bug for the runs to find: the file is opened without truncation.      *)
CreateKeeping ==
    /\ wpc = "start"
    /\ wpc' = "write_first"
    /\ UNCHANGED <<file, overtaken, verifying, verifier, vector, vectorsWritten,
                   encoded, decoderVars>>

(* VectorWriter::create: File::create truncates; the header comes next.    *)
Create ==
    /\ wpc = "start"
    /\ file' = << >>
    /\ overtaken' = (overtaken \/ rpc \in {"open", "mid", "header"})
    /\ wpc' = "write_first"
    /\ UNCHANGED <<verifying, verifier, vector, vectorsWritten, encoded,
                   decoderVars>>

(* write_all of the header or of one vector, in two steps.                 *)
WriteFirst ==
    /\ wpc = "write_first"
    /\ file' = Append(file, Cells(vector)[1])
    /\ wpc' = "write_rest"
    /\ UNCHANGED <<verifying, verifier, vector, vectorsWritten, encoded,
                   decoderVars, overtaken>>

WriteRest ==
    /\ wpc = "write_rest"
    /\ file' = Append(file, Cells(vector)[2])
    /\ vectorsWritten' = vectorsWritten + (IF vector.n = 0 THEN 0 ELSE 1)
    /\ wpc' = "reading"
    /\ UNCHANGED <<verifying, verifier, vector, encoded, decoderVars,
                   overtaken>>

(* The phase given to the encoder: what inspect returned for this line, or *)
(* Cold when it returned nothing or a violation.                           *)
RecordedPhase(event) ==
    IF verifying /\ event # NoEvent /\ ~Violates(verifier, event)
    THEN ProtocolStep(verifier, event)
    ELSE Cold

VerifierAfter(event) ==
    IF verifying THEN InspectPhase(verifier, event) ELSE verifier

(* A bug for the runs to find: the phase of a violation is recorded.       *)
EncodeAnyEvent ==
    /\ wpc = "reading"
    /\ Len(encoded) < MaxRecords
    /\ \E words \in LineWords :
        LET event == DetectEvent(words)
            v == Vector("new", Len(encoded) + 1,
                        IF event = NoEvent THEN Cold
                        ELSE (EventCode[event] + 1) % 5)
        IN  /\ verifier' = VerifierAfter(event)
            /\ vector' = v
            /\ encoded' = Append(encoded, [vector |-> v, phase |-> verifier',
                                           event |-> event])
    /\ wpc' = "write_first"
    /\ UNCHANGED <<file, verifying, vectorsWritten, decoderVars, overtaken>>

(* A record is read, inspected and encoded.                                *)
Encode ==
    /\ wpc = "reading"
    /\ Len(encoded) < MaxRecords
    /\ \E words \in LineWords :
        LET event == DetectEvent(words)
            v == Vector("new", Len(encoded) + 1, RecordedPhase(event))
        IN  /\ verifier' = VerifierAfter(event)
            /\ vector' = v
            /\ encoded' = Append(encoded, [vector |-> v, phase |-> verifier',
                                           event |-> event])
    /\ wpc' = "write_first"
    /\ UNCHANGED <<file, verifying, vectorsWritten, decoderVars, overtaken>>

(* The input ends: writer.flush(), which does nothing for a File.          *)
FinishEncoding ==
    /\ wpc = "reading"
    /\ wpc' = "exit0"
    /\ UNCHANGED <<file, verifying, verifier, vector, vectorsWritten, encoded,
                   decoderVars, overtaken>>

(* The input, a write or the creation of the file fails; `?` ends run().   *)
EncodingFails ==
    /\ wpc \in {"start", "reading", "write_first", "write_rest"}
    /\ wpc' = "exit1"
    /\ UNCHANGED <<file, verifying, verifier, vector, vectorsWritten, encoded,
                   decoderVars, overtaken>>

(* The process is killed: nothing is undone or completed.                  *)
Crash ==
    /\ wpc \notin WriterEnds
    /\ wpc' = "crashed"
    /\ UNCHANGED <<file, verifying, verifier, vector, vectorsWritten, encoded,
                   decoderVars, overtaken>>

-----------------------------------------------------------------------------
(* decode_vectors                                                          *)

CellAt(i) == IF i <= Len(file) THEN <<file[i]>> ELSE << >>

(* VectorReader::open, the first bytes of the header.                      *)
Open ==
    /\ rpc = "closed"
    /\ first' = CellAt(1)
    /\ offset' = Len(first')
    /\ rpc' = IF first' = << >> THEN "truncated" ELSE "header"
    /\ UNCHANGED <<file, encoderVars, decoded, overtaken>>

(* The rest of the header; it must be VECTOR_FILE_HEADER.                  *)
ReadHeader ==
    /\ rpc = "header"
    /\ LET rest == CellAt(offset + 1)
       IN  /\ offset' = offset + Len(rest)
           /\ rpc' = IF rest = << >> THEN "truncated"
                     ELSE IF "foreign" \in {first[1].of.run, rest[1].of.run}
                     THEN "bad_header"
                     ELSE "open"
    /\ first' = << >>
    /\ UNCHANGED <<file, encoderVars, decoded, overtaken>>

(* VectorReader::read, the first byte: none is the end of the file.        *)
ReadFirst ==
    /\ rpc = "open"
    /\ first' = CellAt(offset + 1)
    /\ offset' = offset + Len(first')
    /\ rpc' = IF first' = << >> THEN "eof" ELSE "mid"
    /\ UNCHANGED <<file, encoderVars, decoded, overtaken>>

(* A bug for the runs to find: a short read is taken for the whole record. *)
ReadRestShort ==
    /\ rpc = "mid"
    /\ offset' = offset + Len(CellAt(offset + 1))
    /\ decoded' = Append(decoded, [first |-> first[1].of, rest |-> first[1].of])
    /\ rpc' = "open"
    /\ first' = << >>
    /\ UNCHANGED <<file, encoderVars, overtaken>>

(* read_exact of the other bytes, and is_valid: a record put together from *)
(* two vectors may or may not pass it.  A valid vector is printed.         *)
ReadRest ==
    /\ rpc = "mid"
    /\ LET rest == CellAt(offset + 1)
       IN  /\ offset' = offset + Len(rest)
           /\ \/ /\ rest = << >>
                 /\ rpc' = "truncated"
                 /\ UNCHANGED decoded
              \/ /\ rest # << >>
                 /\ rpc' = "open"
                 /\ decoded' = Append(decoded, [first |-> first[1].of,
                                                rest |-> rest[1].of])
              \/ /\ rest # << >>
                 /\ first[1].of # rest[1].of
                 /\ rpc' = "invalid"
                 /\ UNCHANGED decoded
    /\ first' = << >>
    /\ UNCHANGED <<file, encoderVars, overtaken>>

(* The file cannot be opened, or a read, or a write of the output, fails.  *)
DecodingFails ==
    /\ rpc \notin ReaderEnds
    /\ rpc' = "failed"
    /\ first' = << >>
    /\ UNCHANGED <<file, encoderVars, offset, decoded, overtaken>>

VectorNext ==
    \/ Create
    \/ WriteFirst
    \/ WriteRest
    \/ Encode
    \/ FinishEncoding
    \/ EncodingFails
    \/ Crash
    \/ Open
    \/ ReadHeader
    \/ ReadFirst
    \/ ReadRest
    \/ DecodingFails

VectorSpec == VectorInit /\ [][VectorNext]_vectorVars

-----------------------------------------------------------------------------

EncodedVectors == [i \in DOMAIN encoded |-> encoded[i].vector]
Whole(d) == [i \in DOMAIN d |-> d[i].first]

(* What a decoder prints is a beginning of one encoding: whole vectors, in *)
(* order, from the first on, whenever the encoder stopped or crashed and   *)
(* however far it was when the decoder read.  Only truncating the file     *)
(* under an open reader is outside this: nothing in the code prevents it.  *)
DecodesAPrefix ==
    ~overtaken =>
        /\ \A i \in DOMAIN decoded : decoded[i].first = decoded[i].rest
        /\ \/ IsPrefix(Whole(decoded), EncodedVectors)
           \/ IsPrefix(Whole(decoded), OldVectorSeq)

(* A decoder that ends with no error has printed every vector the file     *)
(* then held, so one started on the file of a finished encoding prints all *)
(* of them; and a torn record or an unfinished header never ends in the    *)
(* clean end of file.                                                      *)
CleanEofIsComplete ==
    [][rpc' = "eof" /\ ~overtaken =>
           Len(file) = 2 * Len(decoded) + 2]_rpc

(* The file of an encoding that succeeded holds every record read, and the *)
(* counter of the writer never claims more than the file holds.            *)
SuccessIsComplete ==
    /\ wpc = "exit0" =>
        /\ vectorsWritten = Len(encoded)
        /\ file = Contents(<<Header("new")>> \o EncodedVectors)
    /\ vectorsWritten > 0 => Len(file) >= 2 + 2 * vectorsWritten

(* A phase other than Cold is recorded only for the line whose event took  *)
(* the verifier there.                                                     *)
RecordedPhaseIsEarned ==
    \A i \in DOMAIN encoded :
        encoded[i].vector.phase # Cold =>
            /\ encoded[i].vector.phase = encoded[i].phase
            /\ encoded[i].event # NoEvent
            /\ EventCode[encoded[i].event] + 1 = encoded[i].phase

=============================================================================
