---------------------------- MODULE RecordReader ----------------------------
(***************************************************************************)
(* read_record of src/main.rs, called over and over by its two loops.      *)
(* Standard input sits behind a BufReader: fill_buf hands out the bytes    *)
(* that are buffered and reads more, in pieces of any size, only when the  *)
(* buffer is empty.  read_record looks for a newline in what is available, *)
(* appends that much to the line, and goes on until the line is complete,  *)
(* too long, or the input has ended.                                       *)
(***************************************************************************)
EXTENDS Naturals, Sequences

CONSTANTS
    Byte,        \* the values of a byte
    NL,          \* the newline byte
    Inputs,      \* the possible contents of standard input
    MaxRecord,   \* MAXIMUM_RECORD_BYTES
    BufferSize   \* capacity of the BufReader

ASSUME ReaderAssumption ==
    /\ NL \in Byte
    /\ Inputs \subseteq Seq(Byte)
    /\ MaxRecord \in Nat \ {0}
    /\ BufferSize \in Nat \ {0}

VARIABLES
    input,       \* the bytes of standard input
    filled,      \* how many of them the BufReader has read
    consumed,    \* how many of them read_record has consumed
    line,        \* the buffer the record is collected in
    records,     \* what the calls have returned so far, oldest first
    outcome      \* "reading" until a call ends the caller's loop

readerVars == <<input, filled, consumed, line, records, outcome>>

Outcomes == {"reading", "eof", "too_long", "io_error"}

ReaderInit ==
    /\ input \in Inputs
    /\ filled = 0
    /\ consumed = 0
    /\ line = << >>
    /\ records = << >>
    /\ outcome = "reading"

BufferEmpty == filled = consumed

(* A bug for the runs to find: a read counted although it returned less.   *)
FillBufPastEnd ==
    /\ outcome = "reading"
    /\ BufferEmpty
    /\ \E n \in 1 .. BufferSize : filled' = consumed + n
    /\ UNCHANGED <<input, consumed, line, records, outcome>>

(* The read behind fill_buf returns some of the bytes that are left.       *)
FillBuf ==
    /\ outcome = "reading"
    /\ BufferEmpty
    /\ \E n \in 1 .. BufferSize :
        /\ consumed + n <= Len(input)
        /\ filled' = consumed + n
    /\ UNCHANGED <<input, consumed, line, records, outcome>>

(* A bug for the runs to find: the search skips the byte before e.         *)
IsChunkEndLate(e) ==
    /\ input[e] = NL \/ e = filled
    /\ \A j \in consumed + 1 .. e - 2 : input[j] # NL

(* e ends the part of the available bytes read_record looks at: the first  *)
(* newline, or everything there is.                                        *)
IsChunkEnd(e) ==
    /\ input[e] = NL \/ e = filled
    /\ \A j \in consumed + 1 .. e - 1 : input[j] # NL

Chunk(e) == SubSeq(input, consumed + 1, e)

(* Bugs for the runs to find: a limit on the chunk instead of the line, and *)
(* one that refuses a line of exactly MaxRecord bytes.                     *)
TooLongChunk(e) == e - consumed > MaxRecord
TooLongByOne(e) == Len(line) + (e - consumed) >= MaxRecord

(* line.len() + length > MAXIMUM_RECORD_BYTES                              *)
TooLong(e) == Len(line) + (e - consumed) > MaxRecord

(* The chunk is appended and consumed; a complete line is returned, and    *)
(* the next call begins by clearing the buffer.                            *)
TakeChunk ==
    /\ outcome = "reading"
    /\ \E e \in consumed + 1 .. filled :
        /\ IsChunkEnd(e)
        /\ ~TooLong(e)
        /\ consumed' = e
        /\ IF input[e] = NL
              THEN /\ records' = Append(records, line \o Chunk(e))
                   /\ line' = << >>
              ELSE /\ line' = line \o Chunk(e)
                   /\ UNCHANGED records
    /\ UNCHANGED <<input, filled, outcome>>

(* A bug for the runs to find: the error is not returned, so the same      *)
(* chunk is looked at again.                                               *)
RejectChunkRetrying ==
    /\ outcome = "reading"
    /\ \E e \in consumed + 1 .. filled : IsChunkEnd(e) /\ TooLong(e)
    /\ UNCHANGED readerVars

(* The line would pass the limit: nothing is appended or consumed.         *)
RejectChunk ==
    /\ outcome = "reading"
    /\ \E e \in consumed + 1 .. filled : IsChunkEnd(e) /\ TooLong(e)
    /\ outcome' = "too_long"
    /\ UNCHANGED <<input, filled, consumed, line, records>>

AtEnd == BufferEmpty /\ consumed = Len(input)

(* fill_buf returns no bytes with part of a line collected: that part is   *)
(* the last record.                                                        *)
ReturnPartial ==
    /\ outcome = "reading"
    /\ AtEnd
    /\ line # << >>
    /\ records' = Append(records, line)
    /\ line' = << >>
    /\ UNCHANGED <<input, filled, consumed, outcome>>

(* fill_buf returns no bytes at the start of a call: 0 ends the loop.      *)
ReturnZero ==
    /\ outcome = "reading"
    /\ AtEnd
    /\ line = << >>
    /\ outcome' = "eof"
    /\ UNCHANGED <<input, filled, consumed, line, records>>

(* The read behind fill_buf fails; `?` passes the error on.                *)
FillBufFails ==
    /\ outcome = "reading"
    /\ BufferEmpty
    /\ outcome' = "io_error"
    /\ UNCHANGED <<input, filled, consumed, line, records>>

ReaderNext ==
    \/ FillBuf
    \/ TakeChunk
    \/ RejectChunk
    \/ ReturnPartial
    \/ ReturnZero
    \/ FillBufFails

(* Weak fairness: the task is polled until run() returns.                  *)
ReaderSpec ==
    ReaderInit /\ [][ReaderNext]_readerVars /\ WF_readerVars(ReaderNext)

-----------------------------------------------------------------------------

(* Type correctness, with the order of the three positions in the input.   *)
TypeOK ==
    /\ input \in Seq(Byte)
    /\ filled \in 0 .. Len(input)
    /\ consumed \in 0 .. filled
    /\ line \in Seq(Byte)
    /\ records \in Seq(Seq(Byte))
    /\ outcome \in Outcomes

(* Where the line being collected begins.                                  *)
LineStart == consumed - Len(line)

(* Between two steps of read_record, and so at every await, the buffer     *)
(* holds exactly the unreturned bytes consumed since the last record: none *)
(* of them a newline, none lost, repeated or taken from another line.      *)
PartialLine ==
    /\ LineStart >= 0
    /\ line = SubSeq(input, LineStart + 1, consumed)
    /\ \A j \in LineStart + 1 .. consumed : input[j] # NL

(* No record and no line under construction passes the limit, the          *)
(* assertion of the test read_record_rejects_unterminated_oversized_input. *)
WithinLimit ==
    /\ Len(line) <= MaxRecord
    /\ \A i \in DOMAIN records : Len(records[i]) \in 1 .. MaxRecord

(* read_record implements the line splitter: the records returned are the  *)
(* lines of the input in order, however it was cut into reads, and the     *)
(* stream is refused only for a line that really is too long.              *)
Splitter == INSTANCE LineSplitter WITH start <- LineStart, lines <- records

ImplementsSplitter ==
    Splitter!SplitterInit /\ [][Splitter!SplitterNext]_(Splitter!splitterVars)

(* On every input the caller's loop ends: with the end of the input, a line *)
(* that is too long, or a failed read.                                      *)
StreamEnds == <>(outcome # "reading")

=============================================================================
