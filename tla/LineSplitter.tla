---------------------------- MODULE LineSplitter ----------------------------
(***************************************************************************)
(* What the record reader of src/main.rs promises its two callers (the     *)
(* filter loop and the vector encoder): the input, whatever the sizes of   *)
(* the reads it arrives in, is handed over line by line.  A line runs up   *)
(* to and including a newline; the last one may lack it.  A line longer    *)
(* than MaxRecord ends the stream with an error and no part of it is       *)
(* handed over.                                                            *)
(***************************************************************************)
EXTENDS Naturals, Sequences

CONSTANTS
    Byte,        \* the values of a byte
    NL,          \* the newline byte
    Inputs,      \* the possible contents of standard input
    MaxRecord    \* MAXIMUM_RECORD_BYTES

VARIABLES
    input,       \* the bytes of standard input
    start,       \* how many of them belong to the lines handed over
    lines,       \* the lines handed over, oldest first
    outcome      \* "reading" until the stream has ended

splitterVars == <<input, start, lines, outcome>>

(* e is the last position of the first line of s[from+1 .. to].            *)
IsLineEnd(s, from, to, e) ==
    /\ s[e] = NL \/ e = to
    /\ \A j \in from + 1 .. e - 1 : s[j] # NL

SplitterInit ==
    /\ input \in Inputs
    /\ start = 0
    /\ lines = << >>
    /\ outcome = "reading"

(* Hand over the next line, if it is within the limit.                     *)
EmitLine ==
    /\ outcome = "reading"
    /\ \E e \in start + 1 .. Len(input) :
        /\ IsLineEnd(input, start, Len(input), e)
        /\ e - start <= MaxRecord
        /\ lines' = Append(lines, SubSeq(input, start + 1, e))
        /\ start' = e
    /\ UNCHANGED <<input, outcome>>

Finish ==
    /\ outcome = "reading"
    /\ start = Len(input)
    /\ outcome' = "eof"
    /\ UNCHANGED <<input, start, lines>>

(* The next line is longer than MaxRecord: its first MaxRecord bytes hold  *)
(* no newline and more bytes follow them.                                  *)
RejectLine ==
    /\ outcome = "reading"
    /\ Len(input) - start > MaxRecord
    /\ \A j \in start + 1 .. start + MaxRecord : input[j] # NL
    /\ outcome' = "too_long"
    /\ UNCHANGED <<input, start, lines>>

(* Standard input itself may fail at any time.                             *)
InputFails ==
    /\ outcome = "reading"
    /\ outcome' = "io_error"
    /\ UNCHANGED <<input, start, lines>>

SplitterNext == EmitLine \/ Finish \/ RejectLine \/ InputFails

SplitterSpec ==
    /\ SplitterInit
    /\ [][SplitterNext]_splitterVars
    /\ WF_splitterVars(SplitterNext)

=============================================================================
