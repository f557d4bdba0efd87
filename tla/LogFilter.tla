----------------------------- MODULE LogFilter -----------------------------
(***************************************************************************)
(* The filter loop of run() in src/main.rs: every record is classified,    *)
(* pushed through the analytics window and the protocol verifier, and      *)
(* written to standard output, which is flushed once, at the end.          *)
(*                                                                         *)
(* Records come from read_record (module RecordReader, which implements    *)
(* LineSplitter: whole lines, in order).  Standard output is tokio's: a    *)
(* write hands its bytes to a blocking thread and returns, and the next    *)
(* write or flush waits for that thread and learns how it went.            *)
(***************************************************************************)
EXTENDS Lifecycle, Analytics

CONSTANTS
    Lines,          \* the lines: records [words, status, len]
    Options,        \* the sets of options the program may be started with
    MaxLines,       \* bound on the records of one run
    Window,         \* --analytics-window
    Thresholds      \* the values of --anomaly-threshold, as fractions

(* Any number may be given; over 0, a fraction is an infinity.  NaN acts   *)
(* like the positive one: no z-score reaches it.                           *)
Fractions == {f \in [num : Int, den : Nat] : f.num # 0 \/ f.den # 0}

ASSUME FilterAssumption ==
    /\ Options \subseteq SUBSET {"analytics", "verify"}
    /\ MaxLines \in Nat
    /\ Window \in Nat
    /\ Thresholds \subseteq Fractions
    /\ \A l \in Lines : l.len \in Nat

VARIABLES
    options,        \* which of --analytics and --verify-protocol are given
    threshold,      \* AnalyticsWindow.threshold
    phase,          \* ProtocolVerifier.phase
    window,         \* the samples in the AnalyticsWindow
    pc,             \* where run() is
    rendered,       \* the record it is about to write, or << >>
    inflight,       \* what the blocking thread has been given
    writeError,     \* how the last blocking write ended, until it is noticed
    delivered,      \* what has reached standard output
    history         \* every record read, with the notes made on it

filterVars == <<options, threshold, phase, window, pc, rendered, inflight,
                writeError, delivered, history>>

(* The places run() can be at; exit0 and exit1 are the exit codes.         *)
Places == {"reading", "writing", "flushing", "exit0", "exit1"}

WriteErrors == {"none", "broken_pipe", "other"}

Severity(l) == SeverityJoin(l.status, DetectSeverity(l.words))
IsError(l) == Severity(l) >= Error
Sample(l) == [len |-> l.len, error |-> IsError(l)]

FilterInit ==
    /\ options \in Options
    /\ threshold \in Thresholds
    /\ phase = Cold
    /\ window = << >>
    /\ pc = "reading"
    /\ rendered = << >>
    /\ inflight = << >>
    /\ writeError = "none"
    /\ delivered = << >>
    /\ history = << >>

(* Bugs for the runs to find: a violation that advances the verifier, and  *)
(* samples that are never dropped.                                         *)
PhaseAfterTrusting(l) ==
    LET event == DetectEvent(l.words)
    IN  IF "verify" \in options /\ event # NoEvent
        THEN (EventCode[event] + 1) % 5 ELSE phase
WindowAfterGrowing(l) ==
    IF "analytics" \in options THEN Append(window, Sample(l)) ELSE window

PhaseAfter(l) ==
    IF "verify" \in options
    THEN InspectPhase(phase, DetectEvent(l.words)) ELSE phase

WindowAfter(l) ==
    IF "analytics" \in options
    THEN PushSample(window, Sample(l), WindowCapacity(Window)) ELSE window

(* The notes appended to the rendered line.                                *)
Annotate(l) ==
    [ line      |-> l,
      anomaly   |-> /\ "analytics" \in options
                    /\ Anomaly(WindowAfter(l), threshold),
      violation |-> /\ "verify" \in options
                    /\ Violates(phase, DetectEvent(l.words)) ]

(* One record is read, processed and noted; the write comes next.          *)
ReadRecord ==
    /\ pc = "reading"
    /\ Len(history) < MaxLines
    /\ \E l \in Lines :
        /\ rendered' = <<Annotate(l)>>
        /\ history' = Append(history, Annotate(l))
        /\ phase' = PhaseAfter(l)
        /\ window' = WindowAfter(l)
    /\ pc' = "writing"
    /\ UNCHANGED <<options, threshold, inflight, writeError, delivered>>

(* main(): a broken pipe ends the program quietly, other errors with 1.    *)
ExitFor(error) == IF error = "broken_pipe" THEN "exit0" ELSE "exit1"

(* A bug for the runs to find: the bytes are handed over without waiting.  *)
WriteAllUnwaited ==
    /\ pc = "writing"
    /\ inflight' = rendered
    /\ rendered' = << >>
    /\ pc' = "reading"
    /\ UNCHANGED <<options, threshold, phase, window, writeError, delivered,
                   history>>

(* stdout.write_all(&rendered).await: wait for the write before this one;  *)
(* if it failed the `?` returns its error, otherwise hand this one over.   *)
WriteAll ==
    /\ pc = "writing"
    /\ inflight = << >>
    /\ rendered' = << >>
    /\ IF writeError = "none"
          THEN /\ inflight' = rendered
               /\ pc' = "reading"
          ELSE /\ pc' = ExitFor(writeError)
               /\ UNCHANGED inflight
    /\ UNCHANGED <<options, threshold, phase, window, writeError, delivered,
                   history>>

Running == pc \notin {"exit0", "exit1"}

(* The blocking thread writes what it was given, unless the process exits  *)
(* first.                                                                  *)
WriteDone ==
    /\ Running
    /\ inflight # << >>
    /\ delivered' = delivered \o inflight
    /\ inflight' = << >>
    /\ UNCHANGED <<options, threshold, phase, window, pc, rendered, writeError,
                   history>>

WriteFails ==
    /\ Running
    /\ inflight # << >>
    /\ inflight' = << >>
    /\ writeError' \in WriteErrors \ {"none"}
    /\ UNCHANGED <<options, threshold, phase, window, pc, rendered, delivered,
                   history>>

(* read_record returns 0.                                                  *)
EndOfInput ==
    /\ pc = "reading"
    /\ pc' = "flushing"
    /\ UNCHANGED <<options, threshold, phase, window, rendered, inflight,
                   writeError, delivered, history>>

(* read_record fails (a record too long, a failed read): `?` returns       *)
(* before the flush, and main() calls process::exit(1).                    *)
InputError ==
    /\ pc = "reading"
    /\ pc' = "exit1"
    /\ UNCHANGED <<options, threshold, phase, window, rendered, inflight,
                   writeError, delivered, history>>

(* A bug for the runs to find: the loop ends without the flush.            *)
FlushSkipped ==
    /\ pc = "flushing"
    /\ pc' = IF writeError = "none" THEN "exit0" ELSE ExitFor(writeError)
    /\ UNCHANGED <<options, threshold, phase, window, rendered, inflight,
                   writeError, delivered, history>>

(* stdout.flush().await, then main() returns.                              *)
Flush ==
    /\ pc = "flushing"
    /\ inflight = << >>
    /\ pc' = IF writeError = "none" THEN "exit0" ELSE ExitFor(writeError)
    /\ UNCHANGED <<options, threshold, phase, window, rendered, inflight,
                   writeError, delivered, history>>

FilterNext ==
    \/ ReadRecord
    \/ WriteAll
    \/ WriteDone
    \/ WriteFails
    \/ EndOfInput
    \/ InputError
    \/ Flush

FilterSpec == FilterInit /\ [][FilterNext]_filterVars

-----------------------------------------------------------------------------

(* Standard output shows the records in order, with no gap and no repeat:  *)
(* as long as no write has failed, what is delivered, in flight and about  *)
(* to be written is what was read.                                         *)
OutputInOrder ==
    IF writeError = "none"
    THEN delivered \o inflight \o rendered = history
    ELSE IsPrefix(delivered, history)

(* An exit code of 0 without a broken pipe means every record read has     *)
(* reached standard output; an input error may cost only the last one,     *)
(* which the exit can overtake.                                            *)
ExitKeepsOutput ==
    writeError = "none" =>
        /\ pc = "exit0" => delivered = history
        /\ pc = "exit1" => Len(history) - Len(delivered) <= 1

(* The records not reported as violations, from the last Reset on, are the *)
(* lifecycle's steps in order, and their number is the phase: no service   *)
(* is Ready without its handshake, and a violation leaves no trace in the  *)
(* verifier.                                                               *)
Lifecycle4 == <<"Start", "Authenticate", "Bind", "Ready">>

EventOf(note) == DetectEvent(note.line.words)

Accepted(notes) ==
    {i \in DOMAIN notes : ~notes[i].violation /\ EventOf(notes[i]) # NoEvent}

SinceReset(notes) ==
    {i \in Accepted(notes) :
        \A j \in Accepted(notes) : EventOf(notes[j]) = "Reset" => j < i}

HandshakeInOrder ==
    "verify" \in options =>
        \E step \in [1 .. phase -> SinceReset(history)] :
            /\ \A n \in 1 .. phase :
                  /\ EventOf(history[step[n]]) = Lifecycle4[n]
                  /\ \A m \in 1 .. n - 1 : step[m] < step[n]
            /\ \A i \in SinceReset(history) : \E n \in 1 .. phase : step[n] = i

(* A record that is not marked for the errors around it is marked for its  *)
(* length only when the window holds more samples than the square of the   *)
(* threshold: no sample can lie further than sqrt(n - 1) standard          *)
(* deviations from the mean of n.  With the default of 3.5 that spares the *)
(* first 13 records.  A threshold of 0 or less marks every record, one     *)
(* among lines of equal lengths as well.                                   *)
LengthNeedsSamples ==
    "analytics" \in options /\ history # << >> =>
        /\ threshold.num <= 0 => Last(history).anomaly
        /\ Last(history).anomaly /\ threshold.num > 0 =>
              \/ ErrorAnomaly(window)
              \/ (Len(window) - 1) * threshold.den * threshold.den
                     >= threshold.num * threshold.num

(* The window holds exactly the last records, as many as its capacity, and *)
(* the note on the last record is the analysis of those records.           *)
WindowIsRecent ==
    "analytics" \in options =>
        LET n == Min({Len(history), WindowCapacity(Window)})
        IN  /\ window = [i \in 1 .. n |->
                            Sample(history[Len(history) - n + i].line)]
            /\ n > 0 => Last(history).anomaly
                            = Anomaly(window, threshold)

=============================================================================
