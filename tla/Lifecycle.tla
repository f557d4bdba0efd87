----------------------------- MODULE Lifecycle -----------------------------
(***************************************************************************)
(* The pure part of src/protocol.rs and src/severity.rs with the C         *)
(* functions they call.  A log line is seen through the search words it    *)
(* contains: `words` is the set of needles that                            *)
(* find_ascii_case_insensitive finds in it.                                *)
(***************************************************************************)
EXTENDS Integers, Sequences, FiniteSetsExt

Cold == 0
Ready == 4
Phases == Cold .. Ready

Events == {"Start", "Authenticate", "Bind", "Ready", "Reset"}
NoEvent == "none"

EventCode ==
    [Start |-> 0, Authenticate |-> 1, Bind |-> 2, Ready |-> 3, Reset |-> 4]

(* Event::detect: the first of these words the line contains decides.      *)
EventWords ==
    << <<"authenticate", "Authenticate">>, <<"ready", "Ready">>,
       <<"reset", "Reset">>, <<"start", "Start">>, <<"bind", "Bind">> >>

DetectEvent(words) ==
    LET found == {i \in DOMAIN EventWords : EventWords[i][1] \in words}
    IN  IF found = {} THEN NoEvent ELSE EventWords[Min(found)][2]

(* ccze_protocol_step: -1 is no transition.                                *)
ProtocolStep(phase, event) ==
    IF EventCode[event] = 4 THEN Cold
    ELSE IF phase \in 0 .. 3 /\ EventCode[event] = phase THEN phase + 1
    ELSE -1

(* ProtocolVerifier::inspect: the phase after the line, and whether the    *)
(* line is reported as a violation (then the phase stays).                 *)
Violates(phase, event) ==
    event # NoEvent /\ ProtocolStep(phase, event) \notin Phases

InspectPhase(phase, event) ==
    IF event = NoEvent \/ Violates(phase, event) THEN phase
    ELSE ProtocolStep(phase, event)

-----------------------------------------------------------------------------

Info == 2
Error == 4
Severities == 0 .. 5

SeverityWords ==
    [trace |-> 0, debug |-> 1, warn |-> 3, error |-> 4, failed |-> 4,
     panic |-> 5, fatal |-> 5]

(* ccze_severity_join with Severity::from_code.                            *)
SeverityJoin(left, right) ==
    IF left \notin Severities \/ right \notin Severities THEN Info
    ELSE Max({left, right})

(* Severity::detect: the join of Info with the severity of every word      *)
(* found.                                                                  *)
DetectSeverity(words) ==
    FoldSet(SeverityJoin, Info,
            {SeverityWords[w] : w \in words \cap DOMAIN SeverityWords})

=============================================================================
