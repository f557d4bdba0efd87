------------------------------ MODULE Seccomp -------------------------------
(***************************************************************************)
(* src/seccomp.rs: a StateBoundSeccomp with its SeccompManager, driven by  *)
(* a protocol verifier of each process (Lifecycle).  Nothing in the        *)
(* repository feeds the one to the other yet; the model's caller does it   *)
(* in the two ways the interface offers.  All calls take &mut self, so     *)
(* there is one thread.  System calls are the numbers of the source.       *)
(***************************************************************************)
EXTENDS Lifecycle, Functions

CONSTANTS
    Pids,
    MaxEvents       \* bound on the events of all processes

ASSUME SeccompAssumption == MaxEvents \in Nat

VARIABLES
    verifier,       \* the phase of each process's ProtocolVerifier
    phases,         \* StateBoundSeccomp.phases
    protocolPhases, \* SeccompManager.protocol_phases
    filters,        \* SeccompManager.filters
    events          \* the events seen in each process's lines

vars == <<verifier, phases, protocolPhases, filters, events>>

Authenticated == 2
Bound == 3

Execve == 59
Privileged == {160, 174, 175}
Dangerous == {Execve, 101, 134, 137} \cup Privileged

Memory == {9, 12, 21}
Files == {2, 3, 4, 5}

(* The rules of each phase, none of which repeats a system call.           *)
AllowedIn(phase) ==
    CASE phase = Cold -> Memory
      [] phase = Cold + 1 -> Memory \cup Files
      [] phase = Authenticated -> Memory \cup Files \cup {41}
      [] phase \in Bound .. Ready -> {}

KilledIn(phase) ==
    CASE phase = Cold -> {}
      [] phase \in Cold + 1 .. Authenticated -> {Execve}
      [] phase \in Bound .. Ready -> Privileged

Rules(phase) ==
    [nr \in AllowedIn(phase) \cup KilledIn(phase) |->
        IF nr \in AllowedIn(phase) THEN "Allow" ELSE "Kill"]

(* A bug for the runs to find: Bound is open like Ready.                   *)
FilterOpenWhenBound(phase) ==
    [phase |-> phase, rules |-> Rules(phase),
     default |-> IF phase >= Bound THEN "Allow" ELSE "Kill"]

(* SeccompFilter::new.                                                     *)
Filter(phase) ==
    [phase |-> phase, rules |-> Rules(phase),
     default |-> IF phase = Ready THEN "Allow" ELSE "Kill"]

GetAction(filter, nr) ==
    IF nr \in DOMAIN filter.rules THEN filter.rules[nr] ELSE filter.default

(* A process without a filter may do anything.                             *)
IsAllowed(pid, nr) ==
    pid \in DOMAIN filters => GetAction(filters[pid], nr) = "Allow"

-----------------------------------------------------------------------------

Init ==
    /\ verifier = [p \in Pids |-> Cold]
    /\ phases = << >>
    /\ protocolPhases = << >>
    /\ filters = << >>
    /\ events = [p \in Pids |-> << >>]

(* HashMap::insert.                                                        *)
Insert(table, key, value) ==
    [k \in DOMAIN table \cup {key} |-> IF k = key THEN value ELSE table[k]]

(* A bug for the runs to find: an installed filter is left as it was.      *)
UpdateProtocolPhaseOnly(pid, phase) ==
    /\ protocolPhases' = Insert(protocolPhases, pid, phase)
    /\ filters' = filters

(* SeccompManager::update_protocol_phase: a filter that is installed       *)
(* follows the phase.                                                      *)
UpdateProtocolPhase(pid, phase) ==
    /\ protocolPhases' = Insert(protocolPhases, pid, phase)
    /\ filters' = IF pid \in DOMAIN filters
                  THEN Insert(filters, pid, Filter(phase))
                  ELSE filters

UpdatePhase(pid, phase) ==
    /\ phases' = Insert(phases, pid, phase)
    /\ UpdateProtocolPhase(pid, phase)

(* apply_protocol_bounds.  It installs a filter in either case; only       *)
(* without a violation it goes through the enforcer's own table.           *)
ApplyProtocolBounds(pid, phase, violation) ==
    /\ protocolPhases' = Insert(protocolPhases, pid, phase)
    /\ filters' = Insert(filters, pid, Filter(phase))
    /\ phases' = IF violation THEN phases ELSE Insert(phases, pid, phase)

InstallFilter(pid) ==
    /\ filters' = Insert(filters, pid, Filter(IF pid \in DOMAIN protocolPhases
                                              THEN protocolPhases[pid] ELSE Cold))
    /\ UNCHANGED <<verifier, phases, protocolPhases, events>>

TotalEvents == FoldFunction(LAMBDA seen, n : Len(seen) + n, 0, events)

(* The verifier inspects a line with an event; its verdict is a phase, or  *)
(* a violation and the phase it stays in.                                  *)
Inspect(pid, event) ==
    /\ TotalEvents < MaxEvents
    /\ events' = [events EXCEPT ![pid] = Append(@, event)]
    /\ verifier' = [verifier EXCEPT ![pid] = InspectPhase(@, event)]

(* The caller hands every verdict to apply_protocol_bounds.                *)
Enforce(pid, event) ==
    /\ Inspect(pid, event)
    /\ ApplyProtocolBounds(pid, verifier'[pid], Violates(verifier[pid], event))

(* Or it only tells the enforcer of the new phase.                         *)
Track(pid, event) ==
    /\ Inspect(pid, event)
    /\ IF Violates(verifier[pid], event)
       THEN UNCHANGED <<phases, protocolPhases, filters>>
       ELSE UpdatePhase(pid, verifier'[pid])

Next ==
    \E p \in Pids :
        \/ InstallFilter(p)
        \/ \E event \in Events : Enforce(p, event)
        \/ \E event \in Events : Track(p, event)

Spec == Init /\ [][Next]_vars

-----------------------------------------------------------------------------

(* What get_phase answers, the manager's table, the installed filter and   *)
(* the verifier never disagree, in whatever order filters are installed    *)
(* and events come.  A process without an entry is Cold: a violation fills *)
(* the manager's table and not the enforcer's, but it moves no phase, so   *)
(* they only differ by entries of that kind.                               *)
TablesAgree ==
    /\ DOMAIN phases \subseteq DOMAIN protocolPhases
    /\ \A p \in Pids :
          /\ p \in DOMAIN phases => phases[p] = verifier[p]
          /\ p \notin DOMAIN phases => verifier[p] = Cold
          /\ p \in DOMAIN protocolPhases => protocolPhases[p] = verifier[p]
          /\ p \in DOMAIN filters => filters[p] = Filter(verifier[p])

(* A process under a filter is allowed a dangerous system call only after  *)
(* the whole handshake came in its lines, in order and with no reset since *)
(* its start; the privileged ones it is never allowed.                     *)
Handshake(seen) ==
    \E a \in DOMAIN seen : \E b \in a .. Len(seen) : \E c \in b .. Len(seen) :
        \E d \in c .. Len(seen) :
            /\ <<seen[a], seen[b], seen[c], seen[d]>>
                   = <<"Start", "Authenticate", "Bind", "Ready">>
            /\ \A i \in a .. Len(seen) : seen[i] # "Reset"

DangerousNeedsHandshake ==
    \A p \in DOMAIN filters, nr \in Dangerous :
        IsAllowed(p, nr) => nr \notin Privileged /\ Handshake(events[p])

=============================================================================
