--------------------- MODULE SeccompConfigProofs -----------------------
(***************************************************************************)
(* Two managers whose copies of one thing must not drift apart.  For any   *)
(* processes and events the phase tables of the seccomp enforcer, its      *)
(* manager and the verifier agree, and a process under a filter is allowed *)
(* a dangerous system call only after its whole handshake.  For any keys,  *)
(* texts and watchers a configuration file gives its readers the answers   *)
(* that memory gave, and a fix is reported only when it is on disk.        *)
(***************************************************************************)
EXTENDS Seccomp, Config, SequenceTheorems, TLAPS

(* The phase a verifier is in after an event is a phase.                   *)
LEMMA InspectType ==
    ASSUME NEW phase \in Phases, NEW event \in Events
    PROVE  InspectPhase(phase, event) \in Phases
BY DEF InspectPhase, Violates, Phases, Cold, Ready

(* A violation leaves the verifier where it was.                           *)
LEMMA ViolationStays ==
    ASSUME NEW phase, NEW event, Violates(phase, event)
    PROVE  InspectPhase(phase, event) = phase
BY DEF InspectPhase

(* One entry added to, or replaced in, a table.                            *)
Extends(table1, table2, key, value) ==
    /\ DOMAIN table2 = DOMAIN table1 \cup {key}
    /\ table2[key] = value
    /\ \A k \in DOMAIN table1 \ {key} : table2[k] = table1[k]

LEMMA EntryAdded ==
    ASSUME NEW table, NEW key, NEW value
    PROVE  Extends(table, Insert(table, key, value), key, value)
BY DEF Insert, Extends

(* TablesAgree with the verifier's type: inductive, since every call       *)
(* enters the verifier's own phase.                                        *)
IInv ==
    /\ verifier \in [Pids -> Phases]
    /\ TablesAgree

(* Before any event there is no entry and every verifier is Cold.          *)
LEMMA InitHolds == Init => IInv
BY DEF Init, IInv, TablesAgree, Phases, Cold, Ready

(* Every call keeps the tables together: Enforce and Track enter the phase *)
(* the verifier has just moved to, InstallFilter the one it had.           *)
LEMMA StepHolds == IInv /\ [Next]_vars => IInv'
<1> SUFFICES ASSUME IInv, [Next]_vars PROVE IInv'
  OBVIOUS
<1> USE DEF IInv
<1>1. CASE UNCHANGED vars
  BY <1>1 DEF vars, TablesAgree
<1>2. ASSUME NEW p \in Pids, InstallFilter(p) PROVE IInv'
  <2>1. verifier' = verifier /\ phases' = phases
            /\ protocolPhases' = protocolPhases
    BY <1>2 DEF InstallFilter
  <2>2. filters' = Insert(filters, p, Filter(verifier[p]))
    BY <1>2 DEF InstallFilter, TablesAgree
  <2>3. Extends(filters, filters', p, Filter(verifier[p]))
    BY <2>2, EntryAdded
  <2> QED
    BY <2>1, <2>3 DEF TablesAgree, Extends
<1>3. ASSUME NEW p \in Pids, NEW event \in Events, Enforce(p, event) PROVE IInv'
  <2> DEFINE next == InspectPhase(verifier[p], event)
  <2>1. verifier' = [verifier EXCEPT ![p] = next]
    BY <1>3 DEF Enforce, Inspect
  <2>2. next \in Phases /\ verifier' \in [Pids -> Phases] /\ verifier'[p] = next
    BY <2>1, InspectType
  <2>3. /\ Extends(protocolPhases, protocolPhases', p, next)
        /\ Extends(filters, filters', p, Filter(next))
    BY <1>3, <2>2, EntryAdded DEF Enforce, ApplyProtocolBounds
  <2>4. \A q \in Pids : q # p => verifier'[q] = verifier[q]
    BY <2>1
  <2>5. CASE Violates(verifier[p], event)
    <3>1. phases' = phases
      BY <1>3, <2>5 DEF Enforce, ApplyProtocolBounds
    <3>2. next = verifier[p]
      BY <2>5, ViolationStays
    <3> QED
      BY <3>1, <3>2, <2>2, <2>3, <2>4 DEF TablesAgree, Extends
  <2>6. CASE ~Violates(verifier[p], event)
    <3>1. Extends(phases, phases', p, next)
      BY <1>3, <2>2, <2>6, EntryAdded DEF Enforce, ApplyProtocolBounds
    <3> QED
      BY <3>1, <2>2, <2>3, <2>4 DEF TablesAgree, Extends
  <2> QED
    BY <2>5, <2>6
<1>4. ASSUME NEW p \in Pids, NEW event \in Events, Track(p, event) PROVE IInv'
  <2> DEFINE next == InspectPhase(verifier[p], event)
  <2>1. verifier' = [verifier EXCEPT ![p] = next]
    BY <1>4 DEF Track, Inspect
  <2>2. next \in Phases /\ verifier' \in [Pids -> Phases] /\ verifier'[p] = next
    BY <2>1, InspectType
  <2>3. \A q \in Pids : q # p => verifier'[q] = verifier[q]
    BY <2>1
  <2>4. CASE Violates(verifier[p], event)
    <3>1. UNCHANGED <<phases, protocolPhases, filters>>
      BY <1>4, <2>4 DEF Track
    <3>2. next = verifier[p]
      BY <2>4, ViolationStays
    <3> QED
      BY <3>1, <3>2, <2>1, <2>2, <2>3 DEF TablesAgree
  <2>5. CASE ~Violates(verifier[p], event)
    <3>1. /\ Extends(phases, phases', p, next)
          /\ Extends(protocolPhases, protocolPhases', p, next)
      BY <1>4, <2>2, <2>5, EntryAdded
      DEF Track, UpdatePhase, UpdateProtocolPhase
    <3>2. CASE p \in DOMAIN filters
      <4>1. Extends(filters, filters', p, Filter(next))
        BY <1>4, <2>2, <2>5, <3>2, EntryAdded
        DEF Track, UpdatePhase, UpdateProtocolPhase
      <4> QED
        BY <4>1, <3>1, <2>2, <2>3 DEF TablesAgree, Extends
    <3>3. CASE p \notin DOMAIN filters
      <4>1. filters' = filters
        BY <1>4, <2>5, <3>3 DEF Track, UpdatePhase, UpdateProtocolPhase
      <4> QED
        BY <4>1, <3>1, <3>3, <2>2, <2>3 DEF TablesAgree, Extends
    <3> QED
      BY <3>2, <3>3
  <2> QED
    BY <2>4, <2>5
<1> QED
  BY <1>1, <1>2, <1>3, <1>4 DEF Next

(* The enforcer's table, the manager's, the filters and the verifiers      *)
(* agree, for any processes, events and order of calls.                    *)
THEOREM TablesAlwaysAgree == Spec => []TablesAgree
<1>1. IInv => TablesAgree
  BY DEF IInv
<1> QED
  BY InitHolds, StepHolds, <1>1, PTL DEF Spec

-----------------------------------------------------------------------------

(* The steps of the handshake up to a phase, at increasing places among    *)
(* the events seen, and no reset since the first of them.                  *)
Earns(at, phase, seen) ==
    /\ at \in [1 .. phase -> DOMAIN seen]
    /\ \A i \in 1 .. phase : EventCode[seen[at[i]]] = i - 1
    /\ \A i, j \in 1 .. phase : i < j => at[i] < at[j]
    /\ \A k \in DOMAIN seen : phase > 0 /\ at[1] <= k => seen[k] # "Reset"

(* A verifier is in no phase its process's events have not earned.         *)
PhasesEarned ==
    /\ events \in [Pids -> Seq(Events)]
    /\ \A p \in Pids : \E at : Earns(at, verifier[p], events[p])

LEMMA ColdIsEarned ==
    ASSUME NEW seen \in Seq(Events)
    PROVE  \E at : Earns(at, Cold, seen)
<1> DEFINE at == [i \in 1 .. 0 |-> 1]
<1>1. Earns(at, Cold, seen)
  BY DEF Earns, Cold
<1>2. QED
  BY <1>1

(* What the events earn, the verifier's next phase earns of them and the   *)
(* next event: a reset asks for nothing, a step of the handshake for this  *)
(* event after the earlier ones, a violation for what was there before.    *)
LEMMA NextPhaseEarned ==
    ASSUME NEW seen \in Seq(Events), NEW event \in Events,
           NEW phase \in Phases, NEW at, Earns(at, phase, seen)
    PROVE  \E to : Earns(to, InspectPhase(phase, event), Append(seen, event))
<1> DEFINE now == Append(seen, event)
<1> DEFINE n == Len(seen)
<1>1. /\ now \in Seq(Events) /\ Len(now) = n + 1 /\ n \in Nat
      /\ DOMAIN now = 1 .. n + 1 /\ DOMAIN seen = 1 .. n
      /\ now[n + 1] = event
      /\ \A k \in 1 .. n : now[k] = seen[k]
  BY AppendProperties, LenProperties
<1>2. event # NoEvent /\ EventCode[event] \in 0 .. 4
      /\ (event = "Reset" <=> EventCode[event] = 4)
  BY DEF Events, NoEvent, EventCode
<1>3. CASE event = "Reset"
  <2>1. InspectPhase(phase, event) = Cold
    BY <1>2, <1>3 DEF InspectPhase, Violates, ProtocolStep, Phases, Cold, Ready
  <2>2. QED
    BY <1>1, <2>1, ColdIsEarned
<1>4. CASE event # "Reset" /\ EventCode[event] = phase
  <2>1. InspectPhase(phase, event) = phase + 1 /\ phase \in 0 .. 3
    BY <1>2, <1>4 DEF InspectPhase, Violates, ProtocolStep, Phases, Cold, Ready
  <2> DEFINE to == [i \in 1 .. phase + 1 |-> IF i = phase + 1 THEN n + 1 ELSE at[i]]
  <2>2. \A i \in 1 .. phase : at[i] \in 1 .. n /\ to[i] = at[i]
    BY <1>1, <2>1 DEF Earns
  <2>3. to[phase + 1] = n + 1
    BY <2>1
  <2>4. to \in [1 .. phase + 1 -> DOMAIN now]
    <3>1. \A i \in 1 .. phase + 1 : to[i] \in 1 .. n + 1
      <4>1. \A i \in 1 .. phase + 1 : i \in 1 .. phase \/ i = phase + 1
        BY <2>1
      <4>2. \A i \in 1 .. phase : to[i] \in 1 .. n + 1
        BY <1>1, <2>2
      <4>3. n + 1 \in 1 .. n + 1
        BY <1>1
      <4>4. QED
        BY <2>3, <4>1, <4>2, <4>3
    <3>2. to = [i \in 1 .. phase + 1 |-> to[i]]
      OBVIOUS
    <3> HIDE DEF to
    <3>3. QED
      BY <1>1, <3>1, <3>2
  <2>5. \A i \in 1 .. phase + 1 : EventCode[now[to[i]]] = i - 1
    <3>1. ASSUME NEW i \in 1 .. phase PROVE EventCode[now[to[i]]] = i - 1
      <4>1. now[to[i]] = seen[at[i]]
        BY <1>1, <2>2
      <4>2. QED
        BY <4>1 DEF Earns
    <3>2. EventCode[now[to[phase + 1]]] = phase
      BY <1>1, <1>4, <2>3
    <3>3. \A i \in 1 .. phase + 1 : i \in 1 .. phase \/ i = phase + 1
      BY <2>1
    <3>4. phase = (phase + 1) - 1
      BY <2>1
    <3> HIDE DEF to, now
    <3>5. QED
      BY <3>1, <3>2, <3>3, <3>4
  <2>6. \A i, j \in 1 .. phase + 1 : i < j => to[i] < to[j]
    <3>1. ASSUME NEW i \in 1 .. phase + 1, NEW j \in 1 .. phase + 1, i < j
          PROVE  to[i] < to[j]
      <4>1. i \in 1 .. phase /\ (j \in 1 .. phase \/ j = phase + 1)
        BY <2>1, <3>1
      <4>2. CASE j \in 1 .. phase
        BY <2>2, <3>1, <4>1, <4>2 DEF Earns
      <4>3. CASE j = phase + 1
        <5>1. to[i] \in 1 .. n /\ to[j] = n + 1
          BY <2>2, <2>3, <4>1, <4>3
        <5> HIDE DEF to
        <5>2. QED
          BY <1>1, <5>1
      <4>4. QED
        BY <4>1, <4>2, <4>3
    <3>2. QED
      BY <3>1
  <2>7. ASSUME NEW k \in DOMAIN now, to[1] <= k PROVE now[k] # "Reset"
    <3>1. CASE k = n + 1
      BY <1>1, <1>4, <3>1
    <3>2. CASE k \in 1 .. n
      <4>1. phase # 0
        BY <1>1, <2>3, <2>7, <3>2
      <4>2. phase > 0 /\ to[1] = at[1]
        BY <2>1, <2>2, <4>1
      <4>3. QED
        BY <1>1, <2>7, <3>2, <4>2 DEF Earns
    <3>3. QED
      BY <1>1, <3>1, <3>2
  <2>8. Earns(to, phase + 1, now)
    BY <2>4, <2>5, <2>6, <2>7 DEF Earns
  <2>9. QED
    BY <2>1, <2>8
<1>5. CASE event # "Reset" /\ EventCode[event] # phase
  <2>1. InspectPhase(phase, event) = phase
    BY <1>2, <1>5 DEF InspectPhase, Violates, ProtocolStep, Phases, Cold, Ready
  <2>2. phase \in Nat
    BY DEF Phases, Cold, Ready
  <2>3. at \in [1 .. phase -> DOMAIN now]
    BY <1>1 DEF Earns
  <2>4. \A i \in 1 .. phase : now[at[i]] = seen[at[i]]
    BY <1>1 DEF Earns
  <2>5. \A k \in DOMAIN now : phase > 0 /\ at[1] <= k => now[k] # "Reset"
    BY <1>1, <1>5 DEF Earns
  <2>6. Earns(at, phase, now)
    BY <2>3, <2>4, <2>5 DEF Earns
  <2>7. QED
    BY <2>1, <2>6
<1>6. QED
  BY <1>3, <1>4, <1>5

LEMMA InitEarned == Init => PhasesEarned
<1> SUFFICES ASSUME Init PROVE PhasesEarned
  OBVIOUS
<1>1. << >> \in Seq(Events)
  BY EmptySeq
<1>2. QED
  BY <1>1, ColdIsEarned DEF Init, PhasesEarned

LEMMA StepEarned == IInv /\ PhasesEarned /\ [Next]_vars => PhasesEarned'
<1> SUFFICES ASSUME IInv, PhasesEarned, [Next]_vars PROVE PhasesEarned'
  OBVIOUS
<1>1. CASE UNCHANGED <<verifier, events>>
  BY <1>1 DEF PhasesEarned
<1>2. ASSUME NEW p \in Pids, NEW event \in Events, Inspect(p, event)
      PROVE  PhasesEarned'
  <2>1. /\ events' = [events EXCEPT ![p] = Append(@, event)]
        /\ verifier' = [verifier EXCEPT ![p] = InspectPhase(@, event)]
    BY <1>2 DEF Inspect
  <2>2. events[p] \in Seq(Events) /\ verifier[p] \in Phases
    BY DEF PhasesEarned, IInv
  <2>3. /\ events'[p] = Append(events[p], event)
        /\ verifier'[p] = InspectPhase(verifier[p], event)
        /\ \A q \in Pids \ {p} :
              events'[q] = events[q] /\ verifier'[q] = verifier[q]
    BY <2>1 DEF PhasesEarned, IInv
  <2>4. events' \in [Pids -> Seq(Events)]
    BY <2>1, <2>2, AppendProperties DEF PhasesEarned
  <2>5. \E to : Earns(to, verifier'[p], events'[p])
    <3>1. PICK at : Earns(at, verifier[p], events[p])
      BY DEF PhasesEarned
    <3>2. QED
      BY <2>2, <2>3, <3>1, NextPhaseEarned
  <2>6. \A q \in Pids \ {p} : \E at : Earns(at, verifier'[q], events'[q])
    BY <2>3 DEF PhasesEarned
  <2>7. QED
    BY <2>4, <2>5, <2>6 DEF PhasesEarned
<1>3. QED
  BY <1>1, <1>2 DEF Next, InstallFilter, Enforce, Track, vars

(* Of all the filters only the one of Ready allows a dangerous system      *)
(* call, and none allows a privileged one.                                 *)
LEMMA OnlyReadyAllows ==
    ASSUME NEW phase \in Phases, NEW nr \in Dangerous,
           GetAction(Filter(phase), nr) = "Allow"
    PROVE  phase = Ready /\ nr \notin Privileged
<1> DEFINE rules == Rules(phase)
<1>1. nr \in {59, 101, 134, 137, 160, 174, 175}
  BY DEF Dangerous, Execve, Privileged
<1>2. nr \notin AllowedIn(phase)
  BY <1>1 DEF AllowedIn, Memory, Files, Phases, Cold, Ready, Authenticated, Bound
<1>3. nr \notin KilledIn(phase)
  BY <1>2 DEF GetAction, Filter, Rules
<1>4. phase = Ready
  BY <1>2, <1>3 DEF GetAction, Filter, Rules
<1>5. QED
  BY <1>3, <1>4 DEF KilledIn, Cold, Ready, Authenticated, Bound, Privileged

(* A process in Ready has gone through the whole handshake.                *)
LEMMA ReadyIsHandshake ==
    ASSUME NEW seen \in Seq(Events), NEW at, Earns(at, Ready, seen)
    PROVE  Handshake(seen)
<1>1. /\ at[1] \in DOMAIN seen /\ at[2] \in DOMAIN seen
      /\ at[3] \in DOMAIN seen /\ at[4] \in DOMAIN seen
      /\ at[1] < at[2] /\ at[2] < at[3] /\ at[3] < at[4]
  BY DEF Earns, Ready
<1>2. /\ EventCode[seen[at[1]]] = 0 /\ EventCode[seen[at[2]]] = 1
      /\ EventCode[seen[at[3]]] = 2 /\ EventCode[seen[at[4]]] = 3
  BY DEF Earns, Ready
<1>3. \A k \in DOMAIN seen : seen[k] \in Events
  OBVIOUS
<1>4. /\ seen[at[1]] = "Start" /\ seen[at[2]] = "Authenticate"
      /\ seen[at[3]] = "Bind" /\ seen[at[4]] = "Ready"
  BY <1>1, <1>2, <1>3 DEF EventCode, Events
<1>5. \A k \in at[1] .. Len(seen) : seen[k] # "Reset"
  BY <1>1 DEF Earns, Ready
<1>6. /\ at[2] \in at[1] .. Len(seen) /\ at[3] \in at[2] .. Len(seen)
      /\ at[4] \in at[3] .. Len(seen)
  BY <1>1
<1>7. QED
  BY <1>1, <1>4, <1>5, <1>6 DEF Handshake

(* A process under a filter is allowed a dangerous system call only when   *)
(* its lines showed the whole handshake, in order and not reset since; a   *)
(* privileged one never.  For any processes, events and order of calls.    *)
THEOREM DangerousEarned == Spec => []DangerousNeedsHandshake
<1>1. ASSUME DOMAIN filters \subseteq Pids, IInv, PhasesEarned
      PROVE  DangerousNeedsHandshake
  <2> SUFFICES ASSUME NEW p \in DOMAIN filters, NEW nr \in Dangerous,
                      IsAllowed(p, nr)
               PROVE  nr \notin Privileged /\ Handshake(events[p])
    BY DEF DangerousNeedsHandshake
  <2>1. p \in Pids /\ filters[p] = Filter(verifier[p]) /\ verifier[p] \in Phases
    BY <1>1 DEF IInv, TablesAgree
  <2>2. verifier[p] = Ready /\ nr \notin Privileged
    BY <2>1, OnlyReadyAllows DEF IsAllowed
  <2>3. PICK at : Earns(at, Ready, events[p])
    BY <1>1, <2>1, <2>2 DEF PhasesEarned
  <2>4. events[p] \in Seq(Events)
    BY <1>1, <2>1 DEF PhasesEarned
  <2>5. QED
    BY <2>2, <2>3, <2>4, ReadyIsHandshake
<1>2. Init => DOMAIN filters \subseteq Pids
  BY DEF Init
<1>3. DOMAIN filters \subseteq Pids /\ [Next]_vars => (DOMAIN filters \subseteq Pids)'
  <2> SUFFICES ASSUME DOMAIN filters \subseteq Pids, [Next]_vars
               PROVE  DOMAIN filters' \subseteq Pids
    OBVIOUS
  <2>1. \/ filters' = filters
        \/ \E p \in Pids : \E value : filters' = Insert(filters, p, value)
    BY DEF Next, InstallFilter, Enforce, Track, ApplyProtocolBounds, UpdatePhase,
           UpdateProtocolPhase, vars
  <2>2. ASSUME NEW p \in Pids, NEW value, filters' = Insert(filters, p, value)
        PROVE  DOMAIN filters' \subseteq Pids
    <3>1. Extends(filters, filters', p, value)
      BY <2>2, EntryAdded
    <3>2. QED
      BY <3>1 DEF Extends
  <2>3. QED
    BY <2>1, <2>2
<1>4. QED
  BY InitHolds, StepHolds, InitEarned, StepEarned, <1>1, <1>2, <1>3, PTL DEF Spec

-----------------------------------------------------------------------------

(* The kinds of values, each with the texts it prints as.                  *)
WellFormed(value) ==
    /\ value.kind \in {"String", "Integer", "Float", "Boolean"}
    /\ value.kind = "Integer" => value.text \in Range(Numeral)
    /\ value.kind = "Boolean" => value.text \in {"true", "false"}

(* What a number prints as reads as that number, or as the boolean that    *)
(* stands for it.                                                          *)
LEMMA PrintedNumber ==
    ASSUME NEW t \in Range(Numeral)
    PROVE  /\ t \in DOMAIN Numeral /\ Numeral[t] = t
           /\ t \in TrueWords => t = "1"
           /\ t \in FalseWords => t = "0"
           /\ t # ""
BY ConfigAssumption DEF Range, TrueWords, FalseWords

LEMMA KindAndText ==
    ASSUME NEW kind, NEW text, NEW value, value = Value(kind, text)
    PROVE  value.kind = kind /\ value.text = text
BY DEF Value

(* from_str, by what it gives.                                             *)
LEMMA ParseCases ==
    ASSUME NEW t, NEW back, back = ParseValue(t)
    PROVE  /\ t \in TrueWords \cup {""} => back.kind = "Boolean" /\ back.text = "true"
           /\ t \in FalseWords => back.kind = "Boolean" /\ back.text = "false"
           /\ t \notin TrueWords \cup FalseWords \cup {""} =>
                 /\ t \in DOMAIN Numeral => back.kind = "Integer" /\ back.text = Numeral[t]
                 /\ t \notin DOMAIN Numeral => back.kind \in {"Float", "String"}
<1>1. t \in FalseWords => t \notin TrueWords \cup {""}
    BY DEF TrueWords, FalseWords
<1>2. ASSUME t \in TrueWords \cup {""}
      PROVE  back.kind = "Boolean" /\ back.text = "true"
    <2>1. back = Value("Boolean", "true")
        BY <1>2, Zenon DEF ParseValue
    <2> QED BY <2>1, KindAndText, Zenon
<1>3. ASSUME t \in FalseWords
      PROVE  back.kind = "Boolean" /\ back.text = "false"
    <2>1. back = Value("Boolean", "false")
        BY <1>1, <1>3, Zenon DEF ParseValue
    <2> QED BY <2>1, KindAndText, Zenon
<1>4. ASSUME t \notin TrueWords \cup FalseWords \cup {""}, t \in DOMAIN Numeral
      PROVE  back.kind = "Integer" /\ back.text = Numeral[t]
    <2>1. PICK n : n = Numeral[t]
        OBVIOUS
    <2>2. back = Value("Integer", n)
        BY <1>4, <2>1, Zenon DEF ParseValue
    <2>3. back.kind = "Integer" /\ back.text = n
        BY <2>2, KindAndText, Zenon
    <2> QED BY <2>1, <2>3
<1>5. ASSUME t \notin TrueWords \cup FalseWords \cup {""}, t \notin DOMAIN Numeral
      PROVE  back.kind \in {"Float", "String"}
    <2>1. PICK n : n = Decimal[t]
        OBVIOUS
    <2>2. back = Value("Float", n) \/ back = Value("String", t)
        BY <1>5, <2>1, Zenon DEF ParseValue
    <2>3. CASE back = Value("Float", n)
        <3>1. back.kind = "Float"
            BY <2>3, KindAndText, Zenon
        <3> QED BY <3>1
    <2>4. CASE back = Value("String", t)
        <3>1. back.kind = "String"
            BY <2>4, KindAndText, Zenon
        <3> QED BY <3>1
    <2> QED BY <2>2, <2>3, <2>4
<1> QED BY <1>2, <1>3, <1>4, <1>5

(* The kind a value gets when it is read back has its readers' answers.    *)
LEMMA ReadingSurvives ==
    ASSUME NEW value, NEW t, t = value.text, WellFormed(value)
    PROVE  KeepsReadings(value, ParseValue(t))
<1> DEFINE back == ParseValue(t)
<1> HIDE DEF back
<1> SUFFICES KeepsReadings(value, back)
    BY DEF back
<1>0. back = ParseValue(t)
    BY DEF back
<1>1. CASE t \in TrueWords \cup {""}
    <2>1. back.kind = "Boolean" /\ back.text = "true"
        BY <1>1, <1>0, ParseCases
    <2>2. AsBoolean(back) = "true" /\ AsInteger(back) = "1"
        BY <2>1 DEF AsBoolean, AsInteger
    <2>3. AsBoolean(value) \in {"none", "true"}
        BY <1>1, PrintedNumber DEF WellFormed, AsBoolean, TrueWords, FalseWords
    <2>4. AsInteger(value) \in {"none", "1"}
        <3>1. t \in DOMAIN Numeral => Numeral[t] = "1"
            BY <1>1, ConfigAssumption DEF TrueWords, FalseWords
        <3> QED BY <1>1, <3>1, PrintedNumber DEF WellFormed, AsInteger, TrueWords
    <2> QED BY <2>2, <2>3, <2>4 DEF KeepsReadings
<1>2. CASE t \in FalseWords
    <2>1. back.kind = "Boolean" /\ back.text = "false"
        BY <1>2, <1>0, ParseCases
    <2>2. AsBoolean(back) = "false" /\ AsInteger(back) = "0"
        BY <2>1 DEF AsBoolean, AsInteger
    <2>3. AsBoolean(value) \in {"none", "false"}
        BY <1>2, PrintedNumber DEF WellFormed, AsBoolean, TrueWords, FalseWords
    <2>4. AsInteger(value) \in {"none", "0"}
        <3>1. t \in DOMAIN Numeral => Numeral[t] = "0"
            BY <1>2, ConfigAssumption DEF TrueWords, FalseWords
        <3> QED BY <1>2, <3>1, PrintedNumber DEF WellFormed, AsInteger, FalseWords
    <2> QED BY <2>2, <2>3, <2>4 DEF KeepsReadings
<1>3. CASE t \notin TrueWords \cup FalseWords \cup {""}
    <2>1. value.kind # "Boolean"
        BY <1>3 DEF WellFormed, TrueWords, FalseWords
    <2>2. CASE value.kind = "Integer"
        <3>1. t \in DOMAIN Numeral /\ Numeral[t] = t
            BY <2>2, PrintedNumber DEF WellFormed
        <3>2. back.kind = "Integer" /\ back.text = t
            BY <1>3, <3>1, <1>0, ParseCases
        <3> QED BY <2>2, <3>2 DEF KeepsReadings, AsBoolean, AsInteger
    <2>3. CASE value.kind = "String"
        <3>1. AsBoolean(value) = "none"
            BY <1>3, <2>3 DEF AsBoolean
        <3>2. CASE t \in DOMAIN Numeral
            <4>1. back.kind = "Integer" /\ back.text = Numeral[t]
                BY <1>3, <3>2, <1>0, ParseCases
            <4> QED BY <2>3, <3>1, <3>2, <4>1 DEF KeepsReadings, AsInteger
        <3>3. CASE t \notin DOMAIN Numeral
            BY <2>3, <3>1, <3>3 DEF KeepsReadings, AsInteger
        <3> QED BY <3>2, <3>3
    <2>4. CASE value.kind = "Float"
        BY <2>4 DEF KeepsReadings, AsBoolean, AsInteger
    <2> QED BY <2>1, <2>2, <2>3, <2>4 DEF WellFormed
<1> QED BY <1>1, <1>2, <1>3

LEMMA ParsedIsWellFormed ==
    ASSUME NEW t
    PROVE  WellFormed(ParseValue(t))
<1>1. t \in DOMAIN Numeral => Numeral[t] \in Range(Numeral)
    BY DEF Range
<1> DEFINE back == ParseValue(t)
<1> HIDE DEF back
<1>2. \/ back.kind \in {"Float", "String"}
      \/ back.kind = "Boolean" /\ back.text \in {"true", "false"}
      \/ t \in DOMAIN Numeral /\ back.kind = "Integer" /\ back.text = Numeral[t]
    BY ParseCases DEF back
<1> QED BY <1>1, <1>2 DEF WellFormed, back

-----------------------------------------------------------------------------

LEMMA Spliced ==
    ASSUME NEW p, NEW q
    PROVE  /\ DOMAIN Splice(p, q) = DOMAIN p \cup DOMAIN q
           /\ \A k \in DOMAIN q : Splice(p, q)[k] = q[k]
           /\ \A k \in DOMAIN p \ DOMAIN q : Splice(p, q)[k] = p[k]
BY DEF Splice

LEMMA ParamAdded ==
    ASSUME NEW p, NEW key, NEW value
    PROVE  Extends(p, WithParam(p, key, value), key, value)
BY DEF WithParam, Splice, Extends

(* ConfigHealer::heal does what its strategies promise, for every          *)
(* configuration and all defaults.                                         *)
LEMMA HealingIsSound ==
    ASSUME NEW strategy \in Strategies, NEW defaults, NEW params
    PROVE  LET healed == Heal(strategy, defaults, params)
           IN  /\ healed # {} <=>
                     \/ Missing(params) = {}
                     \/ /\ strategy \in {"Defaults", "Both"}
                        /\ Missing(params) \subseteq DOMAIN defaults
               /\ \A h \in healed :
                     /\ Missing(h) = {}
                     /\ \A k \in Required \cup Optional :
                           k \in DOMAIN params => k \in DOMAIN h /\ h[k] = params[k]
                     /\ \A k \in DOMAIN h \ DOMAIN params :
                           k \in Required /\ h[k] = defaults[k]
<1> DEFINE healed == Heal(strategy, defaults, params)
           given == Missing(params) \cap DOMAIN defaults
           added == WithDefaults(params, defaults)
           cleaned == WithoutInvalid(params)
           both == WithoutInvalid(added)
<1>1. CASE Missing(params) = {}
    <2>1. healed = {params}
        BY <1>1 DEF Heal
    <2> QED BY <1>1, <2>1
<1>2. CASE Missing(params) # {}
    <2>1. /\ DOMAIN added = DOMAIN params \cup given
          /\ \A k \in given : added[k] = defaults[k]
          /\ \A k \in DOMAIN params : added[k] = params[k]
        <3>1. /\ DOMAIN Restrict(defaults, given) = given
              /\ \A k \in given : Restrict(defaults, given)[k] = defaults[k]
            BY DEF Restrict
        <3>2. given \cap DOMAIN params = {}
            BY DEF Missing
        <3>3. added = Splice(params, Restrict(defaults, given))
            BY DEF WithDefaults
        <3> DEFINE r == Restrict(defaults, given)
        <3> HIDE DEF r, added
        <3>4. /\ DOMAIN added = DOMAIN params \cup DOMAIN r
              /\ \A k \in DOMAIN r : added[k] = r[k]
              /\ \A k \in DOMAIN params \ DOMAIN r : added[k] = params[k]
            <4>1. added = Splice(params, r)
                BY <3>3 DEF r
            <4>2. /\ DOMAIN Splice(params, r) = DOMAIN params \cup DOMAIN r
                  /\ \A k \in DOMAIN r : Splice(params, r)[k] = r[k]
                  /\ \A k \in DOMAIN params \ DOMAIN r :
                        Splice(params, r)[k] = params[k]
                BY Spliced
            <4> QED BY <4>1, <4>2
        <3> QED BY <3>1, <3>2, <3>4 DEF r
    <2>2. /\ DOMAIN both = DOMAIN added \cap (Required \cup Optional)
          /\ \A k \in DOMAIN both : both[k] = added[k]
        BY DEF WithoutInvalid, Restrict
    <2>3. /\ DOMAIN cleaned = DOMAIN params \cap (Required \cup Optional)
          /\ \A k \in DOMAIN cleaned : cleaned[k] = params[k]
        BY DEF WithoutInvalid, Restrict
    <2>4. given \subseteq Required
        BY DEF Missing
    <2> HIDE DEF added, both, cleaned
    <2>5. /\ Missing(added) = {} <=> Missing(params) \subseteq DOMAIN defaults
          /\ Missing(both) = {} <=> Missing(params) \subseteq DOMAIN defaults
          /\ Missing(cleaned) # {}
        BY <1>2, <2>1, <2>2, <2>3 DEF Missing
    <2>6. CASE strategy = "None"
        BY <1>2, <2>6 DEF Heal
    <2>7. CASE strategy = "Defaults"
        <3>1. healed = {h \in {added} : Missing(h) = {}}
            BY <1>2, <2>7 DEF Heal, Fixed, added
        <3> QED BY <1>2, <2>1, <2>4, <2>5, <2>7, <3>1
    <2>8. CASE strategy = "RemoveInvalid"
        <3>1. healed = {h \in {cleaned} : Missing(h) = {}}
            BY <1>2, <2>8 DEF Heal, Fixed, cleaned
        <3> QED BY <1>2, <2>5, <2>8, <3>1
    <2>9. CASE strategy = "Both"
        <3>1. healed = {h \in {both} : Missing(h) = {}}
            BY <1>2, <2>9 DEF Heal, Fixed, both, added
        <3> QED BY <1>2, <2>1, <2>2, <2>4, <2>5, <2>9, <3>1
    <2> QED BY <2>6, <2>7, <2>8, <2>9 DEF Strategies
<1> QED BY <1>1, <1>2

(* A watcher's healer, which has no defaults, changes nothing.             *)
LEMMA WatcherHealsNothing ==
    ASSUME NEW params, NEW h \in WatcherHeal(params)
    PROVE  h = params /\ Missing(params) = {}
<1>1. DOMAIN << >> = {}
    OBVIOUS
<1>2. Missing(params) = {}
    BY <1>1, HealingIsSound DEF WatcherHeal, Strategies
<1> QED BY <1>2 DEF WatcherHeal, Heal

-----------------------------------------------------------------------------

(* The values in memory are such as from_str or a setter makes.            *)
ValuesInv ==
    /\ DOMAIN config = Watchers
    /\ \A w \in Watchers : \A k \in DOMAIN config[w] : WellFormed(config[w][k])

(* A fix that is being saved: the configuration lacks nothing, and has all *)
(* that there was before.                                                  *)
FixInv ==
    answer = "pending" =>
        /\ saving \in Watchers
        /\ Missing(config[saving]) = {}
        /\ \A k \in DOMAIN before \ {line.path : line \in Lines} :
              k \in DOMAIN config[saving] /\ config[saving][k] = before[k]

ConfigIInv == ValuesInv /\ FixInv

LEMMA InitConfigIInv == ConfigInit => ConfigIInv
<1> SUFFICES ASSUME ConfigInit PROVE ConfigIInv
    OBVIOUS
<1>1. config = [w \in Watchers |-> Parsed(disk)] /\ answer = "none"
    BY DEF ConfigInit
<1> QED BY <1>1, ParsedIsWellFormed DEF ConfigIInv, ValuesInv, FixInv, Parsed

(* One configuration replaced by a well-formed one.                        *)
LEMMA ReplacedIsWellFormed ==
    ASSUME ValuesInv, NEW w \in Watchers, NEW params,
           config' = [config EXCEPT ![w] = params],
           \A k \in DOMAIN params : WellFormed(params[k])
    PROVE  ValuesInv' /\ config'[w] = params
BY DEF ValuesInv, WellFormed

LEMMA MemoryIsWellFormed == \A v \in MemoryValues : WellFormed(v)
BY DEF MemoryValues, WellFormed, Value

LEMMA LogLineKeeps ==
    ASSUME ConfigIInv, NEW line \in Lines, ProcessLogLine(line)
    PROVE  ConfigIInv'
<1> USE DEF ConfigIInv
<1> DEFINE w == line.service
           params == WithParam(config[w], line.path, Value("String", line.error))
<1>1. w \in Watchers /\ saving = NoWatcher /\ w # NoWatcher
    BY ConfigAssumption DEF ProcessLogLine, NoWatcher
<1>2. config' = [config EXCEPT ![w] = params] /\ Missing(config[w]) = {}
    <2>1. PICK healed \in WatcherHeal(config[w]) :
              config' = [config EXCEPT ![w] =
                  WithParam(healed, line.path, Value("String", line.error))]
        BY DEF ProcessLogLine
    <2>2. healed = config[w] /\ Missing(config[w]) = {}
        BY WatcherHealsNothing
    <2> QED BY <2>1, <2>2
<1>3. WellFormed(Value("String", line.error))
    BY DEF WellFormed, Value
<1>4. /\ DOMAIN params = DOMAIN config[w] \cup {line.path}
      /\ params[line.path] = Value("String", line.error)
      /\ \A k \in DOMAIN config[w] \ {line.path} : params[k] = config[w][k]
    <2>1. Extends(config[w], params, line.path, Value("String", line.error))
        BY ParamAdded
    <2> HIDE DEF params
    <2> QED BY <2>1 DEF Extends
<1> HIDE DEF params
<1>5. \A k \in DOMAIN params : WellFormed(params[k])
    BY <1>1, <1>3, <1>4 DEF ValuesInv
<1>6. ValuesInv' /\ config'[w] = params
    BY <1>1, <1>2, <1>5, ReplacedIsWellFormed
<1>7. Missing(params) = {}
    BY <1>2, <1>4 DEF Missing
<1>8. /\ saving' = w /\ before' = config[w]
      \/ answer' = "none"
    BY DEF ProcessLogLine, Forget
<1>9. FixInv'
    BY <1>1, <1>4, <1>6, <1>7, <1>8 DEF FixInv
<1> QED BY <1>6, <1>9

LEMMA ChangeKeeps ==
    ASSUME ConfigIInv, NEW w \in Watchers, NEW params, ChangeMemory(w, params),
           \A k \in DOMAIN params : WellFormed(params[k])
    PROVE  ConfigIInv'
<1>1. config' = [config EXCEPT ![w] = params] /\ answer' = "none"
    BY DEF ChangeMemory, Forget
<1>2. ValuesInv'
    BY <1>1, ReplacedIsWellFormed DEF ConfigIInv
<1> QED BY <1>1, <1>2 DEF ConfigIInv, FixInv

LEMMA NextConfigIInv == ConfigIInv /\ [ConfigNext]_configVars => ConfigIInv'
<1> SUFFICES ASSUME ConfigIInv, [ConfigNext]_configVars PROVE ConfigIInv'
    OBVIOUS
<1> USE DEF ConfigIInv
<1>1. ASSUME config' = config, answer' # "pending" PROVE ConfigIInv'
    BY <1>1 DEF ValuesInv, FixInv
<1>2. CASE Restart
    <2>1. config' = [w \in Watchers |-> Parsed(disk)] /\ answer' = "none"
        BY <1>2 DEF Restart, Forget
    <2> QED BY <2>1, ParsedIsWellFormed DEF ValuesInv, FixInv, Parsed
<1>3. CASE Edit
    BY <1>1, <1>3 DEF Edit, Forget
<1>4. CASE Write
    BY <1>1, <1>4 DEF Write
<1>5. CASE WriteFails
    BY <1>1, <1>5 DEF WriteFails, Forget
<1>6. CASE \E line \in Lines : ProcessLogLine(line)
    BY <1>6, LogLineKeeps
<1>7. ASSUME NEW w \in Watchers, ReadFile(w) PROVE ConfigIInv'
    <2>1. config' = [config EXCEPT ![w] = Parsed(disk)] /\ answer' = "none"
        BY <1>7 DEF ReadFile, Forget
    <2>2. \A k \in DOMAIN Parsed(disk) : WellFormed(Parsed(disk)[k])
        BY ParsedIsWellFormed DEF Parsed
    <2> QED BY <2>1, <2>2, ReplacedIsWellFormed DEF FixInv
<1>8. ASSUME NEW w \in Watchers, Commit(w) PROVE ConfigIInv'
    BY <1>1, <1>8 DEF Commit, Forget
<1>9. ASSUME NEW w \in Watchers, NEW k \in Keys, NEW v \in MemoryValues,
             HotPatch(w, k, v) \/ SetParam(w, k, v)
      PROVE  ConfigIInv'
    <2> DEFINE params == WithParam(config[w], k, v)
    <2>1. ChangeMemory(w, params)
        BY <1>9 DEF HotPatch, SetParam
    <2>2. \A key \in DOMAIN params : WellFormed(params[key])
        <3>1. Extends(config[w], params, k, v)
            BY ParamAdded
        <3> HIDE DEF params
        <3> QED BY <3>1, MemoryIsWellFormed DEF ValuesInv, Extends
    <2> HIDE DEF params
    <2> QED BY <2>1, <2>2, ChangeKeeps
<1>10. ASSUME NEW w \in Watchers, NEW k \in Keys, RemoveParam(w, k)
       PROVE  ConfigIInv'
    <2> DEFINE params == Restrict(config[w], DOMAIN config[w] \ {k})
    <2>1. ChangeMemory(w, params)
        BY <1>10 DEF RemoveParam
    <2>2. \A key \in DOMAIN params : WellFormed(params[key])
        BY DEF ValuesInv, Restrict
    <2> HIDE DEF params
    <2> QED BY <2>1, <2>2, ChangeKeeps
<1>11. CASE UNCHANGED configVars
    BY <1>11 DEF configVars, ValuesInv, FixInv
<1> QED BY <1>2, <1>3, <1>4, <1>5, <1>6, <1>7, <1>8, <1>9, <1>10, <1>11
        DEF ConfigNext, Reload, RegisterService

(* A configuration on disk is read back with the answers it gave, although *)
(* from_str gives many values another kind.                                *)
THEOREM ReadingsAlwaysSurvive == ConfigSpec => []ReadingsSurvive
<1>1. ConfigIInv => ReadingsSurvive
    <2> SUFFICES ASSUME ConfigIInv, NEW w \in Watchers, disk = Printed(config[w]),
                        NEW k \in DOMAIN disk
                 PROVE  KeepsReadings(config[w][k], Parsed(disk)[k])
        BY DEF ReadingsSurvive
    <2>1. k \in DOMAIN config[w] /\ disk[k] = config[w][k].text
        BY DEF Printed
    <2>2. Parsed(disk)[k] = ParseValue(disk[k])
        BY DEF Parsed
    <2>3. WellFormed(config[w][k])
        BY <2>1 DEF ConfigIInv, ValuesInv
    <2> QED BY <2>1, <2>2, <2>3, ReadingSurvives
<1> QED BY <1>1, InitConfigIInv, NextConfigIInv, PTL DEF ConfigSpec

(* Healing keeps its promises in whatever configuration a watcher has.     *)
THEOREM HealingAlwaysSound == ConfigSpec => []HealIsSound
<1>1. HealIsSound
    BY HealingIsSound DEF HealIsSound
<1> QED BY <1>1, PTL

(* process_log_line names a service only when its file lacks nothing and   *)
(* has every parameter that there was, with its readings.                  *)
THEOREM FixesAreStored == ConfigSpec => FixStoresAll
<1> DEFINE Stored ==
        answer = "pending" /\ answer' = "fixed" =>
            /\ Missing(disk') = {}
            /\ \A k \in DOMAIN before \ {line.path : line \in Lines} :
                  k \in DOMAIN disk' /\ KeepsReadings(before[k], Parsed(disk')[k])
<1>1. ConfigIInv /\ [ConfigNext]_configVars => [Stored]_configVars
    <2> SUFFICES ASSUME ConfigIInv, ConfigNext, answer = "pending", answer' = "fixed"
                 PROVE  Stored
        OBVIOUS
    <2>1. Write
        BY DEF ConfigNext, Restart, Edit, WriteFails, ProcessLogLine, Reload,
               RegisterService, ReadFile, Commit, HotPatch, SetParam, RemoveParam,
               ChangeMemory, Forget
    <2> DEFINE params == config[saving]
    <2>2. /\ saving \in Watchers /\ Missing(params) = {}
          /\ \A k \in DOMAIN before \ {line.path : line \in Lines} :
                k \in DOMAIN params /\ params[k] = before[k]
        BY DEF ConfigIInv, FixInv
    <2>3. DOMAIN disk' = DOMAIN params /\ \A k \in DOMAIN params : disk'[k] = params[k].text
        BY <2>1 DEF Write, Printed
    <2>4. Missing(disk') = {}
        BY <2>2, <2>3 DEF Missing
    <2>5. ASSUME NEW k \in DOMAIN before \ {line.path : line \in Lines}
          PROVE  k \in DOMAIN disk' /\ KeepsReadings(before[k], Parsed(disk')[k])
        <3>1. k \in DOMAIN params /\ params[k] = before[k]
            BY <2>2, <2>5
        <3>2. WellFormed(params[k])
            BY <2>2, <3>1 DEF ConfigIInv, ValuesInv
        <3>3. Parsed(disk')[k] = ParseValue(disk'[k])
            BY <2>3, <3>1 DEF Parsed
        <3> QED BY <2>3, <3>1, <3>2, <3>3, ReadingSurvives
    <2> QED BY <2>4, <2>5
<1> QED BY <1>1, InitConfigIInv, NextConfigIInv, PTL DEF ConfigSpec, FixStoresAll

=============================================================================
