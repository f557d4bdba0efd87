------------------------------ MODULE Rollback ------------------------------
(***************************************************************************)
(* src/rollback.rs: a RollbackManager shared by threads, and the           *)
(* SystemHealthMonitor in front of it.  Its three mutexes are taken one by *)
(* one, and every step below is the code between two acquisitions:         *)
(* trigger_rollback takes current_state, rollback_attempts and, inside     *)
(* record_trigger, triggers; get_stats takes triggers, current_state and   *)
(* rollback_attempts.  Severities and entropies are in hundredths.         *)
(***************************************************************************)
EXTENDS Integers, Sequences, FiniteSets

CONSTANTS
    Threads,
    Requests,       \* the calls of the monitor and the manager
    MaxAttempts,    \* max_rollback_attempts
    AutoRollback,   \* auto_rollback
    MaxTriggers,    \* bound on the triggers recorded by trigger_rollback
    Nobody

VARIABLES
    holder,         \* who holds each mutex
    pc,             \* where each thread is
    trigger,        \* the trigger each thread carries
    triggers,       \* RollbackManager.triggers
    state,          \* RollbackManager.current_state
    attempts,       \* RollbackManager.rollback_attempts
    recorded,       \* every trigger trigger_rollback has recorded
    executions      \* the rollback commands run, with their outcome

vars == <<holder, pc, trigger, triggers, state, attempts, recorded, executions>>

Locks == {"state", "attempts", "triggers"}

TriggerTypes == {"BinaryEntropySpike", "ServiceCrash", "KernelPanic",
                 "BootFailure", "PackageCorruption", "SecurityVulnerability",
                 "ConfigCorruption"}

Triggers == [type : TriggerTypes, severity : 0 .. 100]

ASSUME RollbackAssumption ==
    /\ MaxAttempts \in Nat
    /\ AutoRollback \in BOOLEAN
    /\ MaxTriggers \in Nat
    /\ Nobody \notin Threads
    /\ Requests \subseteq
           [call : {"detect_and_trigger"}, trigger : Triggers]
               \cup [call : {"monitor", "monitor_service"}, entropy : 0 .. 100]
               \cup [call : {"force_rollback"}]

Trigger(type, severity) == [type |-> type, severity |-> severity]
NoTrigger == Trigger("none", 0)

(* get_threshold_for_trigger, with SystemEntropyThresholds::default().     *)
ThresholdFor ==
    [ BinaryEntropySpike    |-> 95,
      ServiceCrash          |-> 90,
      KernelPanic           |-> 100,
      BootFailure           |-> 100,
      PackageCorruption     |-> 100,
      SecurityVulnerability |-> 95,
      ConfigCorruption      |-> 80 ]

Detected(t) == AutoRollback /\ t.severity >= ThresholdFor[t.type]

(* BinaryEntropyChecker::check_binary_entropy with the monitor's baseline. *)
BaselineEntropy == 85
Deviates(entropy) ==
    (IF entropy > BaselineEntropy THEN entropy - BaselineEntropy
     ELSE BaselineEntropy - entropy) > 100 - BaselineEntropy

(* The trigger a call passes on to trigger_rollback, if it gets that far:  *)
(* detect_and_trigger of a trigger, monitor of an unknown binary,          *)
(* monitor_service, and force_rollback, which skips the thresholds.        *)
TriggerOf(r) ==
    CASE r.call = "detect_and_trigger" ->
            IF Detected(r.trigger) THEN r.trigger ELSE NoTrigger
      [] r.call = "monitor" ->
            LET t == Trigger("BinaryEntropySpike", r.entropy)
            IN  IF Deviates(r.entropy) /\ Detected(t) THEN t ELSE NoTrigger
      [] r.call = "monitor_service" ->
            LET t == Trigger("ServiceCrash", r.entropy)
            IN  IF r.entropy > 90 /\ Detected(t) THEN t ELSE NoTrigger
      [] r.call = "force_rollback" -> Trigger("ConfigCorruption", 100)

Init ==
    /\ holder = [l \in Locks |-> Nobody]
    /\ pc = [t \in Threads |-> "idle"]
    /\ trigger = [t \in Threads |-> NoTrigger]
    /\ triggers = << >>
    /\ state = "Idle"
    /\ attempts = 0
    /\ recorded = << >>
    /\ executions = << >>

Holds(t, l) == holder[l] = t
Free(l) == holder[l] = Nobody
Acquire(t, l) == Free(l) /\ holder' = [holder EXCEPT ![l] = t]
Release(t) == holder' = [l \in Locks |-> IF Holds(t, l) THEN Nobody ELSE holder[l]]
Goto(t, place) == pc' = [pc EXCEPT ![t] = place]

(* A call that reaches trigger_rollback begins with its first mutex.  The  *)
(* bound on the triggers stops new calls, never one that has begun.        *)
Pending == {t \in Threads : pc[t] \in {"lock_state", "lock_attempts", "record"}}

Call(t) ==
    /\ pc[t] = "idle"
    /\ Len(recorded) + Cardinality(Pending) < MaxTriggers
    /\ \E r \in Requests :
        /\ TriggerOf(r) # NoTrigger
        /\ trigger' = [trigger EXCEPT ![t] = TriggerOf(r)]
    /\ Goto(t, "lock_state")
    /\ UNCHANGED <<holder, triggers, state, attempts, recorded, executions>>

LockState(t) ==
    /\ pc[t] = "lock_state"
    /\ Acquire(t, "state")
    /\ Goto(t, "lock_attempts")
    /\ UNCHANGED <<trigger, triggers, state, attempts, recorded, executions>>

(* A bug for the runs to find: an error return that keeps the state's      *)
(* guard.                                                                  *)
LockAttemptsLeaking(t) ==
    /\ pc[t] = "lock_attempts"
    /\ Free("attempts")
    /\ IF attempts >= MaxAttempts
          THEN Goto(t, "idle") /\ UNCHANGED holder
          ELSE Acquire(t, "attempts") /\ Goto(t, "record")
    /\ UNCHANGED <<trigger, triggers, state, attempts, recorded, executions>>

(* A bug for the runs to find: the command runs without a record of it.    *)
LockAttemptsUnrecorded(t) ==
    /\ pc[t] = "lock_attempts"
    /\ Free("attempts")
    /\ IF attempts >= MaxAttempts
          THEN Release(t) /\ Goto(t, "idle")
          ELSE Acquire(t, "attempts") /\ Goto(t, "execute")
    /\ UNCHANGED <<trigger, triggers, state, attempts, recorded, executions>>

(* The limit is checked under both mutexes; Err drops their guards.        *)
LockAttempts(t) ==
    /\ pc[t] = "lock_attempts"
    /\ Free("attempts")
    /\ IF attempts >= MaxAttempts
          THEN Release(t) /\ Goto(t, "idle")
          ELSE Acquire(t, "attempts") /\ Goto(t, "record")
    /\ UNCHANGED <<trigger, triggers, state, attempts, recorded, executions>>

(* record_trigger inside trigger_rollback: triggers is taken and released. *)
Record(t) ==
    /\ pc[t] = "record"
    /\ Free("triggers")
    /\ triggers' = Append(triggers, trigger[t])
    /\ recorded' = Append(recorded, trigger[t])
    /\ Goto(t, "execute")
    /\ UNCHANGED <<holder, trigger, state, attempts, executions>>

(* A bug for the runs to find: the attempt is counted before it is known   *)
(* to have worked, and not taken back.                                     *)
ExecuteCountingFirst(t) ==
    /\ pc[t] = "execute"
    /\ \E worked \in BOOLEAN :
        /\ executions' = Append(executions, [by |-> trigger[t], worked |-> worked])
        /\ state' = IF worked THEN "Rollback" ELSE state
    /\ attempts' = attempts + 1
    /\ Release(t)
    /\ Goto(t, "idle")
    /\ UNCHANGED <<trigger, triggers, recorded>>

(* execute_rollback: the configured command is run while both mutexes are  *)
(* held.  When it cannot be run or exits with an error, `?` returns before *)
(* the state and the counter are touched.                                  *)
Execute(t) ==
    /\ pc[t] = "execute"
    /\ \E worked \in BOOLEAN :
        /\ executions' = Append(executions, [by |-> trigger[t], worked |-> worked])
        /\ state' = IF worked THEN "Rollback" ELSE state
        /\ attempts' = IF worked THEN attempts + 1 ELSE attempts
    /\ Release(t)
    /\ Goto(t, "idle")
    /\ UNCHANGED <<trigger, triggers, recorded>>

(* record_trigger called on its own: nothing is carried out for it.        *)
RecordTrigger(t) ==
    /\ pc[t] = "idle"
    /\ Free("triggers")
    /\ Len(triggers) < MaxTriggers
    /\ \E r \in Requests :
        /\ r.call = "detect_and_trigger"
        /\ triggers' = Append(triggers, r.trigger)
    /\ UNCHANGED <<holder, pc, trigger, state, attempts, recorded, executions>>

(* clear_triggers: one mutex, taken and released.                          *)
ClearTriggers(t) ==
    /\ pc[t] = "idle"
    /\ Free("triggers")
    /\ triggers # << >>
    /\ triggers' = << >>
    /\ UNCHANGED <<holder, pc, trigger, state, attempts, recorded, executions>>

(* get_stats: triggers, then current_state, then rollback_attempts; all    *)
(* three are held until it returns.                                        *)
StatsTriggers(t) ==
    /\ pc[t] = "idle"
    /\ Acquire(t, "triggers")
    /\ Goto(t, "stats_state")
    /\ UNCHANGED <<trigger, triggers, state, attempts, recorded, executions>>

StatsState(t) ==
    /\ pc[t] = "stats_state"
    /\ Acquire(t, "state")
    /\ Goto(t, "stats_attempts")
    /\ UNCHANGED <<trigger, triggers, state, attempts, recorded, executions>>

StatsAttempts(t) ==
    /\ pc[t] = "stats_attempts"
    /\ Free("attempts")
    /\ Release(t)
    /\ Goto(t, "idle")
    /\ UNCHANGED <<trigger, triggers, state, attempts, recorded, executions>>

(* The steps of a call that has begun.                                     *)
Continue(t) ==
    \/ LockState(t)
    \/ LockAttempts(t)
    \/ Record(t)
    \/ Execute(t)
    \/ StatsState(t)
    \/ StatsAttempts(t)

Next ==
    \E t \in Threads :
        \/ Call(t)
        \/ RecordTrigger(t)
        \/ ClearTriggers(t)
        \/ StatsTriggers(t)
        \/ Continue(t)

(* A mutex that is free is eventually given to a thread that waits for it, *)
(* and the rollback command ends.                                          *)
Fairness == \A t \in Threads : SF_vars(Continue(t))

Spec == Init /\ [][Next]_vars /\ Fairness

-----------------------------------------------------------------------------

Places == {"idle", "lock_state", "lock_attempts", "record", "execute",
           "stats_state", "stats_attempts"}

TriggerValues == Triggers \cup {NoTrigger}

(* Type correctness.                                                       *)
TypeOK ==
    /\ holder \in [Locks -> Threads \cup {Nobody}]
    /\ pc \in [Threads -> Places]
    /\ trigger \in [Threads -> TriggerValues]
    /\ triggers \in Seq(TriggerValues)
    /\ state \in {"Idle", "Rollback"}
    /\ attempts \in 0 .. MaxAttempts
    /\ recorded \in Seq(TriggerValues)
    /\ executions \in Seq([by : TriggerValues, worked : BOOLEAN])

(* The mutexes a thread holds are those its place in the code says.        *)
LocksMatchPlaces ==
    \A t \in Threads :
        /\ Holds(t, "state") <=>
               pc[t] \in {"lock_attempts", "record", "execute", "stats_attempts"}
        /\ Holds(t, "attempts") <=> pc[t] \in {"record", "execute"}
        /\ Holds(t, "triggers") <=> pc[t] \in {"stats_state", "stats_attempts"}

(* One rollback command runs at a time, so no two threads can pass the     *)
(* limit together: never more than MaxAttempts commands succeed, and the   *)
(* counter is their number.                                                *)
Successes == {i \in DOMAIN executions : executions[i].worked}

OneRollbackAtATime ==
    /\ \A s, t \in Threads :
            pc[s] \in {"record", "execute"} /\ pc[t] \in {"record", "execute"}
                => s = t
    /\ Cardinality(Successes) = attempts
    /\ attempts <= MaxAttempts
    /\ state = "Rollback" <=> Successes # {}

(* A command runs only for a trigger recorded just before it: the record   *)
(* is never behind the commands, and never more than one ahead of them.    *)
RecordedBeforeExecuted ==
    /\ \A i \in DOMAIN executions : executions[i].by = recorded[i]
    /\ Len(recorded) - Len(executions)
           = Cardinality({t \in Threads : pc[t] = "execute"})

Waits(t, l) ==
    \/ pc[t] \in {"lock_state", "stats_state"} /\ l = "state"
    \/ pc[t] \in {"lock_attempts", "stats_attempts"} /\ l = "attempts"
    \/ pc[t] = "record" /\ l = "triggers"

Blocked(t) == \E l \in Locks : Waits(t, l) /\ ~Free(l)

WedgedByStats ==
    \E s, t \in Threads :
        /\ pc[s] = "stats_state" /\ Holds(s, "triggers")
        /\ pc[t] = "record" /\ Holds(t, "state")

(* The only way for the threads to block each other for good is the order  *)
(* of get_stats: it holds triggers and waits for current_state, held by a  *)
(* thread in trigger_rollback that waits for triggers.                     *)
StuckOnlyByStats ==
    LET busy == {t \in Threads : pc[t] # "idle"}
    IN  (busy # {} /\ \A t \in busy : Blocked(t)) => WedgedByStats

(* What the module promises, automatic rollback on critical failures: a    *)
(* trigger that has passed its threshold is either carried out or refused, *)
(* unless get_stats gets in its way like that.                             *)
TriggerIsAnswered ==
    \A t \in Threads : (pc[t] = "lock_state") ~> (pc[t] = "idle" \/ WedgedByStats)

=============================================================================
