--------------------------- MODULE RollbackProofs ---------------------------
(***************************************************************************)
(* Of a RollbackManager with any number of threads: the types, the         *)
(* relation of the mutexes to the places of the threads, and from it the   *)
(* promise that one rollback runs at a time, no more than                  *)
(* max_rollback_attempts ever succeed, and none is tried after that.       *)
(***************************************************************************)
EXTENDS Rollback, FiniteSetTheorems, SequenceTheorems, TLAPS

(* A call passes on a trigger of the right type, or none.                  *)
LEMMA TriggerOfType ==
    ASSUME NEW r \in Requests
    PROVE  TriggerOf(r) \in TriggerValues
<1>1. CASE r \in [call : {"detect_and_trigger"}, trigger : Triggers]
  BY <1>1 DEF TriggerOf, TriggerValues
<1>2. CASE r \in [call : {"monitor", "monitor_service"}, entropy : 0 .. 100]
  <2>1. r.entropy \in 0 .. 100
    BY <1>2
  <2>2. Trigger("BinaryEntropySpike", r.entropy) \in Triggers
    BY <2>1 DEF Trigger, Triggers, TriggerTypes
  <2>3. Trigger("ServiceCrash", r.entropy) \in Triggers
    BY <2>1 DEF Trigger, Triggers, TriggerTypes
  <2>4. CASE r.call = "monitor"
    BY <2>2, <2>4 DEF TriggerOf, TriggerValues
  <2>5. CASE r.call = "monitor_service"
    BY <2>3, <2>5 DEF TriggerOf, TriggerValues
  <2>6. QED
    BY <1>2, <2>4, <2>5
<1>3. CASE r \in [call : {"force_rollback"}]
  BY <1>3 DEF TriggerOf, TriggerValues, Trigger, Triggers, TriggerTypes
<1>4. QED
  BY <1>1, <1>2, <1>3, RollbackAssumption

(* A thread past the check of the limit holds both mutexes, so the limit   *)
(* still allows its success when the command ends.                         *)
RoomToSucceed ==
    \A t \in Threads :
        pc[t] \in {"record", "execute"} => attempts < MaxAttempts

Counted ==
    /\ IsFiniteSet(Successes)
    /\ Cardinality(Successes) = attempts
    /\ state = "Rollback" <=> Successes # {}

IInv == TypeOK /\ LocksMatchPlaces /\ RoomToSucceed /\ Counted

LEMMA InitIInv == Init => IInv
<1> SUFFICES ASSUME Init PROVE IInv
  OBVIOUS
<1>1. TypeOK
  BY RollbackAssumption, EmptySeq DEF Init, TypeOK, TriggerValues, Places
<1>2. LocksMatchPlaces
  BY RollbackAssumption DEF Init, LocksMatchPlaces, Holds, Locks
<1>3. RoomToSucceed
  BY DEF Init, RoomToSucceed
<1>4. Successes = {}
  BY DEF Init, Successes
<1>5. Counted
  BY <1>4, FS_EmptySet DEF Init, Counted
<1>6. QED
  BY <1>1, <1>2, <1>3, <1>5 DEF IInv

(* A step that runs no command leaves what is counted alone.               *)
LEMMA SameCount ==
    ASSUME Counted, UNCHANGED <<executions, state, attempts>>
    PROVE  Counted'
BY DEF Counted, Successes

LEMMA NextIInv ==
    ASSUME IInv, [Next]_vars
    PROVE  IInv'
<1> USE RollbackAssumption
<1>0. TypeOK /\ LocksMatchPlaces /\ RoomToSucceed /\ Counted
  BY DEF IInv
<1>1. ASSUME NEW t \in Threads, Call(t) PROVE IInv'
  <2>1. PICK r \in Requests : trigger' = [trigger EXCEPT ![t] = TriggerOf(r)]
    BY <1>1 DEF Call
  <2>2. TriggerOf(r) \in TriggerValues
    BY TriggerOfType
  <2>3. TypeOK'
    BY <1>0, <1>1, <2>1, <2>2 DEF Call, TypeOK, Goto, Places
  <2>4. LocksMatchPlaces'
    BY <1>0, <1>1
    DEF Call, LocksMatchPlaces, TypeOK, Goto, Holds
  <2>5. RoomToSucceed'
    BY <1>0, <1>1 DEF Call, RoomToSucceed, TypeOK, Goto
  <2>6. Counted'
    BY <1>0, <1>1, SameCount DEF Call
  <2>7. QED
    BY <2>3, <2>4, <2>5, <2>6 DEF IInv
<1>2. ASSUME NEW t \in Threads, RecordTrigger(t) PROVE IInv'
  <2>1. PICK r \in Requests :
            r.call = "detect_and_trigger" /\ triggers' = Append(triggers, r.trigger)
    BY <1>2 DEF RecordTrigger
  <2>2. r.trigger \in TriggerValues
    BY <2>1 DEF TriggerValues
  <2>3. TypeOK'
    BY <1>0, <1>2, <2>1, <2>2, AppendProperties DEF RecordTrigger, TypeOK
  <2>4. LocksMatchPlaces'
    BY <1>0, <1>2
    DEF RecordTrigger, LocksMatchPlaces, TypeOK, Holds
  <2>5. RoomToSucceed'
    BY <1>0, <1>2 DEF RecordTrigger, RoomToSucceed, TypeOK, Goto
  <2>6. Counted'
    BY <1>0, <1>2, SameCount DEF RecordTrigger
  <2>7. QED
    BY <2>3, <2>4, <2>5, <2>6 DEF IInv
<1>3. ASSUME NEW t \in Threads, ClearTriggers(t) PROVE IInv'
  <2>1. TypeOK'
    BY <1>0, <1>3, EmptySeq DEF ClearTriggers, TypeOK
  <2>2. LocksMatchPlaces'
    BY <1>0, <1>3
    DEF ClearTriggers, LocksMatchPlaces, TypeOK, Holds
  <2>3. RoomToSucceed'
    BY <1>0, <1>3 DEF ClearTriggers, RoomToSucceed, TypeOK, Goto
  <2>4. Counted'
    BY <1>0, <1>3, SameCount DEF ClearTriggers
  <2>5. QED
    BY <2>1, <2>2, <2>3, <2>4 DEF IInv
<1>4. ASSUME NEW t \in Threads, StatsTriggers(t) PROVE IInv'
  <2>1. TypeOK'
    BY <1>0, <1>4 DEF StatsTriggers, TypeOK, Goto, Acquire, Places
  <2>2. LocksMatchPlaces'
    BY <1>0, <1>4
    DEF StatsTriggers, LocksMatchPlaces, TypeOK, Acquire, Free, Goto, Holds, Locks
  <2>3. RoomToSucceed'
    BY <1>0, <1>4 DEF StatsTriggers, RoomToSucceed, TypeOK, Goto
  <2>4. Counted'
    BY <1>0, <1>4, SameCount DEF StatsTriggers
  <2>5. QED
    BY <2>1, <2>2, <2>3, <2>4 DEF IInv
<1>5. ASSUME NEW t \in Threads, LockState(t) PROVE IInv'
  <2>1. TypeOK'
    BY <1>0, <1>5 DEF LockState, TypeOK, Goto, Acquire, Places
  <2>2. LocksMatchPlaces'
    BY <1>0, <1>5
    DEF LockState, LocksMatchPlaces, TypeOK, Acquire, Free, Goto, Holds, Locks
  <2>3. RoomToSucceed'
    BY <1>0, <1>5 DEF LockState, RoomToSucceed, TypeOK, Goto
  <2>4. Counted'
    BY <1>0, <1>5, SameCount DEF LockState
  <2>5. QED
    BY <2>1, <2>2, <2>3, <2>4 DEF IInv
<1>6. ASSUME NEW t \in Threads, LockAttempts(t) PROVE IInv'
  <2>1. TypeOK'
    <3>1. holder' \in [Locks -> Threads \cup {Nobody}]
      BY <1>0, <1>6 DEF LockAttempts, TypeOK, Acquire, Release, Holds
    <3>2. pc' \in [Threads -> Places]
      BY <1>0, <1>6 DEF LockAttempts, TypeOK, Goto, Places
    <3>3. QED
      BY <1>0, <1>6, <3>1, <3>2 DEF LockAttempts, TypeOK
  <2>2. LocksMatchPlaces'
    BY <1>0, <1>6
    DEF LockAttempts, LocksMatchPlaces, TypeOK, Acquire, Free, Release, Goto, Holds, Locks
  <2>3. RoomToSucceed'
    BY <1>0, <1>6 DEF LockAttempts, RoomToSucceed, TypeOK, Goto
  <2>4. Counted'
    BY <1>0, <1>6, SameCount DEF LockAttempts
  <2>5. QED
    BY <2>1, <2>2, <2>3, <2>4 DEF IInv
<1>7. ASSUME NEW t \in Threads, Record(t) PROVE IInv'
  <2>1. TypeOK'
    BY <1>0, <1>7, AppendProperties DEF Record, TypeOK, Goto, Places
  <2>2. LocksMatchPlaces'
    BY <1>0, <1>7
    DEF Record, LocksMatchPlaces, TypeOK, Goto, Holds
  <2>3. RoomToSucceed'
    BY <1>0, <1>7 DEF Record, RoomToSucceed, TypeOK, Goto
  <2>4. Counted'
    BY <1>0, <1>7, SameCount DEF Record
  <2>5. QED
    BY <2>1, <2>2, <2>3, <2>4 DEF IInv
<1>8. ASSUME NEW t \in Threads, Execute(t) PROVE IInv'
  <2>1. PICK worked \in BOOLEAN :
            /\ executions' = Append(executions, [by |-> trigger[t], worked |-> worked])
            /\ state' = IF worked THEN "Rollback" ELSE state
            /\ attempts' = IF worked THEN attempts + 1 ELSE attempts
    BY <1>8 DEF Execute
  <2>2. attempts < MaxAttempts
    BY <1>0, <1>8 DEF Execute, RoomToSucceed
  <2>3. TypeOK'
    <3>1. [by |-> trigger[t], worked |-> worked]
              \in [by : TriggerValues, worked : BOOLEAN]
      BY <1>0 DEF TypeOK
    <3>2. executions' \in Seq([by : TriggerValues, worked : BOOLEAN])
      BY <1>0, <2>1, <3>1, AppendProperties DEF TypeOK
    <3>3. attempts' \in 0 .. MaxAttempts /\ state' \in {"Idle", "Rollback"}
      BY <1>0, <2>1, <2>2 DEF TypeOK
    <3>4. QED
      BY <1>0, <1>8, <3>2, <3>3
      DEF Execute, TypeOK, Goto, Release, Holds, Locks, Places
  <2>4. LocksMatchPlaces'
    BY <1>0, <1>8
    DEF Execute, LocksMatchPlaces, TypeOK, Release, Goto, Holds, Locks
  <2>5. RoomToSucceed'
    <3>1. ASSUME NEW s \in Threads, pc'[s] \in {"record", "execute"}
          PROVE  FALSE
      BY <1>0, <1>8, <3>1
      DEF Execute, LocksMatchPlaces, TypeOK, Goto, Holds, Locks
    <3>2. QED
      BY <3>1 DEF RoomToSucceed
  <2>6. Counted'
    <3>1. CASE worked
      <4>1. Successes' = Successes \cup {Len(executions) + 1}
        BY <1>0, <2>1, <3>1 DEF Successes, TypeOK
      <4>2. Len(executions) + 1 \notin Successes
        BY <1>0, LenProperties DEF Successes, TypeOK
      <4>3. /\ IsFiniteSet(Successes')
            /\ Cardinality(Successes') = Cardinality(Successes) + 1
        BY <1>0, <4>1, <4>2, FS_AddElement DEF Counted
      <4>4. QED
        BY <1>0, <2>1, <3>1, <4>1, <4>3 DEF Counted
    <3>2. CASE ~worked
      <4>1. Successes' = Successes
        BY <1>0, <2>1, <3>2 DEF Successes, TypeOK
      <4>2. QED
        BY <1>0, <2>1, <3>2, <4>1 DEF Counted
    <3>3. QED
      BY <3>1, <3>2
  <2>7. QED
    BY <2>3, <2>4, <2>5, <2>6 DEF IInv
<1>9. ASSUME NEW t \in Threads, StatsState(t) PROVE IInv'
  <2>1. TypeOK'
    BY <1>0, <1>9 DEF StatsState, TypeOK, Goto, Acquire, Places
  <2>2. LocksMatchPlaces'
    BY <1>0, <1>9
    DEF StatsState, LocksMatchPlaces, TypeOK, Acquire, Free, Goto, Holds, Locks
  <2>3. RoomToSucceed'
    BY <1>0, <1>9 DEF StatsState, RoomToSucceed, TypeOK, Goto
  <2>4. Counted'
    BY <1>0, <1>9, SameCount DEF StatsState
  <2>5. QED
    BY <2>1, <2>2, <2>3, <2>4 DEF IInv
<1>10. ASSUME NEW t \in Threads, StatsAttempts(t) PROVE IInv'
  <2>1. TypeOK'
    BY <1>0, <1>10 DEF StatsAttempts, TypeOK, Goto, Release, Places
  <2>2. LocksMatchPlaces'
    BY <1>0, <1>10
    DEF StatsAttempts, LocksMatchPlaces, TypeOK, Release, Goto, Holds, Locks
  <2>3. RoomToSucceed'
    BY <1>0, <1>10 DEF StatsAttempts, RoomToSucceed, TypeOK, Goto
  <2>4. Counted'
    BY <1>0, <1>10, SameCount DEF StatsAttempts
  <2>5. QED
    BY <2>1, <2>2, <2>3, <2>4 DEF IInv
<1>11. CASE UNCHANGED vars
  <2>1. Counted'
    BY <1>0, <1>11, SameCount DEF vars
  <2>2. TypeOK' /\ LocksMatchPlaces' /\ RoomToSucceed'
    BY <1>0, <1>11 DEF vars, TypeOK, LocksMatchPlaces, Holds, RoomToSucceed
  <2>3. QED
    BY <2>1, <2>2 DEF IInv
<1>12. QED
  BY <1>1, <1>2, <1>3, <1>4, <1>5, <1>6, <1>7, <1>8, <1>9, <1>10, <1>11
  DEF Next, Continue

(* The manager's state is well typed; in particular the number of attempts *)
(* stays within the limit.                                                 *)
THEOREM TypeCorrect == Spec => []TypeOK
<1>1. IInv => TypeOK
  BY DEF IInv
<1>2. QED
  BY InitIInv, NextIInv, <1>1, PTL DEF Spec

(* One rollback command runs at a time, however many threads detect the    *)
(* failure together, and the limit on attempts is never passed.            *)
THEOREM OneAtATime == Spec => []OneRollbackAtATime
<1>1. IInv => OneRollbackAtATime
  <2> SUFFICES ASSUME IInv PROVE OneRollbackAtATime
    OBVIOUS
  <2>1. \A s, t \in Threads :
            pc[s] \in {"record", "execute"} /\ pc[t] \in {"record", "execute"}
                => s = t
    BY DEF IInv, LocksMatchPlaces, Holds
  <2>2. QED
    BY <2>1 DEF IInv, OneRollbackAtATime, Counted, TypeOK
<1>2. QED
  BY InitIInv, NextIInv, <1>1, PTL DEF Spec

-----------------------------------------------------------------------------

(* Both mutexes are held from the record to the command, so two threads    *)
(* are never between them.                                                 *)
LEMMA OneInside ==
    ASSUME LocksMatchPlaces, NEW s \in Threads, NEW t \in Threads,
           pc[s] \in {"record", "execute"}, pc[t] \in {"record", "execute"}
    PROVE  s = t
BY DEF LocksMatchPlaces, Holds

(* The trigger last recorded is the one whose command is running; with no  *)
(* command running, every trigger recorded has had its command.            *)
Paired ==
    /\ \A i \in DOMAIN executions :
            i \in DOMAIN recorded /\ executions[i].by = recorded[i]
    /\ (\A t \in Threads : pc[t] # "execute") => Len(recorded) = Len(executions)
    /\ \A t \in Threads :
            pc[t] = "execute" =>
                /\ Len(recorded) = Len(executions) + 1
                /\ recorded[Len(recorded)] = trigger[t]

(* A step that records nothing, runs nothing and leaves the thread whose   *)
(* command is running alone keeps the pairs.                               *)
LEMMA SamePairs ==
    ASSUME Paired, UNCHANGED <<recorded, executions>>,
           \A s \in Threads : pc'[s] = "execute" <=> pc[s] = "execute",
           \A s \in Threads : pc[s] = "execute" => trigger'[s] = trigger[s]
    PROVE  Paired'
BY DEF Paired

LEMMA QuietSteps ==
    ASSUME TypeOK, NEW t \in Threads,
           \/ Call(t) \/ RecordTrigger(t) \/ ClearTriggers(t) \/ StatsTriggers(t)
           \/ LockState(t) \/ LockAttempts(t) \/ StatsState(t) \/ StatsAttempts(t)
    PROVE  /\ UNCHANGED <<recorded, executions>>
           /\ \A s \in Threads : pc'[s] = "execute" <=> pc[s] = "execute"
           /\ \A s \in Threads : pc[s] = "execute" => trigger'[s] = trigger[s]
<1>1. CASE Call(t)
  BY <1>1 DEF Call, Goto, TypeOK
<1>2. CASE RecordTrigger(t) \/ ClearTriggers(t)
  BY <1>2 DEF RecordTrigger, ClearTriggers
<1>3. CASE StatsTriggers(t) \/ StatsState(t) \/ StatsAttempts(t)
  BY <1>3 DEF StatsTriggers, StatsState, StatsAttempts, Goto, TypeOK
<1>4. CASE LockState(t) \/ LockAttempts(t)
  BY <1>4 DEF LockState, LockAttempts, Goto, TypeOK
<1>5. QED
  BY <1>1, <1>2, <1>3, <1>4

LEMMA InitPaired == Init => Paired
BY DEF Init, Paired

LEMMA NextPaired ==
    ASSUME IInv, Paired, [Next]_vars
    PROVE  Paired'
<1>0. TypeOK /\ LocksMatchPlaces
  BY DEF IInv
<1>1. ASSUME NEW t \in Threads,
             \/ Call(t) \/ RecordTrigger(t) \/ ClearTriggers(t) \/ StatsTriggers(t)
             \/ LockState(t) \/ LockAttempts(t) \/ StatsState(t) \/ StatsAttempts(t)
      PROVE  Paired'
  BY <1>0, <1>1, QuietSteps, SamePairs
<1>2. ASSUME NEW t \in Threads, Record(t) PROVE Paired'
  <2>1. \A s \in Threads : pc[s] # "execute"
    BY <1>0, <1>2, OneInside DEF Record
  <2>2. Len(recorded) = Len(executions)
    BY <2>1 DEF Paired
  <2>3. \A s \in Threads : pc'[s] = "execute" <=> s = t
    BY <1>0, <1>2, <2>1 DEF Record, Goto, TypeOK
  <2>4. /\ Len(recorded') = Len(recorded) + 1
        /\ recorded'[Len(recorded')] = trigger[t]
        /\ \A i \in DOMAIN recorded :
                i \in DOMAIN recorded' /\ recorded'[i] = recorded[i]
    BY <1>0, <1>2, AppendProperties DEF Record, TypeOK
  <2>5. executions' = executions /\ trigger' = trigger
    BY <1>2 DEF Record
  <2>6. QED
    BY <1>0, <2>2, <2>3, <2>4, <2>5 DEF Paired
<1>3. ASSUME NEW t \in Threads, Execute(t) PROVE Paired'
  <2>1. PICK worked \in BOOLEAN :
            executions' = Append(executions, [by |-> trigger[t], worked |-> worked])
    BY <1>3 DEF Execute
  <2>2. /\ Len(recorded) = Len(executions) + 1
        /\ recorded[Len(recorded)] = trigger[t]
    BY <1>3 DEF Execute, Paired
  <2>3. \A s \in Threads : pc'[s] # "execute"
    BY <1>0, <1>3, OneInside DEF Execute, Goto, TypeOK
  <2>4. /\ Len(executions') = Len(executions) + 1
        /\ executions'[Len(executions) + 1].by = trigger[t]
        /\ \A i \in DOMAIN executions : executions'[i] = executions[i]
        /\ DOMAIN executions' = 1 .. Len(executions) + 1
    BY <1>0, <2>1, AppendProperties DEF TypeOK
  <2>5. recorded' = recorded /\ DOMAIN recorded = 1 .. Len(executions) + 1
    BY <1>0, <1>3, <2>2 DEF Execute, TypeOK
  <2>6. \A i \in DOMAIN executions' :
            i \in DOMAIN executions \/ i = Len(executions) + 1
    BY <1>0, <2>4 DEF TypeOK
  <2>7. QED
    BY <2>2, <2>3, <2>4, <2>5, <2>6 DEF Paired
<1>4. CASE UNCHANGED vars
  BY <1>4 DEF vars, Paired
<1>5. QED
  BY <1>1, <1>2, <1>3, <1>4 DEF Next, Continue

(* Every rollback command was recorded, in the same order and before it    *)
(* ran, and nothing is recorded that is not run at once.                   *)
THEOREM RecordedFirst == Spec => []RecordedBeforeExecuted
<1>1. IInv /\ Paired => RecordedBeforeExecuted
  <2> SUFFICES ASSUME IInv, Paired PROVE RecordedBeforeExecuted
    OBVIOUS
  <2> DEFINE Executing == {t \in Threads : pc[t] = "execute"}
  <2>1. Len(recorded) \in Nat /\ Len(executions) \in Nat
    BY LenProperties DEF IInv, TypeOK
  <2>2. CASE Executing = {}
    <3>1. Len(recorded) = Len(executions) /\ Cardinality(Executing) = 0
      BY <2>2, FS_EmptySet DEF Paired
    <3>2. QED
      BY <2>1, <3>1 DEF Paired, RecordedBeforeExecuted
  <2>3. ASSUME NEW t \in Executing PROVE RecordedBeforeExecuted
    <3>1. Executing = {t}
      BY OneInside DEF IInv
    <3>2. Len(recorded) = Len(executions) + 1 /\ Cardinality(Executing) = 1
      BY <3>1, FS_Singleton DEF Paired
    <3>3. QED
      BY <2>1, <3>2 DEF Paired, RecordedBeforeExecuted
  <2>4. QED
    BY <2>2, <2>3
<1>2. QED
  BY InitIInv, NextIInv, InitPaired, NextPaired, <1>1, PTL DEF Spec

(* A mutex that is not free is held by a thread inside a call.             *)
LEMMA HolderIsBusy ==
    ASSUME IInv, NEW l \in Locks, ~Free(l)
    PROVE  /\ holder[l] \in Threads
           /\ Holds(holder[l], l)
           /\ pc[holder[l]] # "idle"
BY DEF IInv, TypeOK, LocksMatchPlaces, Holds, Free, Locks

(* However many threads call the manager, they can block each other for    *)
(* good only when get_stats holds triggers and waits for the state that a  *)
(* thread in trigger_rollback holds, which itself waits for triggers.      *)
THEOREM OnlyStatsBlocks == Spec => []StuckOnlyByStats
<1>1. IInv => StuckOnlyByStats
  <2> SUFFICES ASSUME IInv,
                      NEW u \in Threads, pc[u] # "idle",
                      \A t \in Threads : pc[t] # "idle" => Blocked(t)
               PROVE  WedgedByStats
    BY DEF StuckOnlyByStats
  <2>0. TypeOK /\ LocksMatchPlaces
    BY DEF IInv
  <2>1. \A t \in Threads : pc[t] # "execute"
    BY DEF Blocked, Waits
  <2>2. ASSUME NEW t \in Threads, pc[t] = "record" PROVE WedgedByStats
    <3>1. ~Free("triggers") /\ "triggers" \in Locks
      BY <2>2 DEF Blocked, Waits, Locks
    <3> DEFINE s == holder["triggers"]
    <3>2. s \in Threads /\ Holds(s, "triggers")
      BY <3>1, HolderIsBusy
    <3>3. Holds(t, "state") /\ ~Holds(t, "triggers")
      BY <2>0, <2>2 DEF LocksMatchPlaces
    <3>4. pc[s] \in {"stats_state", "stats_attempts"}
      BY <2>0, <3>2 DEF LocksMatchPlaces
    <3>5. pc[s] # "stats_attempts"
      BY <2>0, <3>2, <3>3 DEF LocksMatchPlaces, Holds
    <3>6. QED
      BY <2>2, <3>2, <3>3, <3>4, <3>5 DEF WedgedByStats
  <2>3. ASSUME NEW t \in Threads, pc[t] \in {"lock_attempts", "stats_attempts"}
        PROVE  WedgedByStats
    <3>1. ~Free("attempts") /\ "attempts" \in Locks
      BY <2>3 DEF Blocked, Waits, Locks
    <3>2. /\ holder["attempts"] \in Threads
          /\ pc[holder["attempts"]] \in {"record", "execute"}
      BY <2>0, <3>1, HolderIsBusy DEF LocksMatchPlaces
    <3>3. QED
      BY <2>1, <2>2, <3>2
  <2>4. ASSUME NEW t \in Threads, pc[t] \in {"lock_state", "stats_state"}
        PROVE  WedgedByStats
    <3>1. ~Free("state") /\ "state" \in Locks
      BY <2>4 DEF Blocked, Waits, Locks
    <3>2. /\ holder["state"] \in Threads
          /\ pc[holder["state"]]
                 \in {"lock_attempts", "record", "execute", "stats_attempts"}
      BY <2>0, <3>1, HolderIsBusy DEF LocksMatchPlaces
    <3>3. QED
      BY <2>1, <2>2, <2>3, <3>2
  <2>5. QED
    BY <2>0, <2>1, <2>2, <2>3, <2>4 DEF TypeOK, Places
<1>2. QED
  BY InitIInv, NextIInv, <1>1, PTL DEF Spec

(* How many steps of its own a call still has before it.                   *)
StepsLeft(place) ==
    CASE place = "lock_state" -> 4
      [] place = "lock_attempts" -> 3
      [] place \in {"record", "stats_state"} -> 2
      [] place \in {"execute", "stats_attempts"} -> 1
      [] place = "idle" -> 0

(* A step leaves every call that has begun where it is, or takes it nearer *)
(* to its end: a command that failed is not retried, and no call is sent   *)
(* back by another.                                                        *)
CallsAdvance ==
    \A t \in Threads :
        pc[t] # "idle" => pc'[t] = pc[t] \/ StepsLeft(pc'[t]) < StepsLeft(pc[t])

(* With StuckOnlyByStats what TriggerIsAnswered rests on: trigger_rollback *)
(* answers after at most four steps that nobody undoes.                    *)
THEOREM CallsAreShort == Spec => [][CallsAdvance]_vars
<1>1. ASSUME IInv, Next PROVE CallsAdvance
  <2>1. pc \in [Threads -> Places]
    BY <1>1 DEF IInv, TypeOK
  <2>2. /\ StepsLeft("idle") = 0 /\ StepsLeft("lock_state") = 4
        /\ StepsLeft("lock_attempts") = 3 /\ StepsLeft("record") = 2
        /\ StepsLeft("execute") = 1 /\ StepsLeft("stats_state") = 2
        /\ StepsLeft("stats_attempts") = 1
    BY DEF StepsLeft
  <2>3. ASSUME NEW t \in Threads, NEW place, pc[t] = "idle", Goto(t, place)
        PROVE  CallsAdvance
    BY <2>1, <2>3 DEF Goto, CallsAdvance
  <2>4. ASSUME NEW t \in Threads, NEW place, Goto(t, place),
               StepsLeft(place) < StepsLeft(pc[t])
        PROVE  CallsAdvance
    BY <2>1, <2>4 DEF Goto, CallsAdvance
  <2>5. ASSUME UNCHANGED pc PROVE CallsAdvance
    BY <2>5 DEF CallsAdvance
  <2>6. PICK t \in Threads :
            \/ Call(t) \/ RecordTrigger(t) \/ ClearTriggers(t) \/ StatsTriggers(t)
            \/ Continue(t)
    BY <1>1 DEF Next
  <2>7. CASE Call(t) \/ StatsTriggers(t)
    BY <2>3, <2>7 DEF Call, StatsTriggers
  <2>8. CASE RecordTrigger(t) \/ ClearTriggers(t)
    BY <2>5, <2>8 DEF RecordTrigger, ClearTriggers
  <2>9. CASE LockState(t) \/ LockAttempts(t)
    BY <2>2, <2>4, <2>9 DEF LockState, LockAttempts
  <2>10. CASE Record(t) \/ Execute(t)
    BY <2>2, <2>4, <2>10 DEF Record, Execute
  <2>11. CASE StatsState(t) \/ StatsAttempts(t)
    BY <2>2, <2>4, <2>11 DEF StatsState, StatsAttempts
  <2>12. QED
    BY <2>6, <2>7, <2>8, <2>9, <2>10, <2>11 DEF Continue
<1>2. QED
  BY <1>1, InitIInv, NextIInv, PTL DEF Spec

(* No call takes the limit back: once max_rollback_attempts commands have  *)
(* succeeded, no command is run for as long as the manager lives, for a    *)
(* call that was under way at that moment either.                          *)
LimitIsFinal ==
    attempts = MaxAttempts => UNCHANGED <<executions, attempts, state>>

THEOREM NoRollbackPastLimit == Spec => [][LimitIsFinal]_vars
<1>1. ASSUME IInv, Next PROVE LimitIsFinal
  <2>1. MaxAttempts \in Nat
    BY RollbackAssumption
  <2>2. PICK t \in Threads :
            \/ Call(t) \/ RecordTrigger(t) \/ ClearTriggers(t) \/ StatsTriggers(t)
            \/ Continue(t)
    BY <1>1 DEF Next
  <2>3. CASE Execute(t)
    <3>1. pc[t] = "execute" /\ attempts < MaxAttempts
      BY <1>1, <2>3 DEF Execute, IInv, RoomToSucceed
    <3>2. QED
      BY <2>1, <3>1 DEF LimitIsFinal
  <2>4. CASE Call(t) \/ RecordTrigger(t) \/ ClearTriggers(t) \/ StatsTriggers(t)
    BY <2>4 DEF LimitIsFinal, Call, RecordTrigger, ClearTriggers, StatsTriggers
  <2>5. CASE LockState(t) \/ LockAttempts(t) \/ Record(t)
    BY <2>5 DEF LimitIsFinal, LockState, LockAttempts, Record
  <2>6. CASE StatsState(t) \/ StatsAttempts(t)
    BY <2>6 DEF LimitIsFinal, StatsState, StatsAttempts
  <2>7. QED
    BY <2>2, <2>3, <2>4, <2>5, <2>6 DEF Continue
<1>2. QED
  BY <1>1, InitIInv, NextIInv, PTL DEF Spec

=============================================================================
