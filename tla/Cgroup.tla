------------------------------- MODULE Cgroup -------------------------------
(***************************************************************************)
(* src/cgroup.rs: a PredictiveClamp shared by threads.  monitor_process    *)
(* records a sample, reads the history twice, and clamps a process whose   *)
(* memory or CPU use grows too fast; clamp and release are called          *)
(* directly.  Clamping writes cpu.max and then memory.max under the mutex  *)
(* of clamps, and either write may fail.                                   *)
(***************************************************************************)
EXTENDS Integers, Sequences

CONSTANTS
    Threads, Pids,
    Samples,        \* ResourceUsage: records [time, memory, cpu]
    MaxHistory,     \* 100 in record_usage
    MemoryRate, CpuRate,    \* memory_threshold and cpu_threshold, which
                            \* nothing keeps from being negative
    MaxSamples,     \* bound on the samples recorded
    Nobody

ASSUME CgroupAssumption ==
    /\ Samples \subseteq [time : Nat, memory : Nat, cpu : Int]
    /\ MaxHistory \in Nat \ {0}
    /\ MemoryRate \in Int /\ CpuRate \in Int /\ MaxSamples \in Nat
    /\ Nobody \notin Threads

VARIABLES
    cpuMax,         \* cpu.max of the process's cpu cgroup
    memoryMax,      \* memory.max of its memory cgroup
    clamps,         \* CgroupManager.clamps: no state, is_clamped or not
    history,        \* CgroupManager.usage_history
    holder,         \* who holds the mutex of clamps
    pc, pid,        \* where each thread is, and for which process
    memoryGrows,    \* what is_runaway has found for the memory
    recorded,       \* every sample recorded of a process
    broken          \* the last change of the limits failed half way

vars == <<cpuMax, memoryMax, clamps, history, holder, pc, pid, memoryGrows,
          recorded, broken>>
files == <<cpuMax, memoryMax>>

Init ==
    /\ cpuMax = [p \in Pids |-> "unset"]
    /\ memoryMax = [p \in Pids |-> "unset"]
    /\ clamps = [p \in Pids |-> "absent"]
    /\ history = [p \in Pids |-> << >>]
    /\ holder = Nobody
    /\ pc = [t \in Threads |-> "idle"]
    /\ pid \in [Threads -> Pids]
    /\ memoryGrows = [t \in Threads |-> FALSE]
    /\ recorded = [p \in Pids |-> << >>]
    /\ broken = [p \in Pids |-> FALSE]

Goto(t, place) == pc' = [pc EXCEPT ![t] = place]

(* record_usage keeps the last MaxHistory samples.                         *)
Recent(samples) ==
    IF Len(samples) > MaxHistory THEN Tail(samples) ELSE samples

Last(samples) == samples[Len(samples)]
Previous(samples) == samples[Len(samples) - 1]

GrewFaster(samples, use, rate) ==
    Last(samples)[use] - Previous(samples)[use]
        > rate * (Last(samples).time - Previous(samples).time)

(* A bug for the runs to find: samples of one moment are compared.         *)
GrowsAtOnce(samples, use, rate) ==
    \/ Len(samples) >= 2 /\ GrewFaster(samples, use, rate)
    \/ Len(samples) < 2 /\ 0 > rate

(* calculate_memory_derivative and calculate_cpu_derivative, compared with *)
(* a threshold: growth between the last two samples over their distance,   *)
(* or 0.0 when there are no two in the order of their time.                *)
InOrder(samples) ==
    Len(samples) >= 2 /\ Last(samples).time > Previous(samples).time

GrowsFaster(samples, use, rate) ==
    \/ InOrder(samples) /\ GrewFaster(samples, use, rate)
    \/ ~ InOrder(samples) /\ 0 > rate

(* monitor_process: the sample is recorded under the history's mutex.      *)
RecordUsage(t) ==
    /\ pc[t] = "idle"
    /\ \E p \in Pids, sample \in Samples :
        /\ Len(recorded[p]) < MaxSamples
        /\ pid' = [pid EXCEPT ![t] = p]
        /\ history' = [history EXCEPT ![p] = Recent(Append(@, sample))]
        /\ recorded' = [recorded EXCEPT ![p] = Append(@, sample)]
    /\ Goto(t, "memory")
    /\ UNCHANGED <<files, clamps, holder, memoryGrows, broken>>

(* is_runaway: each derivative takes its own copy of the history.          *)
ReadMemory(t) ==
    /\ pc[t] = "memory"
    /\ memoryGrows' = [memoryGrows EXCEPT
                          ![t] = GrowsFaster(history[pid[t]], "memory", MemoryRate)]
    /\ Goto(t, "cpu")
    /\ UNCHANGED <<files, clamps, history, holder, pid, recorded, broken>>

ReadCpu(t) ==
    /\ pc[t] = "cpu"
    /\ Goto(t, IF memoryGrows[t] \/ GrowsFaster(history[pid[t]], "cpu", CpuRate)
               THEN "runaway" ELSE "idle")
    /\ memoryGrows' = [memoryGrows EXCEPT ![t] = FALSE]
    /\ UNCHANGED <<files, clamps, history, holder, pid, recorded, broken>>

(* clamp and release, called directly.                                     *)
Ask(t) ==
    /\ pc[t] = "idle"
    /\ \E p \in Pids : pid' = [pid EXCEPT ![t] = p]
    /\ \E place \in {"clamp", "unclamp"} : Goto(t, place)
    /\ UNCHANGED <<files, clamps, history, holder, memoryGrows, recorded, broken>>

Clamped(p) == clamps[p] = "clamped"

(* clamp_process and unclamp_process up to their first write: nothing is   *)
(* done for a process that is clamped already, or is not clamped.          *)
LockClamps(t) ==
    /\ holder = Nobody
    /\ \/ /\ pc[t] \in {"clamp", "runaway"}
          /\ IF Clamped(pid[t])
                THEN Goto(t, "idle") /\ UNCHANGED holder
                ELSE Goto(t, "limit_cpu") /\ holder' = t
       \/ /\ pc[t] = "unclamp"
          /\ IF Clamped(pid[t])
                THEN Goto(t, "free_cpu") /\ holder' = t
                ELSE Goto(t, "idle") /\ UNCHANGED holder
    /\ UNCHANGED <<files, clamps, history, pid, memoryGrows, recorded, broken>>

(* The `?` of a write that fails returns and drops the guard.              *)
GiveUp(t) ==
    /\ holder' = Nobody
    /\ Goto(t, "idle")
    /\ broken' = [broken EXCEPT
                     ![pid[t]] = @ \/ pc[t] \in {"limit_memory", "free_memory"}]

(* The first write.                                                        *)
WriteCpu(t) ==
    /\ pc[t] \in {"limit_cpu", "free_cpu"}
    /\ \/ /\ cpuMax' = [cpuMax EXCEPT
                ![pid[t]] = IF pc[t] = "limit_cpu" THEN "1%" ELSE "100%"]
          /\ Goto(t, IF pc[t] = "limit_cpu" THEN "limit_memory" ELSE "free_memory")
          /\ UNCHANGED <<holder, broken>>
       \/ GiveUp(t) /\ UNCHANGED cpuMax
    /\ UNCHANGED <<memoryMax, clamps, history, pid, memoryGrows, recorded>>

(* A bug for the runs to find: the state is changed although the write     *)
(* failed.                                                                 *)
WriteMemoryAnyway(t) ==
    /\ pc[t] \in {"limit_memory", "free_memory"}
    /\ memoryMax' \in
          {memoryMax, [memoryMax EXCEPT
               ![pid[t]] = IF pc[t] = "limit_memory" THEN "1MB" ELSE "max"]}
    /\ clamps' = [clamps EXCEPT
          ![pid[t]] = IF pc[t] = "limit_memory" THEN "clamped" ELSE "released"]
    /\ broken' = [broken EXCEPT ![pid[t]] = FALSE]
    /\ holder' = Nobody
    /\ Goto(t, "idle")
    /\ UNCHANGED <<cpuMax, history, pid, memoryGrows, recorded>>

(* The second write, and the new state.                                    *)
WriteMemory(t) ==
    /\ pc[t] \in {"limit_memory", "free_memory"}
    /\ \/ /\ memoryMax' = [memoryMax EXCEPT
                ![pid[t]] = IF pc[t] = "limit_memory" THEN "1MB" ELSE "max"]
          /\ clamps' = [clamps EXCEPT
                ![pid[t]] = IF pc[t] = "limit_memory" THEN "clamped" ELSE "released"]
          /\ broken' = [broken EXCEPT ![pid[t]] = FALSE]
          /\ holder' = Nobody
          /\ Goto(t, "idle")
       \/ GiveUp(t) /\ UNCHANGED <<memoryMax, clamps>>
    /\ UNCHANGED <<cpuMax, history, pid, memoryGrows, recorded>>

Next ==
    \E t \in Threads :
        \/ RecordUsage(t)
        \/ ReadMemory(t)
        \/ ReadCpu(t)
        \/ Ask(t)
        \/ LockClamps(t)
        \/ WriteCpu(t)
        \/ WriteMemory(t)

Spec == Init /\ [][Next]_vars

-----------------------------------------------------------------------------

(* Type correctness.                                                       *)
TypeOK ==
    /\ cpuMax \in [Pids -> {"unset", "1%", "100%"}]
    /\ memoryMax \in [Pids -> {"unset", "1MB", "max"}]
    /\ clamps \in [Pids -> {"absent", "clamped", "released"}]
    /\ history \in [Pids -> Seq(Samples)]
    /\ \A p \in Pids : Len(history[p]) <= MaxHistory
    /\ holder \in Threads \cup {Nobody}
    /\ pc \in [Threads -> {"idle", "memory", "cpu", "runaway", "clamp", "unclamp",
                          "limit_cpu", "limit_memory", "free_cpu", "free_memory"}]
    /\ pid \in [Threads -> Pids]
    /\ memoryGrows \in [Threads -> BOOLEAN]
    /\ recorded \in [Pids -> Seq(Samples)]
    /\ broken \in [Pids -> BOOLEAN]

(* A process is recorded as clamped exactly when its memory is limited:    *)
(* memory.max is written last, in both directions, and the state with it.  *)
(* With no change under way the CPU limit agrees with the record as well,  *)
(* unless the last change failed between its two writes; the next change   *)
(* that succeeds puts that right.                                          *)
RecordTellsLimits ==
    \A p \in Pids :
        /\ Clamped(p) <=> memoryMax[p] = "1MB"
        /\ holder = Nobody => broken[p] \/ (Clamped(p) <=> cpuMax[p] = "1%")

(* A process is taken for a runaway only for two samples recorded one      *)
(* after the other, although other threads record in between and each      *)
(* derivative looks at a history of its own; or when a threshold is        *)
(* negative, which a process at rest exceeds.                              *)
RunawayHasCause ==
    \A t \in Threads :
        pc[t] = "runaway" =>
            LET samples == recorded[pid[t]]
            IN  \/ 0 > MemoryRate \/ 0 > CpuRate
                \/ \E i \in 1 .. Len(samples) - 1 :
                      LET elapsed == samples[i + 1].time - samples[i].time
                      IN  /\ elapsed > 0
                          /\ \/ samples[i + 1].memory - samples[i].memory
                                    > MemoryRate * elapsed
                             \/ samples[i + 1].cpu - samples[i].cpu
                                    > CpuRate * elapsed

=============================================================================
