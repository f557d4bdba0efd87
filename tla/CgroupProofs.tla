---------------------------- MODULE CgroupProofs ----------------------------
(***************************************************************************)
(* Of a PredictiveClamp with any number of threads and processes: the      *)
(* types, the agreement of the recorded clamps with the limits written,    *)
(* and that nothing is taken for a runaway without two samples that show   *)
(* it.                                                                     *)
(***************************************************************************)
EXTENDS Cgroup, SequenceTheorems, TLAPS

(* Where a thread is when it holds the mutex of clamps.                    *)
Writing == {"limit_cpu", "limit_memory", "free_cpu", "free_memory"}

(* A sequence of samples holds the last ones of another.                   *)
LastOf(last, all) ==
    /\ Len(last) <= Len(all)
    /\ \A i \in 1 .. Len(last) : last[i] = all[Len(all) - Len(last) + i]

(* The history kept is the end of what was recorded, even when the oldest  *)
(* sample is dropped for the new one.                                      *)
LEMMA RecentIsLast ==
    ASSUME NEW last \in Seq(Samples), NEW all \in Seq(Samples),
           NEW sample \in Samples, LastOf(last, all), Len(last) <= MaxHistory
    PROVE  /\ Recent(Append(last, sample)) \in Seq(Samples)
           /\ Len(Recent(Append(last, sample))) <= MaxHistory
           /\ LastOf(Recent(Append(last, sample)), Append(all, sample))
<1> DEFINE longer == Append(last, sample)
<1> DEFINE whole == Append(all, sample)
<1>1. /\ longer \in Seq(Samples) /\ Len(longer) = Len(last) + 1
      /\ whole \in Seq(Samples) /\ Len(whole) = Len(all) + 1
      /\ Len(last) \in Nat /\ Len(all) \in Nat
      /\ longer[Len(last) + 1] = sample /\ whole[Len(all) + 1] = sample
      /\ \A i \in 1 .. Len(last) : longer[i] = last[i]
      /\ \A i \in 1 .. Len(all) : whole[i] = all[i]
  BY AppendProperties, LenProperties
<1> HIDE DEF longer, whole
<1>2. LastOf(longer, whole)
  <2>1. ASSUME NEW i \in 1 .. Len(longer)
        PROVE  longer[i] = whole[Len(whole) - Len(longer) + i]
    <3>1. CASE i \in 1 .. Len(last)
      <4>1. longer[i] = last[i] /\ last[i] = all[Len(all) - Len(last) + i]
        BY <1>1, <3>1 DEF LastOf
      <4>2. Len(all) - Len(last) + i \in 1 .. Len(all)
        BY <1>1, <3>1 DEF LastOf
      <4>3. Len(whole) - Len(longer) + i = Len(all) - Len(last) + i
        BY <1>1
      <4>4. whole[Len(all) - Len(last) + i] = all[Len(all) - Len(last) + i]
        BY <1>1, <4>2
      <4>5. QED
        BY <4>1, <4>3, <4>4
    <3>2. CASE i = Len(last) + 1
      <4>1. Len(whole) - Len(longer) + i = Len(all) + 1
        BY <1>1, <3>2
      <4>2. QED
        BY <1>1, <3>2, <4>1
    <3>3. QED
      BY <1>1, <3>1, <3>2
  <2>2. Len(longer) <= Len(whole)
    BY <1>1 DEF LastOf
  <2>3. QED
    BY <2>1, <2>2 DEF LastOf
<1>3. ASSUME Len(longer) > MaxHistory
      PROVE  /\ Recent(longer) \in Seq(Samples)
             /\ Len(Recent(longer)) <= MaxHistory
             /\ LastOf(Recent(longer), whole)
  <2> DEFINE kept == Tail(longer)
  <2>1. /\ kept \in Seq(Samples) /\ Len(kept) = Len(longer) - 1
        /\ \A i \in 1 .. Len(kept) : kept[i] = longer[i + 1]
    BY <1>1, HeadTailProperties, EmptySeq
  <2>2. Recent(longer) = kept
    BY <1>3 DEF Recent
  <2> HIDE DEF kept
  <2>3. Len(kept) <= MaxHistory
    BY <1>1, <2>1, CgroupAssumption
  <2>4. \A i \in 1 .. Len(kept) : kept[i] = whole[Len(whole) - Len(kept) + i]
    <3>1. ASSUME NEW i \in 1 .. Len(kept)
          PROVE  kept[i] = whole[Len(whole) - Len(kept) + i]
      <4>1. i + 1 \in 1 .. Len(longer)
        BY <1>1, <2>1
      <4>2. longer[i + 1] = whole[Len(whole) - Len(longer) + (i + 1)]
        BY <1>2, <4>1 DEF LastOf
      <4>3. Len(whole) - Len(longer) + (i + 1) = Len(whole) - Len(kept) + i
        BY <1>1, <2>1
      <4>4. QED
        BY <2>1, <4>2, <4>3
    <3>2. QED
      BY <3>1
  <2>5. Len(kept) <= Len(whole)
    BY <1>1, <1>2, <2>1 DEF LastOf
  <2>6. QED
    BY <2>1, <2>2, <2>3, <2>4, <2>5 DEF LastOf
<1>4. ASSUME ~(Len(longer) > MaxHistory)
      PROVE  /\ Recent(longer) \in Seq(Samples)
             /\ Len(Recent(longer)) <= MaxHistory
             /\ LastOf(Recent(longer), whole)
  <2>1. Recent(longer) = longer
    BY <1>4 DEF Recent
  <2>2. Len(longer) <= MaxHistory
    BY <1>1, <1>4, CgroupAssumption
  <2>3. QED
    BY <1>1, <1>2, <2>1, <2>2
<1>5. QED
  BY <1>3, <1>4 DEF longer, whole

(* TypeOK, and that a history is the end of what was recorded.             *)
Typed ==
    /\ TypeOK
    /\ \A p \in Pids : LastOf(history[p], recorded[p])

LEMMA InitTyped == Init => Typed
<1> SUFFICES ASSUME Init PROVE Typed
  OBVIOUS
<1>1. << >> \in Seq(Samples) /\ Len(<< >>) = 0
  BY EmptySeq
<1>2. TypeOK
  BY <1>1, CgroupAssumption DEF Init, TypeOK
<1>3. QED
  BY <1>1, <1>2 DEF Init, Typed, LastOf

(* A write touches a limit, the record and its holder, and moves on.       *)
LEMMA KeepsTypes ==
    ASSUME TypeOK, NEW t \in Threads,
           cpuMax' \in [Pids -> {"unset", "1%", "100%"}],
           memoryMax' \in [Pids -> {"unset", "1MB", "max"}],
           clamps' \in [Pids -> {"absent", "clamped", "released"}],
           broken' \in [Pids -> BOOLEAN], holder' \in {holder, Nobody},
           \E place \in {"idle", "limit_memory", "free_memory"} : Goto(t, place),
           UNCHANGED <<history, recorded, pid, memoryGrows>>
    PROVE  TypeOK'
<1>1. pc' \in [Threads -> {"idle", "memory", "cpu", "runaway", "clamp", "unclamp",
                          "limit_cpu", "limit_memory", "free_cpu", "free_memory"}]
  BY DEF TypeOK, Goto
<1>2. QED
  BY <1>1 DEF TypeOK

LEMMA NextTyped == Typed /\ [Next]_vars => Typed'
<1> SUFFICES ASSUME Typed, [Next]_vars PROVE Typed'
  OBVIOUS
<1>0. TypeOK
  BY DEF Typed
<1>1. ASSUME NEW t \in Threads, RecordUsage(t) PROVE Typed'
  <2>1. PICK p \in Pids, sample \in Samples :
            /\ pid' = [pid EXCEPT ![t] = p]
            /\ history' = [history EXCEPT ![p] = Recent(Append(@, sample))]
            /\ recorded' = [recorded EXCEPT ![p] = Append(@, sample)]
    BY <1>1 DEF RecordUsage
  <2>2. /\ Recent(Append(history[p], sample)) \in Seq(Samples)
        /\ Len(Recent(Append(history[p], sample))) <= MaxHistory
        /\ LastOf(Recent(Append(history[p], sample)), Append(recorded[p], sample))
    BY <1>0, RecentIsLast DEF TypeOK, Typed
  <2>3. Append(recorded[p], sample) \in Seq(Samples)
    BY <1>0, AppendProperties DEF TypeOK
  <2>4. /\ history'[p] = Recent(Append(history[p], sample))
        /\ recorded'[p] = Append(recorded[p], sample)
        /\ \A q \in Pids \ {p} :
              history'[q] = history[q] /\ recorded'[q] = recorded[q]
        /\ history' \in [Pids -> Seq(Samples)]
        /\ recorded' \in [Pids -> Seq(Samples)]
    BY <1>0, <2>1, <2>2, <2>3 DEF TypeOK
  <2>5. \A q \in Pids :
            Len(history'[q]) <= MaxHistory /\ LastOf(history'[q], recorded'[q])
    BY <1>0, <2>2, <2>4 DEF TypeOK, Typed
  <2>6. pid' \in [Threads -> Pids]
    BY <1>0, <2>1 DEF TypeOK
  <2>7. QED
    BY <1>0, <1>1, <2>4, <2>5, <2>6 DEF RecordUsage, Typed, TypeOK, Goto, files
<1>2. ASSUME NEW t \in Threads,
             \/ ReadMemory(t) \/ ReadCpu(t) \/ Ask(t) \/ LockClamps(t)
             \/ WriteCpu(t) \/ WriteMemory(t)
      PROVE  Typed'
  <2>1. UNCHANGED <<history, recorded>>
    BY <1>2 DEF ReadMemory, ReadCpu, Ask, LockClamps, WriteCpu, WriteMemory
  <2>2. CASE ReadMemory(t)
    <3>1. GrowsFaster(history[pid[t]], "memory", MemoryRate) \in BOOLEAN
      BY DEF GrowsFaster
    <3>2. memoryGrows' \in [Threads -> BOOLEAN]
      BY <1>0, <2>2, <3>1 DEF ReadMemory, TypeOK
    <3>3. QED
      BY <1>0, <2>1, <2>2, <3>2 DEF ReadMemory, Typed, TypeOK, Goto, files
  <2>3. CASE ReadCpu(t)
    BY <1>0, <2>1, <2>3 DEF ReadCpu, Typed, TypeOK, Goto, files
  <2>4. CASE Ask(t)
    BY <1>0, <2>1, <2>4 DEF Ask, Typed, TypeOK, Goto, files
  <2>5. CASE LockClamps(t)
    <3>1. /\ holder' \in Threads \cup {Nobody}
          /\ pc' \in [Threads -> {"idle", "memory", "cpu", "runaway", "clamp", "unclamp",
                                  "limit_cpu", "limit_memory", "free_cpu", "free_memory"}]
      <4>1. /\ holder' \in {holder, t}
            /\ \E place \in {"idle", "limit_cpu", "free_cpu"} : Goto(t, place)
        BY <2>5 DEF LockClamps
      <4>2. QED
        BY <1>0, <4>1 DEF TypeOK, Goto
    <3>2. UNCHANGED <<files, clamps, pid, memoryGrows, broken>>
      BY <2>5 DEF LockClamps
    <3>3. QED
      BY <1>0, <2>1, <3>1, <3>2 DEF Typed, TypeOK, files
  <2>6. CASE WriteCpu(t)
    <3>1. /\ cpuMax' \in {cpuMax, [cpuMax EXCEPT ![pid[t]] = "1%"],
                           [cpuMax EXCEPT ![pid[t]] = "100%"]}
          /\ holder' \in {holder, Nobody}
          /\ \E place \in {"idle", "limit_memory", "free_memory"} : Goto(t, place)
          /\ UNCHANGED <<memoryMax, clamps, pid, memoryGrows>>
      BY <2>6 DEF WriteCpu, GiveUp
    <3>2. broken' \in [Pids -> BOOLEAN]
      BY <1>0, <2>6 DEF WriteCpu, GiveUp, TypeOK
    <3>3. cpuMax' \in [Pids -> {"unset", "1%", "100%"}]
      BY <1>0, <3>1 DEF TypeOK
    <3>4. QED
      <4>1. /\ cpuMax' \in [Pids -> {"unset", "1%", "100%"}]
            /\ memoryMax' \in [Pids -> {"unset", "1MB", "max"}]
            /\ clamps' \in [Pids -> {"absent", "clamped", "released"}]
        BY <1>0, <3>1, <3>3 DEF TypeOK
      <4>2. TypeOK'
        BY <1>0, <2>1, <3>1, <3>2, <4>1, KeepsTypes
      <4>3. QED
        BY <2>1, <4>2 DEF Typed
  <2>7. CASE WriteMemory(t)
    <3>1. /\ memoryMax' \in {memoryMax, [memoryMax EXCEPT ![pid[t]] = "1MB"],
                              [memoryMax EXCEPT ![pid[t]] = "max"]}
          /\ clamps' \in {clamps, [clamps EXCEPT ![pid[t]] = "clamped"],
                           [clamps EXCEPT ![pid[t]] = "released"]}
          /\ holder' = Nobody /\ Goto(t, "idle")
          /\ UNCHANGED <<cpuMax, pid, memoryGrows>>
      BY <2>7 DEF WriteMemory, GiveUp
    <3>2. broken' \in [Pids -> BOOLEAN]
      BY <1>0, <2>7 DEF WriteMemory, GiveUp, TypeOK
    <3>3. /\ memoryMax' \in [Pids -> {"unset", "1MB", "max"}]
          /\ clamps' \in [Pids -> {"absent", "clamped", "released"}]
      BY <1>0, <3>1 DEF TypeOK
    <3>4. QED
      <4>1. /\ cpuMax' \in [Pids -> {"unset", "1%", "100%"}]
            /\ memoryMax' \in [Pids -> {"unset", "1MB", "max"}]
            /\ clamps' \in [Pids -> {"absent", "clamped", "released"}]
        BY <1>0, <3>1, <3>3 DEF TypeOK
      <4>2. TypeOK'
        BY <1>0, <2>1, <3>1, <3>2, <4>1, KeepsTypes
      <4>3. QED
        BY <2>1, <4>2 DEF Typed
  <2>8. QED
    BY <1>2, <2>2, <2>3, <2>4, <2>5, <2>6, <2>7
<1>3. CASE UNCHANGED vars
  BY <1>3 DEF vars, Typed, TypeOK
<1>4. QED
  BY <1>1, <1>2, <1>3 DEF Next

(* The types, and that no history is longer than MaxHistory.               *)
THEOREM TypeCorrect == Spec => []TypeOK
<1>1. Typed => TypeOK
  BY DEF Typed
<1>2. QED
  BY InitTyped, NextTyped, <1>1, PTL DEF Spec

-----------------------------------------------------------------------------

(* The thread at one of the writes is the one that holds the mutex.        *)
HolderWrites == \A t \in Threads : holder = t <=> pc[t] \in Writing

(* What a thread that holds the mutex found and has already written.       *)
Progress ==
    \A t \in Threads :
        /\ pc[t] \in {"limit_cpu", "limit_memory"} => ~Clamped(pid[t])
        /\ pc[t] \in {"free_cpu", "free_memory"} => Clamped(pid[t])
        /\ pc[t] = "limit_memory" => cpuMax[pid[t]] = "1%"
        /\ pc[t] = "free_memory" => cpuMax[pid[t]] = "100%"

(* Between the two writes for a process its limits disagree; at any other  *)
(* time the record tells both, unless the last change broke off there.     *)
Halfway(t, p) == pid[t] = p /\ pc[t] \in {"limit_memory", "free_memory"}

Agreement ==
    \A p \in Pids :
        /\ Clamped(p) <=> memoryMax[p] = "1MB"
        /\ \/ \E t \in Threads : Halfway(t, p)
           \/ broken[p]
           \/ Clamped(p) <=> cpuMax[p] = "1%"

IInv == HolderWrites /\ Progress /\ Agreement

LEMMA InitIInv == Init => IInv
BY CgroupAssumption
DEF Init, IInv, HolderWrites, Progress, Agreement, Clamped, Writing, Halfway

(* A step that touches no limit, no record and no thread at a write.       *)
LEMMA ElsewhereKeepsIInv ==
    ASSUME IInv, UNCHANGED <<cpuMax, memoryMax, clamps, holder, broken>>,
           \A s \in Threads : pc'[s] \in Writing <=> pc[s] \in Writing,
           \A s \in Threads :
               pc[s] \in Writing => pc'[s] = pc[s] /\ pid'[s] = pid[s]
    PROVE  IInv'
<1>1. \A s \in Threads, place \in Writing :
          pc'[s] = place <=> pc[s] = place
  OBVIOUS
<1>2. HolderWrites'
  BY DEF IInv, HolderWrites
<1>3. Progress'
  BY <1>1 DEF IInv, Progress, Clamped, Writing
<1>4. Agreement'
  BY <1>1 DEF IInv, Agreement, Clamped, Halfway, Writing
<1>5. QED
  BY <1>2, <1>3, <1>4 DEF IInv

LEMMA NextIInv == Typed /\ IInv /\ [Next]_vars => IInv'
<1> SUFFICES ASSUME Typed, IInv, [Next]_vars PROVE IInv'
  OBVIOUS
<1>0. TypeOK
  BY DEF Typed
<1>1. ASSUME NEW t \in Threads,
             RecordUsage(t) \/ ReadMemory(t) \/ ReadCpu(t) \/ Ask(t)
      PROVE  IInv'
  <2>1. UNCHANGED <<cpuMax, memoryMax, clamps, holder, broken>>
    BY <1>1 DEF RecordUsage, ReadMemory, ReadCpu, Ask, files
  <2>2. pc[t] \notin Writing
    BY <1>1 DEF RecordUsage, ReadMemory, ReadCpu, Ask, Writing
  <2>3. /\ \A s \in Threads \ {t} : pc'[s] = pc[s] /\ pid'[s] = pid[s]
        /\ pc'[t] \notin Writing
    <3>1. CASE RecordUsage(t)
      BY <1>0, <3>1 DEF RecordUsage, Goto, TypeOK, Writing
    <3>2. CASE ReadMemory(t)
      BY <1>0, <3>2 DEF ReadMemory, Goto, TypeOK, Writing
    <3>3. CASE ReadCpu(t)
      BY <1>0, <3>3 DEF ReadCpu, Goto, TypeOK, Writing
    <3>4. CASE Ask(t)
      BY <1>0, <3>4 DEF Ask, Goto, TypeOK, Writing
    <3>5. QED
      BY <1>1, <3>1, <3>2, <3>3, <3>4
  <2>4. QED
    BY <2>1, <2>2, <2>3, ElsewhereKeepsIInv
<1>2. ASSUME NEW t \in Threads, LockClamps(t) PROVE IInv'
  <2>1. UNCHANGED <<cpuMax, memoryMax, clamps, pid, broken>> /\ holder = Nobody
    BY <1>2 DEF LockClamps, files
  <2>2. \A s \in Threads : pc[s] \notin Writing
    BY <2>1, CgroupAssumption DEF IInv, HolderWrites
  <2>3. \A s \in Threads : pc'[s] = IF s = t THEN pc'[t] ELSE pc[s]
    BY <1>0, <1>2 DEF LockClamps, Goto, TypeOK
  <2>4. \/ pc'[t] = "idle" /\ holder' = Nobody
        \/ pc'[t] = "limit_cpu" /\ holder' = t /\ ~Clamped(pid[t])
        \/ pc'[t] = "free_cpu" /\ holder' = t /\ Clamped(pid[t])
    BY <1>0, <1>2, <2>1 DEF LockClamps, Goto, TypeOK
  <2>5. HolderWrites'
    BY <2>2, <2>3, <2>4, CgroupAssumption DEF HolderWrites, Writing
  <2>6. Progress'
    BY <2>1, <2>2, <2>3, <2>4 DEF Progress, Clamped, Writing
  <2>7. Agreement'
    BY <2>1, <2>2 DEF IInv, Agreement, Clamped, Halfway, Writing
  <2>8. QED
    BY <2>5, <2>6, <2>7 DEF IInv
<1>3. ASSUME NEW t \in Threads, WriteCpu(t) PROVE IInv'
  <2>1. UNCHANGED <<memoryMax, clamps, pid>> /\ pc[t] \in {"limit_cpu", "free_cpu"}
    BY <1>3 DEF WriteCpu
  <2>2. \A s \in Threads : s # t => pc[s] \notin Writing
    BY <2>1 DEF IInv, HolderWrites, Writing
  <2>3. \A s \in Threads : pc'[s] = IF s = t THEN pc'[t] ELSE pc[s]
    BY <1>0, <1>3 DEF WriteCpu, GiveUp, Goto, TypeOK
  <2>4. CASE /\ cpuMax' = [cpuMax EXCEPT
                    ![pid[t]] = IF pc[t] = "limit_cpu" THEN "1%" ELSE "100%"]
             /\ Goto(t, IF pc[t] = "limit_cpu" THEN "limit_memory" ELSE "free_memory")
             /\ UNCHANGED <<holder, broken>>
    <3>1. pc'[t] = IF pc[t] = "limit_cpu" THEN "limit_memory" ELSE "free_memory"
      BY <1>0, <2>4 DEF Goto, TypeOK
    <3>2. /\ cpuMax'[pid[t]] = IF pc[t] = "limit_cpu" THEN "1%" ELSE "100%"
          /\ \A q \in Pids : q # pid[t] => cpuMax'[q] = cpuMax[q]
          /\ pid[t] \in Pids
      BY <1>0, <2>4 DEF TypeOK
    <3>3. HolderWrites'
      BY <2>1, <2>2, <2>3, <2>4, <3>1 DEF IInv, HolderWrites, Writing
    <3>4. Progress'
      BY <2>1, <2>2, <2>3, <3>1, <3>2 DEF IInv, Progress, Clamped, Writing
    <3>5. Halfway(t, pid[t])'
      BY <2>1, <3>1 DEF Halfway
    <3>6. Agreement'
      BY <2>1, <2>2, <2>4, <3>2, <3>5
      DEF IInv, Agreement, Clamped, Halfway, Writing
    <3>7. QED
      BY <3>3, <3>4, <3>6 DEF IInv
  <2>5. CASE GiveUp(t) /\ UNCHANGED cpuMax
    <3>1. pc'[t] = "idle" /\ holder' = Nobody
      BY <1>0, <2>5 DEF GiveUp, Goto, TypeOK
    <3>2. broken' = broken
      BY <1>0, <2>1, <2>5 DEF GiveUp, TypeOK
    <3>3. HolderWrites'
      BY <2>2, <2>3, <3>1, CgroupAssumption DEF HolderWrites, Writing
    <3>4. Progress'
      BY <2>2, <2>3, <3>1 DEF Progress, Writing
    <3>5. Agreement'
      BY <2>1, <2>2, <2>5, <3>2 DEF IInv, Agreement, Clamped, Halfway, Writing
    <3>6. QED
      BY <3>3, <3>4, <3>5 DEF IInv
  <2>6. QED
    BY <1>3, <2>4, <2>5 DEF WriteCpu
<1>4. ASSUME NEW t \in Threads, WriteMemory(t) PROVE IInv'
  <2>1. /\ UNCHANGED <<cpuMax, pid>>
        /\ pc[t] \in {"limit_memory", "free_memory"}
        /\ pid[t] \in Pids
    BY <1>0, <1>4 DEF WriteMemory, TypeOK
  <2>2. \A s \in Threads : s # t => pc[s] \notin Writing
    BY <2>1 DEF IInv, HolderWrites, Writing
  <2>3. \A s \in Threads : pc'[s] = IF s = t THEN "idle" ELSE pc[s]
    BY <1>0, <1>4 DEF WriteMemory, GiveUp, Goto, TypeOK
  <2>4. holder' = Nobody
    BY <1>4 DEF WriteMemory, GiveUp
  <2>5. HolderWrites'
    BY <2>2, <2>3, <2>4, CgroupAssumption DEF HolderWrites, Writing
  <2>6. Progress'
    BY <2>2, <2>3 DEF Progress, Writing
  <2>7. \A q \in Pids : q # pid[t] =>
            /\ memoryMax'[q] = memoryMax[q]
            /\ clamps'[q] = clamps[q]
            /\ broken'[q] = broken[q]
    BY <1>0, <1>4 DEF WriteMemory, GiveUp, TypeOK
  <2>8. \A s \in Threads, q \in Pids : q # pid[t] => ~Halfway(s, q)
    BY <2>2 DEF Halfway, Writing
  <2>9. /\ Clamped(pid[t])' <=> memoryMax'[pid[t]] = "1MB"
        /\ broken'[pid[t]] \/ (Clamped(pid[t])' <=> cpuMax'[pid[t]] = "1%")
    <3>1. CASE /\ memoryMax' = [memoryMax EXCEPT
                     ![pid[t]] = IF pc[t] = "limit_memory" THEN "1MB" ELSE "max"]
               /\ clamps' = [clamps EXCEPT
                     ![pid[t]] = IF pc[t] = "limit_memory" THEN "clamped" ELSE "released"]
      <4>1. /\ memoryMax'[pid[t]] = IF pc[t] = "limit_memory" THEN "1MB" ELSE "max"
            /\ clamps'[pid[t]] = IF pc[t] = "limit_memory" THEN "clamped" ELSE "released"
        BY <1>0, <2>1, <3>1 DEF TypeOK
      <4>2. cpuMax[pid[t]] = IF pc[t] = "limit_memory" THEN "1%" ELSE "100%"
        BY <2>1 DEF IInv, Progress
      <4>3. QED
        BY <2>1, <4>1, <4>2 DEF Clamped
    <3>2. CASE GiveUp(t) /\ UNCHANGED <<memoryMax, clamps>>
      <4>1. broken'[pid[t]]
        BY <1>0, <2>1, <3>2 DEF GiveUp, TypeOK
      <4>2. QED
        BY <2>1, <3>2, <4>1 DEF IInv, Agreement, Clamped
    <3>3. QED
      BY <1>4, <3>1, <3>2 DEF WriteMemory
  <2>10. Agreement'
    BY <2>1, <2>7, <2>8, <2>9 DEF IInv, Agreement, Clamped
  <2>11. QED
    BY <2>5, <2>6, <2>10 DEF IInv
<1>5. CASE UNCHANGED vars
  BY <1>5 DEF vars, IInv, HolderWrites, Progress, Agreement, Clamped, Halfway
<1>6. QED
  BY <1>1, <1>2, <1>3, <1>4, <1>5 DEF Next

(* However many threads clamp and release, and whichever writes fail, a    *)
(* process is recorded as clamped exactly when its memory is limited, and  *)
(* between changes its CPU limit agrees unless the last one broke off.     *)
THEOREM RecordIsTrue == Spec => []RecordTellsLimits
<1>1. IInv => RecordTellsLimits
  BY CgroupAssumption
  DEF IInv, HolderWrites, Agreement, Halfway, Writing, RecordTellsLimits
<1>2. QED
  BY InitTyped, NextTyped, InitIInv, NextIInv, <1>1, PTL DEF Spec

-----------------------------------------------------------------------------

(* Two samples recorded one after the other between which one of the uses  *)
(* grows faster than its threshold allows, or a threshold below 0.         *)
Outgrows(last, prev, use, rate) ==
    /\ last.time > prev.time
    /\ last[use] - prev[use] > rate * (last.time - prev.time)

HasCause(samples) ==
    \/ 0 > MemoryRate \/ 0 > CpuRate
    \/ \E i \in 1 .. Len(samples) - 1 :
          \/ Outgrows(samples[i + 1], samples[i], "memory", MemoryRate)
          \/ Outgrows(samples[i + 1], samples[i], "cpu", CpuRate)

(* What a derivative finds in the history was recorded: the last two       *)
(* samples kept are the last two recorded, one right after the other.      *)
LEMMA GrowthIsCause ==
    ASSUME NEW last \in Seq(Samples), NEW all \in Seq(Samples), LastOf(last, all),
           \/ GrowsFaster(last, "memory", MemoryRate)
           \/ GrowsFaster(last, "cpu", CpuRate)
    PROVE  HasCause(all)
<1> SUFFICES ASSUME ~ (0 > MemoryRate), ~ (0 > CpuRate) PROVE HasCause(all)
  BY DEF HasCause
<1> DEFINE m == Len(last)
<1> DEFINE n == Len(all)
<1>1. m \in Nat /\ n \in Nat /\ m >= 2 /\ m <= n
  BY LenProperties DEF GrowsFaster, InOrder, LastOf
<1>2. \/ Outgrows(last[m], last[m - 1], "memory", MemoryRate)
      \/ Outgrows(last[m], last[m - 1], "cpu", CpuRate)
  BY DEF GrowsFaster, InOrder, GrewFaster, Last, Previous, Outgrows
<1>3. last[m] = all[n] /\ last[m - 1] = all[n - 1]
  <2>1. m \in 1 .. m /\ m - 1 \in 1 .. m
    BY <1>1
  <2>2. last[m] = all[n - m + m] /\ last[m - 1] = all[n - m + (m - 1)]
    BY <2>1 DEF LastOf
  <2>3. n - m + m = n /\ n - m + (m - 1) = n - 1
    BY <1>1
  <2>4. QED
    BY <2>2, <2>3
<1>4. n - 1 \in 1 .. n - 1 /\ (n - 1) + 1 = n
  BY <1>1
<1>5. QED
  BY <1>2, <1>3, <1>4 DEF HasCause

(* Two samples stay one after the other, whatever is recorded later.       *)
LEMMA CauseStays ==
    ASSUME NEW all \in Seq(Samples), NEW sample \in Samples, HasCause(all)
    PROVE  HasCause(Append(all, sample))
<1> DEFINE longer == Append(all, sample)
<1>1. /\ Len(longer) = Len(all) + 1 /\ Len(all) \in Nat
      /\ \A i \in 1 .. Len(all) : longer[i] = all[i]
  BY AppendProperties, LenProperties
<1> HIDE DEF longer
<1> SUFFICES ASSUME ~ (0 > MemoryRate), ~ (0 > CpuRate) PROVE HasCause(longer)
  BY DEF HasCause, longer
<1>2. PICK i \in 1 .. Len(all) - 1 :
          \/ Outgrows(all[i + 1], all[i], "memory", MemoryRate)
          \/ Outgrows(all[i + 1], all[i], "cpu", CpuRate)
  BY DEF HasCause
<1>3. longer[i + 1] = all[i + 1] /\ longer[i] = all[i]
      /\ i \in 1 .. Len(longer) - 1
  BY <1>1
<1>4. QED
  BY <1>2, <1>3 DEF HasCause

(* A thread that has found growth, or goes to clamp for it, has seen its   *)
(* cause; between its calls it remembers nothing.                          *)
Caused ==
    \A t \in Threads :
        /\ memoryGrows[t] => pc[t] = "cpu" /\ HasCause(recorded[pid[t]])
        /\ pc[t] = "runaway" => HasCause(recorded[pid[t]])

LEMMA InitCaused == Init => Caused
BY DEF Init, Caused

LEMMA NextCaused == Typed /\ Caused /\ [Next]_vars => Caused'
<1> SUFFICES ASSUME Typed, Caused, [Next]_vars PROVE Caused'
  OBVIOUS
<1>0. TypeOK
  BY DEF Typed
<1>1. ASSUME NEW t \in Threads, RecordUsage(t) PROVE Caused'
  <2>1. PICK p \in Pids, sample \in Samples :
            /\ pid' = [pid EXCEPT ![t] = p]
            /\ recorded' = [recorded EXCEPT ![p] = Append(@, sample)]
    BY <1>1 DEF RecordUsage
  <2>2. \A q \in Pids : HasCause(recorded[q]) => HasCause(recorded'[q])
    BY <1>0, <2>1, CauseStays DEF TypeOK
  <2>3. /\ memoryGrows' = memoryGrows
        /\ pc[t] = "idle" /\ pc'[t] = "memory"
        /\ \A s \in Threads \ {t} : pc'[s] = pc[s] /\ pid'[s] = pid[s]
        /\ \A s \in Threads : pid[s] \in Pids
    BY <1>0, <1>1, <2>1 DEF RecordUsage, Goto, TypeOK
  <2>4. QED
    BY <2>2, <2>3 DEF Caused
<1>2. ASSUME NEW t \in Threads, ReadMemory(t) PROVE Caused'
  <2>1. GrowsFaster(history[pid[t]], "memory", MemoryRate)
            => HasCause(recorded[pid[t]])
    BY <1>0, GrowthIsCause DEF TypeOK, Typed
  <2>2. /\ UNCHANGED <<recorded, pid>>
        /\ memoryGrows'[t] = GrowsFaster(history[pid[t]], "memory", MemoryRate)
        /\ pc'[t] = "cpu"
        /\ \A s \in Threads \ {t} :
              pc'[s] = pc[s] /\ memoryGrows'[s] = memoryGrows[s]
    BY <1>0, <1>2 DEF ReadMemory, Goto, TypeOK
  <2>3. QED
    BY <2>1, <2>2 DEF Caused
<1>3. ASSUME NEW t \in Threads, ReadCpu(t) PROVE Caused'
  <2>1. GrowsFaster(history[pid[t]], "cpu", CpuRate) => HasCause(recorded[pid[t]])
    BY <1>0, GrowthIsCause DEF TypeOK, Typed
  <2>2. /\ UNCHANGED <<recorded, pid>>
        /\ memoryGrows'[t] = FALSE
        /\ pc'[t] = "runaway" =>
              memoryGrows[t] \/ GrowsFaster(history[pid[t]], "cpu", CpuRate)
        /\ \A s \in Threads \ {t} :
              pc'[s] = pc[s] /\ memoryGrows'[s] = memoryGrows[s]
    BY <1>0, <1>3 DEF ReadCpu, Goto, TypeOK
  <2>3. QED
    BY <2>1, <2>2 DEF Caused
<1>4. ASSUME NEW t \in Threads,
             Ask(t) \/ LockClamps(t) \/ WriteCpu(t) \/ WriteMemory(t)
      PROVE  Caused'
  <2>1. /\ UNCHANGED <<recorded, memoryGrows>>
        /\ pc[t] # "cpu"
    BY <1>4 DEF Ask, LockClamps, WriteCpu, WriteMemory
  <2>2. /\ pc'[t] # "runaway"
        /\ \A s \in Threads \ {t} : pc'[s] = pc[s] /\ pid'[s] = pid[s]
    <3>1. CASE Ask(t)
      BY <1>0, <3>1 DEF Ask, Goto, TypeOK
    <3>2. CASE LockClamps(t)
      BY <1>0, <3>2 DEF LockClamps, Goto, TypeOK
    <3>3. CASE WriteCpu(t) \/ WriteMemory(t)
      BY <1>0, <3>3 DEF WriteCpu, WriteMemory, GiveUp, Goto, TypeOK
    <3>4. QED
      BY <1>4, <3>1, <3>2, <3>3
  <2>3. QED
    BY <2>1, <2>2 DEF Caused
<1>5. CASE UNCHANGED vars
  BY <1>5 DEF vars, Caused
<1>6. QED
  BY <1>1, <1>2, <1>3, <1>4, <1>5 DEF Next

(* A process is taken for a runaway only for two samples recorded one      *)
(* after the other, for any number of threads that record in between and   *)
(* whatever has been dropped from the history, or for a negative threshold. *)
THEOREM CauseIsRecorded == Spec => []RunawayHasCause
<1>1. TypeOK /\ Caused => RunawayHasCause
  <2> SUFFICES ASSUME TypeOK, Caused, NEW t \in Threads, pc[t] = "runaway",
                      ~ (0 > MemoryRate), ~ (0 > CpuRate)
               PROVE  LET samples == recorded[pid[t]]
                      IN  \E i \in 1 .. Len(samples) - 1 :
                            LET elapsed == samples[i + 1].time - samples[i].time
                            IN  /\ elapsed > 0
                                /\ \/ samples[i + 1].memory - samples[i].memory
                                          > MemoryRate * elapsed
                                   \/ samples[i + 1].cpu - samples[i].cpu
                                          > CpuRate * elapsed
    BY DEF RunawayHasCause
  <2> DEFINE samples == recorded[pid[t]]
  <2>1. samples \in Seq(Samples)
    BY DEF TypeOK
  <2>2. PICK i \in 1 .. Len(samples) - 1 :
            \/ Outgrows(samples[i + 1], samples[i], "memory", MemoryRate)
            \/ Outgrows(samples[i + 1], samples[i], "cpu", CpuRate)
    BY DEF Caused, HasCause
  <2>3. i \in 1 .. Len(samples) /\ i + 1 \in 1 .. Len(samples)
    BY <2>1, LenProperties
  <2>4. samples[i].time \in Nat /\ samples[i + 1].time \in Nat
    <3>1. samples[i] \in Samples /\ samples[i + 1] \in Samples
      BY <2>1, <2>3
    <3>2. \A sample \in Samples : sample.time \in Nat
      BY CgroupAssumption
    <3>3. QED
      BY <3>1, <3>2
  <2>5. samples[i + 1].time - samples[i].time > 0
    BY <2>2, <2>4 DEF Outgrows
  <2>6. QED
    BY <2>2, <2>5 DEF Outgrows
<1>2. Typed => TypeOK
  BY DEF Typed
<1>3. QED
  BY InitTyped, NextTyped, InitCaused, NextCaused, <1>1, <1>2, PTL DEF Spec

=============================================================================
