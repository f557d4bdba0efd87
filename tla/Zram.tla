-------------------------------- MODULE Zram --------------------------------
(***************************************************************************)
(* src/zram.rs: a ZramManager shared by threads.  create_snapshot takes a  *)
(* device under one mutex, reads the process's memory with no mutex, and   *)
(* stores the snapshot under another; cleanup_expired reads the clock      *)
(* before it takes that mutex.  A manager is either bare, or inside a      *)
(* MemoryEjector, whose eject_memory counts the stored snapshots first and *)
(* which never cleans up.  A step is the code from one mutex, or clock, to *)
(* the next.  The clock is the wall clock in seconds and does not go back. *)
(***************************************************************************)
EXTENDS Integers, FiniteSets, Sequences, Functions

CONSTANTS
    Threads,
    Rss,            \* the resident set size, in kB, of each process
    Devices,        \* config.devices, a sequence
    MaxConcurrent,  \* max_concurrent_snapshots
    MaxSize,        \* max_snapshot_size
    Retention,      \* retention_hours, in seconds
    MaxNow,         \* bound on the clock
    MaxTaken        \* bound on the devices handed out

ASSUME ZramAssumption ==
    /\ Devices \in Seq(Nat)
    /\ \A p \in DOMAIN Rss : Rss[p] \in Nat
    /\ MaxConcurrent \in Nat /\ MaxSize \in Nat /\ Retention \in Nat
    /\ MaxNow \in Nat /\ MaxTaken \in Nat
    /\ Threads # {} /\ IsFiniteSet(Threads)

VARIABLES
    wrapped,        \* the manager is the private one of a MemoryEjector
    now,            \* SystemTime::now(), in seconds
    snapshots,      \* ZramManager.snapshots: id -> MemorySnapshot
    index,          \* ZramManager.current_device_index, from 0
    pc,             \* where each thread is
    draft,          \* the snapshot each thread is making
    cutoff,         \* the clock as cleanup_expired read it
    taken,          \* how often each device was handed out
    returned        \* the snapshots the calls have returned

vars == <<wrapped, now, snapshots, index, pc, draft, cutoff, taken, returned>>

Pids == DOMAIN Rss

(* A line "VmRSS:   1234 kB" of /proc/<pid>/status, split at white space:  *)
(* the number and its unit are words of their own.                         *)
StatusWords(kB) ==
    << [number |-> 0, suffix |-> "VmRSS:"],
       [number |-> kB, suffix |-> ""], [number |-> 0, suffix |-> "kB"] >>

(* parse_memory_value: the second word without its suffix "kB", in bytes;  *)
(* without a value memory_info.rss keeps its default, 0.                   *)
MemoryOf(words) ==
    IF Len(words) >= 2 /\ words[2].suffix = "kB" THEN 1024 * words[2].number
    ELSE 0

(* compressed_size: a device is always unused, so its ratio is 1.          *)
SizeOf(pid) == MemoryOf(StatusWords(Rss[pid]))

(* snapshot_id is made of the process and the second.                      *)
Id(snapshot) == <<snapshot.pid, snapshot.timestamp>>

Snapshot(pid, timestamp, device) ==
    [pid |-> pid, timestamp |-> timestamp, device |-> device]

NoSnapshot == Snapshot("none", 0, 0)

Init ==
    /\ wrapped \in BOOLEAN
    /\ now = 0
    /\ snapshots = << >>
    /\ index = 0
    /\ pc = [t \in Threads |-> "idle"]
    /\ draft = [t \in Threads |-> NoSnapshot]
    /\ cutoff = [t \in Threads |-> 0]
    /\ taken = [i \in DOMAIN Devices |-> 0]
    /\ returned = {}

Goto(t, place) == pc' = [pc EXCEPT ![t] = place]

TotalTaken == FoldFunction(LAMBDA a, b : a + b, 0, taken)

Begin(t) ==
    /\ pc[t] = "idle"
    /\ \E pid \in Pids : draft' = [draft EXCEPT ![t].pid = pid]
    /\ Goto(t, "device")
    /\ UNCHANGED <<wrapped, now, snapshots, index, cutoff, taken, returned>>

(* The `?` of a call that fails.                                           *)
Abandon(t) ==
    /\ draft' = [draft EXCEPT ![t] = NoSnapshot]
    /\ Goto(t, "idle")

(* create_snapshot of a bare manager.                                      *)
CreateSnapshot(t) == ~ wrapped /\ Begin(t)

(* A bug for the runs to find: the limit is not checked.                   *)
CheckNoLimit(t) == wrapped /\ Begin(t)

(* eject_memory, and eject_if_needed of a severity over its threshold: the *)
(* limit is checked on a copy of the list.                                 *)
CheckLimit(t) ==
    /\ wrapped
    /\ Cardinality(DOMAIN snapshots) < MaxConcurrent
    /\ Begin(t)

(* A bug for the runs to find: the last device is never reached.           *)
NextDeviceButLast(t) ==
    /\ pc[t] = "device"
    /\ TotalTaken < MaxTaken
    /\ draft' = [draft EXCEPT ![t].device = Devices[index + 1]]
    /\ index' = (index + 1) % (Len(Devices) - 1)
    /\ taken' = [taken EXCEPT ![index + 1] = @ + 1]
    /\ Goto(t, "measure")
    /\ UNCHANGED <<wrapped, now, snapshots, cutoff, returned>>

(* get_next_device; without devices the call fails.                        *)
NextDevice(t) ==
    /\ pc[t] = "device"
    /\ IF Devices = << >>
       THEN Abandon(t) /\ UNCHANGED <<index, taken>>
       ELSE /\ TotalTaken < MaxTaken
            /\ draft' = [draft EXCEPT ![t].device = Devices[index + 1]]
            /\ index' = (index + 1) % Len(Devices)
            /\ taken' = [taken EXCEPT ![index + 1] = @ + 1]
            /\ Goto(t, "measure")
    /\ UNCHANGED <<wrapped, now, snapshots, cutoff, returned>>

(* MemorySnapshot::new stamps the snapshot; the process may be gone, or    *)
(* its memory over the limit, and then the device taken stays taken.       *)
Measure(t) ==
    /\ pc[t] = "measure"
    /\ \/ /\ SizeOf(draft[t].pid) <= MaxSize
          /\ draft' = [draft EXCEPT ![t].timestamp = now]
          /\ Goto(t, "store")
       \/ Abandon(t)
    /\ UNCHANGED <<wrapped, now, snapshots, index, cutoff, taken, returned>>

Store(t) ==
    /\ pc[t] = "store"
    /\ snapshots' = [id \in DOMAIN snapshots \cup {Id(draft[t])} |->
                        IF id = Id(draft[t]) THEN draft[t] ELSE snapshots[id]]
    /\ returned' = returned \cup {draft[t]}
    /\ draft' = [draft EXCEPT ![t] = NoSnapshot]
    /\ Goto(t, "idle")
    /\ UNCHANGED <<wrapped, now, index, cutoff, taken>>

(* cleanup_expired of a bare manager, up to its mutex.                     *)
ReadClock(t) ==
    /\ ~ wrapped
    /\ pc[t] = "idle"
    /\ cutoff' = [cutoff EXCEPT ![t] = now]
    /\ Goto(t, "expire")
    /\ UNCHANGED <<wrapped, now, snapshots, index, draft, taken, returned>>

Expired(snapshot, time) == time > snapshot.timestamp + Retention

(* A bug for the runs to find: a snapshot's last second is not kept.       *)
ExpireEarly(t) ==
    /\ pc[t] = "expire"
    /\ snapshots' = Restrict(snapshots,
           {id \in DOMAIN snapshots : ~Expired(snapshots[id], cutoff[t] + 1)})
    /\ Goto(t, "idle")
    /\ cutoff' = [cutoff EXCEPT ![t] = 0]
    /\ UNCHANGED <<wrapped, now, index, draft, taken, returned>>

Expire(t) ==
    /\ pc[t] = "expire"
    /\ snapshots' = Restrict(snapshots,
           {id \in DOMAIN snapshots : ~Expired(snapshots[id], cutoff[t])})
    /\ Goto(t, "idle")
    /\ cutoff' = [cutoff EXCEPT ![t] = 0]
    /\ UNCHANGED <<wrapped, now, index, draft, taken, returned>>

Tick ==
    /\ now < MaxNow
    /\ now' = now + 1
    /\ UNCHANGED <<wrapped, snapshots, index, pc, draft, cutoff, taken, returned>>

Next ==
    \/ Tick
    \/ \E t \in Threads :
        \/ CreateSnapshot(t)
        \/ CheckLimit(t)
        \/ NextDevice(t)
        \/ Measure(t)
        \/ Store(t)
        \/ ReadClock(t)
        \/ Expire(t)

Spec == Init /\ [][Next]_vars

-----------------------------------------------------------------------------

SnapshotValues ==
    [pid : Pids \cup {"none"}, timestamp : 0 .. now,
     device : {Devices[i] : i \in DOMAIN Devices} \cup {0}]

(* Type correctness: no stored snapshot is of the future, and the index    *)
(* names a device if there is any.                                         *)
TypeOK ==
    /\ wrapped \in BOOLEAN
    /\ now \in 0 .. MaxNow
    /\ \A id \in DOMAIN snapshots :
            snapshots[id] \in SnapshotValues /\ Id(snapshots[id]) = id
    /\ index \in {0} \cup (0 .. Len(Devices) - 1)
    /\ pc \in [Threads -> {"idle", "device", "measure", "store", "expire"}]
    /\ draft \in [Threads -> SnapshotValues]
    /\ cutoff \in [Threads -> 0 .. now]
    /\ taken \in [DOMAIN Devices -> Nat]
    /\ returned \subseteq SnapshotValues

(* What a MemoryEjector's limit is worth under threads: every thread but   *)
(* the one that stores the last allowed snapshot can have passed the check *)
(* before it, and no call can do worse than that.                          *)
InFlight == {t \in Threads : pc[t] \in {"device", "measure", "store"}}

OvershootBounded ==
    wrapped => Cardinality(DOMAIN snapshots) + Cardinality(InFlight)
                   <= MaxConcurrent - 1 + Cardinality(Threads)

(* The round robin: whatever threads call in between and however many      *)
(* snapshots fail, the devices have been handed out equally often, those   *)
(* before the index once more than those from it to the last.              *)
DevicesInTurn ==
    \A i \in DOMAIN Devices :
        taken[i] = taken[Len(Devices)] + IF i <= index THEN 1 ELSE 0

(* A snapshot that a call has returned is listed under its id until its    *)
(* retention is over, although cleanup_expired works on an old clock and   *)
(* another call can store over it.                                         *)
ListedUntilExpired ==
    \A s \in returned : Id(s) \in DOMAIN snapshots \/ Expired(s, now)

=============================================================================
