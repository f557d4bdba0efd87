----------------------------- MODULE ZramProofs -----------------------------
(***************************************************************************)
(* Of a ZramManager with any number of threads, processes and devices:     *)
(* the types, by how much the limit on snapshots can be passed, the round  *)
(* robin of the devices, and how long a snapshot stays listed.             *)
(***************************************************************************)
EXTENDS Zram, FiniteSetTheorems, SequenceTheorems, TLAPS

LEMMA Sizes ==
    /\ Len(Devices) \in Nat
    /\ Devices # << >> => Len(Devices) > 0
    /\ DOMAIN Devices = 1 .. Len(Devices)
    /\ Cardinality(Threads) \in Nat \ {0}
BY ZramAssumption, FS_CardinalityType, FS_EmptySet, LenProperties

(* Before any call: no snapshot, no device handed out, no draft.           *)
LEMMA InitTypes == Init => TypeOK
<1> SUFFICES ASSUME Init PROVE TypeOK
  OBVIOUS
<1>1. NoSnapshot \in SnapshotValues
  BY DEF Init, NoSnapshot, Snapshot, SnapshotValues
<1>2. now \in 0 .. MaxNow
  BY ZramAssumption DEF Init
<1>3. DOMAIN snapshots = {} /\ returned = {}
  BY DEF Init
<1>4. QED
  BY <1>1, <1>2, <1>3 DEF Init, TypeOK

(* The index goes round the devices.                                       *)
LEMMA NextIndex ==
    ASSUME NEW i \in 0 .. Len(Devices) - 1
    PROVE  (i + 1) % Len(Devices) = IF i + 1 = Len(Devices) THEN 0 ELSE i + 1
<1> DEFINE n == Len(Devices)
<1>1. n \in Nat \ {0}
  BY Sizes
<1> HIDE DEF n
<1>2. i + 1 \in 1 .. n /\ i \in 0 .. n - 1
  BY <1>1 DEF n
<1>3. CASE i + 1 = n
  <2>1. n % n = 0
    BY <1>1
  <2>2. QED
    BY <1>3, <2>1 DEF n
<1>4. CASE i + 1 # n
  BY <1>1, <1>2, <1>4 DEF n
<1>5. QED
  BY <1>3, <1>4

(* The step of Store, in terms of its draft.                               *)
LEMMA StoredEntry ==
    ASSUME NEW t \in Threads, Store(t)
    PROVE  /\ DOMAIN snapshots' = DOMAIN snapshots \cup {Id(draft[t])}
           /\ snapshots'[Id(draft[t])] = draft[t]
           /\ \A id \in DOMAIN snapshots \ {Id(draft[t])} :
                  snapshots'[id] = snapshots[id]
           /\ returned' = returned \cup {draft[t]}
BY DEF Store

(* What cleanup_expired keeps is unchanged, and what it drops had expired  *)
(* by the time it read.                                                    *)
LEMMA ExpiredEntries ==
    ASSUME NEW t \in Threads, Expire(t)
    PROVE  /\ DOMAIN snapshots' \subseteq DOMAIN snapshots
           /\ \A id \in DOMAIN snapshots' : snapshots'[id] = snapshots[id]
           /\ \A id \in DOMAIN snapshots \ DOMAIN snapshots' :
                  Expired(snapshots[id], cutoff[t])
BY DEF Expire, Restrict

LEMMA NextTypes == TypeOK /\ [Next]_vars => TypeOK'
<1> SUFFICES ASSUME TypeOK, [Next]_vars PROVE TypeOK'
  OBVIOUS
<1> USE ZramAssumption
<1>1. NoSnapshot \in SnapshotValues
  BY DEF TypeOK, NoSnapshot, Snapshot, SnapshotValues
<1>2. ASSUME Tick PROVE TypeOK'
  <2>1. now' = now + 1 /\ now' \in 0 .. MaxNow /\ now \in Nat
    BY <1>2 DEF Tick, TypeOK
  <2>2. 0 .. now \subseteq 0 .. now'
    BY <2>1
  <2>3. SnapshotValues \subseteq SnapshotValues'
    BY <2>2 DEF SnapshotValues
  <2>4. QED
    BY <1>2, <2>1, <2>2, <2>3 DEF Tick, TypeOK
<1>3. ASSUME now' = now PROVE SnapshotValues' = SnapshotValues
  BY <1>3 DEF SnapshotValues
<1>4. ASSUME NEW t \in Threads, CreateSnapshot(t) \/ CheckLimit(t) PROVE TypeOK'
  <2>0. Begin(t)
    BY <1>4 DEF CreateSnapshot, CheckLimit
  <2>1. PICK p \in Pids : draft' = [draft EXCEPT ![t].pid = p]
    BY <2>0 DEF Begin
  <2>2. [draft[t] EXCEPT !.pid = p] \in SnapshotValues
    BY <2>1 DEF TypeOK, SnapshotValues
  <2>3. draft' \in [Threads -> SnapshotValues]
    BY <2>1, <2>2 DEF TypeOK
  <2>4. QED
    BY <1>3, <2>0, <2>3 DEF Begin, TypeOK, Goto
<1>5. ASSUME NEW t \in Threads, NextDevice(t) PROVE TypeOK'
  <2>1. CASE Devices = << >>
    <3>1. draft' \in [Threads -> SnapshotValues]
      BY <1>1, <1>5, <2>1 DEF NextDevice, Abandon, TypeOK
    <3>2. QED
      BY <1>3, <1>5, <2>1, <3>1 DEF NextDevice, Abandon, TypeOK, Goto
  <2>2. CASE Devices # << >>
    <3>1. /\ index \in 0 .. Len(Devices) - 1 /\ index + 1 \in DOMAIN Devices
          /\ Len(Devices) \in Nat \ {0}
      BY <2>2, Sizes DEF TypeOK
    <3>2. [draft[t] EXCEPT !.device = Devices[index + 1]] \in SnapshotValues
      <4>1. draft[t] \in SnapshotValues
        BY DEF TypeOK
      <4>2. Devices[index + 1] \in {Devices[i] : i \in DOMAIN Devices} \cup {0}
        BY <3>1
      <4>3. QED
        BY <4>1, <4>2 DEF SnapshotValues
    <3>3. draft' \in [Threads -> SnapshotValues]
      BY <1>5, <2>2, <3>2 DEF NextDevice, TypeOK
    <3>4. index' \in 0 .. Len(Devices) - 1
      <4>1. index' = IF index + 1 = Len(Devices) THEN 0 ELSE index + 1
        BY <1>5, <2>2, <3>1, NextIndex DEF NextDevice
      <4>2. CASE index + 1 = Len(Devices)
        BY <3>1, <4>1, <4>2
      <4>3. CASE index + 1 # Len(Devices)
        <5>1. index' = index + 1
          BY <4>1, <4>3
        <5>2. index + 1 \in 0 .. Len(Devices) - 1
          BY <3>1, <4>3
        <5>3. QED
          BY <5>1, <5>2
      <4>4. QED
        BY <4>2, <4>3
    <3>5. taken[index + 1] + 1 \in Nat
      BY <3>1 DEF TypeOK
    <3>6. taken' \in [DOMAIN Devices -> Nat]
      BY <1>5, <2>2, <3>5 DEF NextDevice, TypeOK
    <3>7. QED
      BY <1>3, <1>5, <2>2, <3>3, <3>4, <3>6 DEF NextDevice, TypeOK, Goto
  <2>3. QED
    BY <2>1, <2>2
<1>6. ASSUME NEW t \in Threads, Measure(t) PROVE TypeOK'
  <2>1. [draft[t] EXCEPT !.timestamp = now] \in SnapshotValues
    <3>1. draft[t] \in SnapshotValues
      BY DEF TypeOK
    <3>2. now \in 0 .. now
      BY DEF TypeOK
    <3>3. QED
      BY <3>1, <3>2 DEF SnapshotValues
  <2>2. draft' \in [Threads -> SnapshotValues]
    BY <1>1, <1>6, <2>1 DEF Measure, Abandon, TypeOK
  <2>3. QED
    BY <1>3, <1>6, <2>2 DEF Measure, Abandon, TypeOK, Goto
<1>7. ASSUME NEW t \in Threads, Store(t) PROVE TypeOK'
  <2>1. draft[t] \in SnapshotValues
    BY DEF TypeOK
  <2>2. \A id \in DOMAIN snapshots' :
            snapshots'[id] \in SnapshotValues /\ Id(snapshots'[id]) = id
    <3>1. ASSUME NEW id \in DOMAIN snapshots'
          PROVE  snapshots'[id] \in SnapshotValues /\ Id(snapshots'[id]) = id
      <4>1. CASE id = Id(draft[t])
        <5>1. snapshots'[id] = draft[t]
          BY <1>7, <4>1, StoredEntry
        <5>2. QED
          BY <2>1, <4>1, <5>1
      <4>2. CASE id # Id(draft[t])
        <5>1. id \in DOMAIN snapshots /\ snapshots'[id] = snapshots[id]
          BY <1>7, <3>1, <4>2, StoredEntry
        <5>2. QED
          BY <5>1 DEF TypeOK
      <4>3. QED
        BY <4>1, <4>2
    <3>2. QED
      BY <3>1
  <2>3. returned' \subseteq SnapshotValues
    <3>1. returned' = returned \cup {draft[t]}
      BY <1>7, StoredEntry
    <3>2. QED
      BY <2>1, <3>1 DEF TypeOK
  <2>4. draft' \in [Threads -> SnapshotValues]
    BY <1>1, <1>7 DEF Store, TypeOK
  <2>5. \A id \in DOMAIN snapshots' : Id(snapshots[id])' = Id(snapshots'[id])
    BY DEF Id
  <2>6. QED
    BY <1>3, <1>7, <2>2, <2>3, <2>4, <2>5 DEF Store, TypeOK, Goto
<1>8. ASSUME NEW t \in Threads, ReadClock(t) PROVE TypeOK'
  BY <1>3, <1>8 DEF ReadClock, TypeOK, Goto
<1>9. ASSUME NEW t \in Threads, Expire(t) PROVE TypeOK'
  <2>1. \A id \in DOMAIN snapshots' :
            snapshots'[id] \in SnapshotValues /\ Id(snapshots'[id]) = id
    BY <1>9, ExpiredEntries DEF TypeOK
  <2>2. cutoff' \in [Threads -> 0 .. now]
    BY <1>9 DEF Expire, TypeOK
  <2>3. \A id \in DOMAIN snapshots' : Id(snapshots[id])' = Id(snapshots'[id])
    BY DEF Id
  <2>4. QED
    BY <1>3, <1>9, <2>1, <2>2, <2>3 DEF Expire, TypeOK, Goto
<1>10. CASE UNCHANGED vars
  BY <1>3, <1>10 DEF vars, TypeOK, Id
<1>11. QED
  BY <1>2, <1>4, <1>5, <1>6, <1>7, <1>8, <1>9, <1>10 DEF Next

(* No snapshot is of the future, every one is listed under its own id, and *)
(* the index names a device if there is any.                               *)
THEOREM TypeCorrect == Spec => []TypeOK
BY InitTypes, NextTypes, PTL DEF Spec

-----------------------------------------------------------------------------

(* How the calls under way and the snapshots add up.                       *)
Overshoot == IsFiniteSet(DOMAIN snapshots) /\ OvershootBounded

LEMMA FewInFlight ==
    /\ IsFiniteSet(InFlight)
    /\ Cardinality(InFlight) \in Nat
    /\ Cardinality(InFlight) <= Cardinality(Threads)
BY FS_Subset, FS_CardinalityType, ZramAssumption DEF InFlight

LEMMA InitOvershoot == Init => Overshoot
<1> SUFFICES ASSUME Init PROVE Overshoot
  OBVIOUS
<1>1. DOMAIN snapshots = {} /\ InFlight = {}
  BY DEF Init, InFlight
<1>2. Cardinality(DOMAIN snapshots) = 0 /\ Cardinality(InFlight) = 0
      /\ IsFiniteSet(DOMAIN snapshots)
  BY <1>1, FS_EmptySet
<1>3. QED
  BY <1>2, Sizes, ZramAssumption DEF Overshoot, OvershootBounded

(* Fewer snapshots with fewer calls, or as many, are within the bound too. *)
LEMMA LessOvershoot ==
    ASSUME Overshoot, wrapped' = wrapped, DOMAIN snapshots' \subseteq DOMAIN snapshots,
           InFlight' \subseteq InFlight
    PROVE  Overshoot'
<1>1. /\ IsFiniteSet(DOMAIN snapshots')
      /\ Cardinality(DOMAIN snapshots') <= Cardinality(DOMAIN snapshots)
      /\ Cardinality(DOMAIN snapshots') \in Nat
      /\ Cardinality(DOMAIN snapshots) \in Nat
  BY FS_Subset, FS_CardinalityType DEF Overshoot
<1>2. /\ Cardinality(InFlight') <= Cardinality(InFlight)
      /\ Cardinality(InFlight') \in Nat /\ Cardinality(InFlight) \in Nat
  BY FewInFlight, FS_Subset, FS_CardinalityType
<1>3. QED
  BY <1>1, <1>2, Sizes, ZramAssumption DEF Overshoot, OvershootBounded

LEMMA NextOvershoot == TypeOK /\ Overshoot /\ [Next]_vars => Overshoot'
<1> SUFFICES ASSUME TypeOK, Overshoot, [Next]_vars PROVE Overshoot'
  OBVIOUS
<1>0. ASSUME NEW t \in Threads, CreateSnapshot(t) PROVE Overshoot'
  BY <1>0 DEF CreateSnapshot, Begin, Overshoot, OvershootBounded
<1>1. ASSUME NEW t \in Threads, CheckLimit(t) PROVE Overshoot'
  <2>1. snapshots' = snapshots /\ Cardinality(DOMAIN snapshots) < MaxConcurrent
    BY <1>1 DEF CheckLimit, Begin
  <2>2. InFlight' \in SUBSET Threads
    BY DEF InFlight
  <2>3. Cardinality(InFlight') \in Nat /\ Cardinality(InFlight') <= Cardinality(Threads)
    BY <2>2, FS_Subset, FS_CardinalityType, ZramAssumption
  <2>4. Cardinality(DOMAIN snapshots) \in Nat
    BY FS_CardinalityType DEF Overshoot
  <2>5. QED
    BY <2>1, <2>3, <2>4, Sizes, ZramAssumption DEF Overshoot, OvershootBounded
<1>2. ASSUME NEW t \in Threads, Store(t) PROVE Overshoot'
  <2>1. DOMAIN snapshots' = DOMAIN snapshots \cup {Id(draft[t])}
    BY <1>2, StoredEntry
  <2>2. /\ IsFiniteSet(DOMAIN snapshots')
        /\ Cardinality(DOMAIN snapshots') <= Cardinality(DOMAIN snapshots) + 1
        /\ Cardinality(DOMAIN snapshots') \in Nat
        /\ Cardinality(DOMAIN snapshots) \in Nat
    <3>1. IsFiniteSet(DOMAIN snapshots) /\ Cardinality(DOMAIN snapshots) \in Nat
      BY FS_CardinalityType DEF Overshoot
    <3>2. /\ IsFiniteSet(DOMAIN snapshots')
          /\ Cardinality(DOMAIN snapshots') =
                IF Id(draft[t]) \in DOMAIN snapshots
                THEN Cardinality(DOMAIN snapshots)
                ELSE Cardinality(DOMAIN snapshots) + 1
      BY <2>1, <3>1, FS_AddElement
    <3>3. QED
      BY <3>1, <3>2
  <2>3. InFlight' = InFlight \ {t} /\ t \in InFlight
    BY <1>2 DEF Store, Goto, TypeOK, InFlight
  <2>4. Cardinality(InFlight') = Cardinality(InFlight) - 1
    BY <2>3, FewInFlight, FS_RemoveElement
  <2>5. QED
    BY <1>2, <2>2, <2>4, FewInFlight, Sizes, ZramAssumption
    DEF Overshoot, OvershootBounded, Store
<1>3. ASSUME NEW t \in Threads, NextDevice(t) \/ Measure(t) \/ ReadClock(t)
      PROVE  Overshoot'
  <2>1. snapshots' = snapshots /\ wrapped' = wrapped
    BY <1>3 DEF NextDevice, Measure, ReadClock
  <2>2. InFlight' \subseteq InFlight
    BY <1>3 DEF NextDevice, Measure, Abandon, ReadClock, Goto, TypeOK, InFlight
  <2>3. QED
    BY <2>1, <2>2, LessOvershoot
<1>4. ASSUME NEW t \in Threads, Expire(t) PROVE Overshoot'
  <2>1. InFlight' \subseteq InFlight
    BY <1>4 DEF Expire, Goto, TypeOK, InFlight
  <2>2. wrapped' = wrapped
    BY <1>4 DEF Expire
  <2>3. QED
    BY <1>4, <2>1, <2>2, ExpiredEntries, LessOvershoot
<1>5. CASE Tick \/ UNCHANGED vars
  BY <1>5, LessOvershoot DEF Tick, vars, InFlight
<1>6. QED
  BY <1>0, <1>1, <1>2, <1>3, <1>4, <1>5 DEF Next

(* An ejector's limit is passed by less snapshots than there are threads,  *)
(* whatever they do at once: the check and the store are apart.            *)
THEOREM OvershootIsBounded == Spec => []OvershootBounded
<1>1. Overshoot => OvershootBounded
  BY DEF Overshoot
<1>2. QED
  BY InitTypes, NextTypes, InitOvershoot, NextOvershoot, <1>1, PTL DEF Spec

-----------------------------------------------------------------------------

LEMMA InitInTurn == Init => DevicesInTurn
<1> SUFFICES ASSUME Init, NEW i \in DOMAIN Devices
             PROVE  taken[i] = taken[Len(Devices)] + IF i <= index THEN 1 ELSE 0
  BY DEF DevicesInTurn
<1>1. Len(Devices) \in DOMAIN Devices /\ ~(i <= 0)
  BY Sizes
<1>2. QED
  BY <1>1 DEF Init

LEMMA NextInTurn == TypeOK /\ DevicesInTurn /\ [Next]_vars => DevicesInTurn'
<1> SUFFICES ASSUME TypeOK, DevicesInTurn, [Next]_vars PROVE DevicesInTurn'
  OBVIOUS
<1> DEFINE n == Len(Devices)
<1>1. ASSUME NEW t \in Threads, NextDevice(t) PROVE DevicesInTurn'
  <2>0. CASE Devices = << >>
    BY <1>1, <2>0 DEF NextDevice, DevicesInTurn
  <2> SUFFICES ASSUME Devices # << >> PROVE DevicesInTurn'
    BY <2>0
  <2>1. /\ n \in Nat \ {0} /\ DOMAIN Devices = 1 .. n
        /\ index \in 0 .. n - 1
        /\ \A i \in 1 .. n : taken[i] \in Nat
    BY Sizes DEF TypeOK
  <2> HIDE DEF n
  <2>2. \A i \in 1 .. n : taken[i] = taken[n] + IF i <= index THEN 1 ELSE 0
    BY <2>1 DEF DevicesInTurn, n
  <2>3. index' = IF index + 1 = n THEN 0 ELSE index + 1
    BY <1>1, <2>1, NextIndex DEF NextDevice, n
  <2>4. \A i \in 1 .. n : taken'[i] = IF i = index + 1 THEN taken[i] + 1 ELSE taken[i]
    BY <1>1, <2>1 DEF NextDevice, TypeOK
  <2>5. ASSUME NEW i \in 1 .. n
        PROVE  taken'[i] = taken'[n] + IF i <= index' THEN 1 ELSE 0
    <3>1. n \in 1 .. n
      BY <2>1
    <3>2. CASE index + 1 = n
      BY <2>1, <2>2, <2>3, <2>4, <3>1, <3>2
    <3>3. CASE index + 1 # n
      BY <2>1, <2>2, <2>3, <2>4, <3>1, <3>3
    <3>4. QED
      BY <3>2, <3>3
  <2>6. QED
    BY <2>1, <2>5 DEF DevicesInTurn, n
<1>2. CASE UNCHANGED <<index, taken>>
  BY <1>2 DEF DevicesInTurn
<1>3. QED
  BY <1>1, <1>2
  DEF Next, Tick, CreateSnapshot, CheckLimit, Begin, Measure, Store, ReadClock,
      Expire, vars

(* The devices are handed out in turn, for any number of them and of       *)
(* threads, and whichever snapshots fail afterwards.                       *)
THEOREM RoundRobin == Spec => []DevicesInTurn
BY InitTypes, NextTypes, InitInTurn, NextInTurn, PTL DEF Spec

-----------------------------------------------------------------------------

LEMMA NextListed == TypeOK /\ ListedUntilExpired /\ [Next]_vars => ListedUntilExpired'
<1> SUFFICES ASSUME TypeOK, ListedUntilExpired, [Next]_vars
             PROVE  ListedUntilExpired'
  OBVIOUS
<1> USE ZramAssumption
<1>1. CASE UNCHANGED <<now, snapshots, returned>>
  BY <1>1 DEF ListedUntilExpired, Expired
<1>2. CASE Tick
  <2>1. /\ now \in Nat /\ now' = now + 1 /\ UNCHANGED <<snapshots, returned>>
        /\ \A s \in returned : s.timestamp \in Nat
    BY <1>2 DEF Tick, TypeOK, SnapshotValues
  <2>2. \A s \in returned : Expired(s, now) => Expired(s, now')
    BY <2>1 DEF Expired
  <2>3. QED
    BY <2>1, <2>2 DEF ListedUntilExpired, Expired, Id
<1>3. ASSUME NEW t \in Threads, Store(t) PROVE ListedUntilExpired'
  <2>1. now' = now
    BY <1>3 DEF Store
  <2>2. QED
    BY <1>3, <2>1, StoredEntry DEF ListedUntilExpired, Expired, Id
<1>4. ASSUME NEW t \in Threads, Expire(t) PROVE ListedUntilExpired'
  <2>1. UNCHANGED <<now, returned>>
    BY <1>4 DEF Expire
  <2>2. ASSUME NEW s \in returned, Id(s) \in DOMAIN snapshots \ DOMAIN snapshots'
        PROVE  Expired(s, now)
    <3>1. Expired(snapshots[Id(s)], cutoff[t]) /\ Id(snapshots[Id(s)]) = Id(s)
      BY <1>4, <2>2, ExpiredEntries DEF TypeOK
    <3>2. snapshots[Id(s)].timestamp = s.timestamp
      BY <3>1 DEF Id
    <3>3. cutoff[t] <= now /\ cutoff[t] \in Nat /\ now \in Nat /\ s.timestamp \in Nat
      BY DEF TypeOK, SnapshotValues
    <3>4. QED
      BY <3>1, <3>2, <3>3 DEF Expired
  <2>3. QED
    BY <2>1, <2>2 DEF ListedUntilExpired, Expired, Id
<1>5. QED
  BY <1>1, <1>2, <1>3, <1>4
  DEF Next, CreateSnapshot, CheckLimit, Begin, NextDevice, Measure, ReadClock, vars

(* A returned snapshot stays listed under its id until its retention is    *)
(* over, for any number of threads that store and clean up meanwhile.      *)
THEOREM StaysListed == Spec => []ListedUntilExpired
<1>1. Init => ListedUntilExpired
  BY DEF Init, ListedUntilExpired
<1>2. QED
  BY InitTypes, NextTypes, NextListed, <1>1, PTL DEF Spec

=============================================================================
