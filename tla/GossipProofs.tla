---------------------------- MODULE GossipProofs ----------------------------
(***************************************************************************)
(* Of a GossipManager that spawns any number of threads: the types, that   *)
(* two receivers are never alive, and that only a change of membership     *)
(* makes threads wait for each other in a circle.                          *)
(***************************************************************************)
EXTENDS Gossip, TLAPS

LEMMA Kinds ==
    /\ \A t \in Workers : t # Api /\ t # NoReceiver /\ t # "free"
    /\ \A t \in Receivers : t \notin Heartbeats /\ t \notin Gossipers
    /\ \A t \in Heartbeats : t \notin Gossipers
    /\ Workers \subseteq Threads /\ Receivers \subseteq Workers
    /\ Heartbeats \subseteq Workers /\ Gossipers \subseteq Workers
    /\ Api \in Threads /\ Api # "free" /\ Api # NoReceiver
BY GossipAssumption DEF Workers, Threads, Api, NoReceiver

(* The places a thread can be at.                                          *)
PlacesOf(t) ==
    CASE t = Api -> {"idle", "add_self", "join", "share_vector", "share_signature",
                     "stats", "stats_vectors", "stats_signatures"}
      [] t \in Receivers -> {"unused", "check", "recv", "lock_nodes", "store", "done"}
      [] t \in Heartbeats -> {"unused", "check", "sleep", "done"}
      [] t \in Gossipers -> {"unused", "check", "lock_nodes", "vectors",
                             "signatures", "sleep", "done"}

EveryoneInPlace == \A t \in Threads : pc[t] \in PlacesOf(t)

(* Who holds which mutex where: the owner in get_stats, a receiver while   *)
(* it handles a message, a gossip thread from its first mutex to the end   *)
(* of its sleep.                                                           *)
HasNodes(t) ==
    \/ pc[t] \in {"stats_vectors", "stats_signatures", "store"}
    \/ t \in Gossipers /\ pc[t] \in {"vectors", "signatures", "sleep"}

HoldersInPlace ==
    /\ \A t \in Threads : holder["nodes"] = t <=> HasNodes(t)
    /\ holder["vectors"] = IF pc[Api] = "stats_signatures" THEN Api ELSE "free"
    /\ holder["signatures"] = "free"

IInv == TypeOK /\ EveryoneInPlace /\ HoldersInPlace

LEMMA InitIInv == Init => IInv
<1> SUFFICES ASSUME Init PROVE IInv
  OBVIOUS
<1>1. TypeOK
  BY DEF Init, TypeOK, Places, NoMessage
<1>2. EveryoneInPlace
  BY Kinds DEF Init, EveryoneInPlace, PlacesOf, Threads, Workers
<1>3. HoldersInPlace
  BY Kinds DEF Init, HoldersInPlace, HasNodes, Locks, Threads
<1>4. QED
  BY <1>1, <1>2, <1>3 DEF IInv

(* The step of one thread to another of its places, in which it takes and  *)
(* gives up the mutexes that its places ask for.                           *)
LEMMA OneThreadMoves ==
    ASSUME IInv, NEW t \in Threads, NEW place \in PlacesOf(t), Goto(t, place),
           place \in Places,
           holder' \in [Locks -> Threads \cup {"free"}],
           holder'["signatures"] = "free",
           holder'["vectors"] = IF pc'[Api] = "stats_signatures" THEN Api ELSE "free",
           \/ holder'["nodes"] = holder["nodes"] /\ (HasNodes(t)' <=> HasNodes(t))
           \/ holder["nodes"] = "free" /\ holder'["nodes"] = t /\ HasNodes(t)'
           \/ HasNodes(t) /\ holder'["nodes"] = "free" /\ ~HasNodes(t)'
    PROVE  /\ pc' \in [Threads -> Places]
           /\ EveryoneInPlace'
           /\ HoldersInPlace'
<1>1. \A s \in Threads : pc'[s] = IF s = t THEN place ELSE pc[s]
  BY DEF IInv, TypeOK, Goto
<1>2. pc' \in [Threads -> Places]
  BY DEF IInv, TypeOK, Goto
<1>3. EveryoneInPlace'
  BY <1>1 DEF IInv, EveryoneInPlace, PlacesOf
<1>4. \A s \in Threads : s # t => (HasNodes(s)' <=> HasNodes(s))
  BY <1>1 DEF HasNodes
<1>5. \A s \in Threads : s # "free"
  BY Kinds DEF Threads
<1>6. \A s \in Threads : holder'["nodes"] = s <=> HasNodes(s)'
  BY <1>4, <1>5 DEF IInv, HoldersInPlace
<1>7. QED
  BY <1>2, <1>3, <1>6 DEF HoldersInPlace

(* A move with no mutex taken or given up.                                 *)
LEMMA QuietMove ==
    ASSUME IInv, NEW t \in Threads, NEW place \in PlacesOf(t), Goto(t, place),
           place \in Places, UNCHANGED holder,
           HasNodes(t)' <=> HasNodes(t),
           t = Api => (place = "stats_signatures" <=> pc[t] = "stats_signatures")
    PROVE  /\ pc' \in [Threads -> Places]
           /\ holder' \in [Locks -> Threads \cup {"free"}]
           /\ EveryoneInPlace'
           /\ HoldersInPlace'
<1>1. \A s \in Threads : pc'[s] = IF s = t THEN place ELSE pc[s]
  BY DEF IInv, TypeOK, Goto
<1>2. pc'[Api] = "stats_signatures" <=> pc[Api] = "stats_signatures"
  BY <1>1, Kinds
<1>3. /\ holder' \in [Locks -> Threads \cup {"free"}]
      /\ holder'["signatures"] = "free"
      /\ holder'["vectors"] = IF pc'[Api] = "stats_signatures" THEN Api ELSE "free"
      /\ holder'["nodes"] = holder["nodes"]
  BY <1>2 DEF IInv, TypeOK, HoldersInPlace
<1>4. QED
  BY <1>3, OneThreadMoves

LEMMA OwnerIInv ==
    ASSUME IInv,
           \/ Initialize \/ AddSelf \/ Stop \/ Join \/ Ask \/ ShareVector
           \/ ShareSignature \/ StatsNodes \/ StatsVectors \/ StatsSignatures
    PROVE  IInv'
<1> USE Kinds
<1>0. TypeOK /\ EveryoneInPlace /\ HoldersInPlace
  BY DEF IInv
<1>1. ASSUME NEW place \in {"idle", "add_self", "join", "share_vector",
                            "share_signature", "stats"},
             pc[Api] \in {"idle", "add_self", "join", "share_vector",
                          "share_signature", "stats"},
             Goto(Api, place), UNCHANGED holder
      PROVE  /\ pc' \in [Threads -> Places]
             /\ holder' \in [Locks -> Threads \cup {"free"}]
             /\ EveryoneInPlace'
             /\ HoldersInPlace'
  <2>1. place \in PlacesOf(Api) /\ place \in Places
    BY DEF PlacesOf, Places
  <2>2. pc'[Api] = place
    BY <1>0, <1>1 DEF TypeOK, Goto
  <2>3. ~HasNodes(Api) /\ ~HasNodes(Api)'
    BY <1>1, <2>2 DEF HasNodes, Workers
  <2>4. QED
    BY <1>1, <2>1, <2>3, QuietMove
<1>2. CASE Initialize
  <2>1. Goto(Api, "add_self") /\ pc[Api] = "idle" /\ UNCHANGED holder
    BY <1>2 DEF Initialize, At
  <2>2. QED
    BY <1>0, <1>1, <1>2, <2>1 DEF Initialize, IInv, TypeOK, tables
<1>3. CASE AddSelf
  <2>1. Goto(Api, "idle") /\ pc[Api] = "add_self" /\ UNCHANGED holder
    BY <1>3 DEF AddSelf, At
  <2>2. QED
    BY <1>0, <1>1, <1>3, <2>1 DEF AddSelf, IInv, TypeOK, manager
<1>4. CASE Stop
  <2>1. /\ Goto(Api, "idle") \/ Goto(Api, "join")
        /\ pc[Api] = "idle" /\ UNCHANGED holder
    BY <1>4 DEF Stop, At
  <2>2. QED
    BY <1>0, <1>1, <1>4, <2>1 DEF Stop, IInv, TypeOK, tables
<1>5. CASE Join
  <2>1. Goto(Api, "idle") /\ pc[Api] = "join" /\ UNCHANGED holder
    BY <1>5 DEF Join, At
  <2>2. QED
    BY <1>0, <1>1, <1>5, <2>1 DEF Join, IInv, TypeOK, tables
<1>6. CASE Ask
  <2>1. PICK place \in {"share_vector", "share_signature", "stats"} :
            Goto(Api, place)
    BY <1>6 DEF Ask
  <2>2. pc[Api] = "idle" /\ UNCHANGED holder
    BY <1>6 DEF Ask, At
  <2>3. QED
    BY <1>0, <1>1, <1>6, <2>1, <2>2 DEF Ask, IInv, TypeOK, tables, manager
<1>7. CASE ShareVector
  <2>1. Goto(Api, "idle") /\ pc[Api] = "share_vector" /\ UNCHANGED holder
    BY <1>7 DEF ShareVector, At
  <2>2. QED
    BY <1>0, <1>1, <1>7, <2>1 DEF ShareVector, IInv, TypeOK, manager
<1>8. CASE ShareSignature
  <2>1. Goto(Api, "idle") /\ pc[Api] = "share_signature" /\ UNCHANGED holder
    BY <1>8 DEF ShareSignature, At
  <2>2. QED
    BY <1>0, <1>1, <1>8, <2>1 DEF ShareSignature, IInv, TypeOK, manager
<1>9. CASE StatsNodes
  <2>1. Goto(Api, "stats_vectors") /\ pc'[Api] = "stats_vectors"
        /\ pc[Api] = "stats"
    BY <1>0, <1>9 DEF StatsNodes, At, Goto, TypeOK
  <2>2. /\ holder' \in [Locks -> Threads \cup {"free"}]
        /\ holder["nodes"] = "free" /\ holder'["nodes"] = Api
        /\ holder'["vectors"] = holder["vectors"]
        /\ holder'["signatures"] = holder["signatures"]
    BY <1>0, <1>9 DEF StatsNodes, Acquire, Free, TypeOK, Locks
  <2>3. /\ pc' \in [Threads -> Places] /\ EveryoneInPlace' /\ HoldersInPlace'
    BY <1>0, <2>1, <2>2, OneThreadMoves DEF PlacesOf, Places, HasNodes, HoldersInPlace
  <2>4. QED
    BY <1>0, <1>9, <2>2, <2>3 DEF StatsNodes, IInv, TypeOK, tables, manager
<1>10. CASE StatsVectors
  <2>1. Goto(Api, "stats_signatures") /\ pc'[Api] = "stats_signatures"
        /\ pc[Api] = "stats_vectors"
    BY <1>0, <1>10 DEF StatsVectors, At, Goto, TypeOK
  <2>2. /\ holder' \in [Locks -> Threads \cup {"free"}]
        /\ holder'["vectors"] = Api
        /\ holder'["nodes"] = holder["nodes"]
        /\ holder'["signatures"] = holder["signatures"]
    BY <1>0, <1>10 DEF StatsVectors, Acquire, Free, TypeOK, Locks
  <2>3. /\ pc' \in [Threads -> Places] /\ EveryoneInPlace' /\ HoldersInPlace'
    BY <1>0, <2>1, <2>2, OneThreadMoves DEF PlacesOf, Places, HasNodes, HoldersInPlace
  <2>4. QED
    BY <1>0, <1>10, <2>2, <2>3 DEF StatsVectors, IInv, TypeOK, tables, manager
<1>11. CASE StatsSignatures
  <2>1. Goto(Api, "idle") /\ pc'[Api] = "idle" /\ pc[Api] = "stats_signatures"
    BY <1>0, <1>11 DEF StatsSignatures, At, Goto, TypeOK
  <2>2. HasNodes(Api) /\ ~HasNodes(Api)'
    BY <2>1 DEF HasNodes, Workers
  <2>3. /\ holder' \in [Locks -> Threads \cup {"free"}]
        /\ holder'["vectors"] = "free"
        /\ holder'["nodes"] = "free"
        /\ holder'["signatures"] = "free"
    BY <1>0, <1>11, <2>1, <2>2
    DEF StatsSignatures, Release, TypeOK, Locks, HoldersInPlace
  <2>4. /\ pc' \in [Threads -> Places] /\ EveryoneInPlace' /\ HoldersInPlace'
    BY <1>0, <2>1, <2>2, <2>3, OneThreadMoves DEF PlacesOf, Places
  <2>5. QED
    BY <1>0, <1>11, <2>3, <2>4 DEF StatsSignatures, IInv, TypeOK, tables, manager
<1>12. QED
  BY <1>2, <1>3, <1>4, <1>5, <1>6, <1>7, <1>8, <1>9, <1>10, <1>11

(* start: the spawned threads are new and begin with their check.          *)
LEMMA SpawnedAreNew ==
    ASSUME NEW r \in Unused(Receivers), NEW spawned \in Spawned(r)
    PROVE  /\ spawned \subseteq Workers
           /\ r \in spawned
           /\ \A t \in spawned : pc[t] = "unused"
           /\ spawned \cap Receivers = {r}
<1>1. ASSUME NEW slots, NEW some \in Left(slots) PROVE some \subseteq Unused(slots)
  BY DEF Left
<1>2. PICK h \in Left(Heartbeats), g \in Left(Gossipers) : spawned = {r} \cup h \cup g
  BY DEF Spawned
<1>3. h \subseteq Unused(Heartbeats) /\ g \subseteq Unused(Gossipers)
  BY <1>1
<1>4. QED
  BY <1>2, <1>3, Kinds DEF Unused, At

LEMMA StartIInv == IInv /\ Start => IInv'
<1> SUFFICES ASSUME IInv, Start PROVE IInv'
  OBVIOUS
<1> USE Kinds
<1>0. TypeOK /\ EveryoneInPlace /\ HoldersInPlace
  BY DEF IInv
<1>1. CASE pc' = pc /\ receiver' = receiver
  BY <1>0, <1>1
  DEF Start, IInv, TypeOK, EveryoneInPlace, HoldersInPlace, HasNodes, tables
<1>2. ASSUME NEW r \in Unused(Receivers), receiver' = r,
             NEW spawned \in Spawned(r),
             pc' = [t \in Threads |-> IF t \in spawned THEN "check" ELSE pc[t]]
      PROVE  IInv'
  <2>1. /\ spawned \subseteq Workers
        /\ \A t \in spawned : pc[t] = "unused"
    BY SpawnedAreNew
  <2>2. receiver' \in Receivers
    BY <1>2 DEF Unused
  <2>3. TypeOK'
    BY <1>0, <1>2, <2>2 DEF Start, TypeOK, tables, Places
  <2>4. EveryoneInPlace'
    BY <1>0, <1>2, <2>1 DEF EveryoneInPlace, PlacesOf, Workers
  <2>5. \A t \in Threads : HasNodes(t)' <=> HasNodes(t)
    BY <1>2, <2>1 DEF HasNodes
  <2>6. pc'[Api] = pc[Api]
    BY <1>2, <2>1
  <2>7. HoldersInPlace'
    BY <1>0, <2>5, <2>6 DEF Start, HoldersInPlace
  <2>8. QED
    BY <2>3, <2>4, <2>7 DEF IInv
<1>3. QED
  BY <1>1, <1>2 DEF Start

LEMMA WorkerIInv ==
    ASSUME IInv, NEW t \in Workers,
           \/ Check(t) \/ Wake(t)
           \/ t \in Receivers /\ (Receive(t) \/ UpdateNode(t) \/ StoreVector(t)
                                      \/ StoreSignature(t))
           \/ t \in Gossipers /\ (LockNodes(t) \/ BroadcastVectors(t)
                                      \/ BroadcastSignatures(t))
    PROVE  IInv'
<1> USE Kinds
<1>0. TypeOK /\ EveryoneInPlace /\ HoldersInPlace /\ pc[t] \in PlacesOf(t)
  BY DEF IInv, EveryoneInPlace
<1>a. \A place : Goto(t, place) => pc'[t] = place
  BY <1>0 DEF Goto, TypeOK
<1>b. t \in Receivers \/ t \in Heartbeats \/ t \in Gossipers
  BY DEF Workers
<1>1. CASE Check(t)
  <2> DEFINE place == IF running THEN Turn(t) ELSE "done"
  <2>1. Goto(t, place) /\ pc[t] = "check" /\ UNCHANGED holder
    BY <1>1 DEF Check, At
  <2>2. /\ place \in {"recv", "sleep", "lock_nodes", "done"}
        /\ place \in PlacesOf(t)
        /\ t \in Gossipers => place # "sleep"
    BY <1>b DEF Turn, PlacesOf
  <2> HIDE DEF place
  <2>3. ~HasNodes(t) /\ ~HasNodes(t)'
    BY <1>a, <2>1, <2>2 DEF HasNodes
  <2>4. place \in Places
    BY <2>2 DEF Places
  <2>5. QED
    BY <1>0, <1>1, <2>1, <2>2, <2>3, <2>4, QuietMove
    DEF Check, IInv, TypeOK, tables, manager
<1>2. CASE Wake(t)
  <2>1. Goto(t, "check") /\ pc'[t] = "check" /\ pc[t] = "sleep"
    BY <1>2, <1>a DEF Wake, At
  <2>2. ~HasNodes(t)' /\ t \notin Receivers
    BY <1>0, <2>1 DEF HasNodes, PlacesOf
  <2>3. /\ holder' \in [Locks -> Threads \cup {"free"}]
        /\ holder'["signatures"] = "free"
        /\ holder'["vectors"] = holder["vectors"]
        /\ holder'["nodes"] = IF HasNodes(t) THEN "free" ELSE holder["nodes"]
    BY <1>0, <1>2 DEF Wake, Release, TypeOK, Locks, HoldersInPlace
  <2>4. pc'[Api] = pc[Api]
    BY <1>0, <2>1 DEF Goto, TypeOK
  <2>5. "check" \in PlacesOf(t) /\ "check" \in Places
    BY <1>b DEF PlacesOf, Places
  <2>6. /\ pc' \in [Threads -> Places] /\ EveryoneInPlace' /\ HoldersInPlace'
    BY <1>0, <2>1, <2>2, <2>3, <2>4, <2>5, OneThreadMoves DEF HoldersInPlace
  <2>7. QED
    BY <1>0, <1>2, <2>3, <2>6 DEF Wake, IInv, TypeOK, tables, manager
<1>3. CASE t \in Receivers /\ Receive(t)
  <2>1. PICK place \in {"lock_nodes", "check"} : Goto(t, place)
    BY <1>3 DEF Receive
  <2>2. pc[t] = "recv" /\ UNCHANGED holder
    BY <1>3 DEF Receive, At
  <2>3. ~HasNodes(t) /\ ~HasNodes(t)'
    BY <1>3, <1>a, <2>1, <2>2 DEF HasNodes
  <2>4. place \in PlacesOf(t) /\ place \in Places
    BY <1>3 DEF PlacesOf, Places
  <2>5. message' \in [Receivers -> Messages \cup {NoMessage}]
    BY <1>0, <1>3 DEF Receive, TypeOK
  <2>6. QED
    BY <1>0, <1>3, <2>1, <2>2, <2>3, <2>4, <2>5, QuietMove
    DEF Receive, IInv, TypeOK, tables, manager
<1>4. CASE t \in Receivers /\ UpdateNode(t)
  <2>1. pc[t] = "lock_nodes" /\ holder["nodes"] = "free"
        /\ nodes' \subseteq Peers \cup {Self}
    <3>1. message[t].sender \in Peers \cup {Self}
      BY <1>0, <1>4 DEF TypeOK, Messages, NoMessage
    <3>2. QED
      BY <1>0, <1>4, <3>1 DEF UpdateNode, At, Free, TypeOK
  <2>2. CASE Needs(message[t]) = "none"
    <3>1. /\ Goto(t, "check") /\ UNCHANGED holder
          /\ message' \in [Receivers -> Messages \cup {NoMessage}]
      BY <1>0, <1>4, <2>2 DEF UpdateNode, Handled, TypeOK
    <3>2. ~HasNodes(t) /\ ~HasNodes(t)'
      BY <1>4, <1>a, <2>1, <3>1 DEF HasNodes
    <3>3. "check" \in PlacesOf(t) /\ "check" \in Places
      BY <1>4 DEF PlacesOf, Places
    <3>4. QED
      BY <1>0, <1>4, <2>1, <3>1, <3>2, <3>3, QuietMove
      DEF UpdateNode, IInv, TypeOK, manager
  <2>3. CASE Needs(message[t]) # "none"
    <3>1. Goto(t, "store") /\ Acquire(t, "nodes") /\ UNCHANGED message
      BY <1>4, <2>3 DEF UpdateNode
    <3>2. /\ holder' \in [Locks -> Threads \cup {"free"}]
          /\ holder'["nodes"] = t
          /\ holder'["vectors"] = holder["vectors"]
          /\ holder'["signatures"] = holder["signatures"]
      BY <1>0, <3>1 DEF Acquire, TypeOK, Locks
    <3>3. HasNodes(t)' /\ pc'[Api] = pc[Api]
      BY <1>0, <1>a, <3>1 DEF HasNodes, Goto, TypeOK
    <3>4. "store" \in PlacesOf(t) /\ "store" \in Places
      BY <1>4 DEF PlacesOf, Places
    <3>5. /\ pc' \in [Threads -> Places] /\ EveryoneInPlace' /\ HoldersInPlace'
      BY <1>0, <2>1, <3>1, <3>2, <3>3, <3>4, OneThreadMoves DEF HoldersInPlace
    <3>6. QED
      BY <1>0, <1>4, <2>1, <3>1, <3>2, <3>5 DEF UpdateNode, IInv, TypeOK, manager
  <2>4. QED
    BY <2>2, <2>3
<1>5. CASE t \in Receivers /\ (StoreVector(t) \/ StoreSignature(t))
  <2>1. /\ Goto(t, "check") /\ Release(t) /\ pc[t] = "store"
        /\ message' = [message EXCEPT ![t] = NoMessage]
    BY <1>5 DEF StoreVector, StoreSignature, Handled, At
  <2>2. HasNodes(t) /\ ~HasNodes(t)' /\ pc'[Api] = pc[Api]
    BY <1>0, <1>5, <1>a, <2>1 DEF HasNodes, Goto, TypeOK
  <2>3. /\ holder' \in [Locks -> Threads \cup {"free"}]
        /\ holder'["signatures"] = "free"
        /\ holder'["vectors"] = holder["vectors"]
        /\ holder'["nodes"] = "free"
    BY <1>0, <2>1, <2>2 DEF Release, TypeOK, Locks, HoldersInPlace
  <2>4. "check" \in PlacesOf(t) /\ "check" \in Places
    BY <1>5 DEF PlacesOf, Places
  <2>5. /\ pc' \in [Threads -> Places] /\ EveryoneInPlace' /\ HoldersInPlace'
    BY <1>0, <2>1, <2>2, <2>3, <2>4, OneThreadMoves DEF HoldersInPlace
  <2>6. /\ running' = running /\ socket' = socket /\ receiver' = receiver
        /\ nodes' = nodes /\ vectors' \subseteq Vectors /\ signatures' \subseteq Signatures
    BY <1>0, <1>5 DEF StoreVector, StoreSignature, TypeOK, manager
  <2>7. message' \in [Receivers -> Messages \cup {NoMessage}]
    BY <1>0, <2>1 DEF TypeOK
  <2>8. QED
    BY <1>0, <2>3, <2>5, <2>6, <2>7 DEF IInv, TypeOK
<1>6. CASE t \in Gossipers /\ LockNodes(t)
  <2>1. Goto(t, "vectors") /\ pc'[t] = "vectors" /\ pc[t] = "lock_nodes"
    BY <1>6, <1>a DEF LockNodes, At
  <2>2. HasNodes(t)' /\ pc'[Api] = pc[Api]
    BY <1>0, <1>6, <2>1 DEF HasNodes, Goto, TypeOK
  <2>3. /\ holder' \in [Locks -> Threads \cup {"free"}]
        /\ holder["nodes"] = "free" /\ holder'["nodes"] = t
        /\ holder'["vectors"] = holder["vectors"]
        /\ holder'["signatures"] = holder["signatures"]
    BY <1>0, <1>6 DEF LockNodes, Acquire, Free, TypeOK, Locks
  <2>4. "vectors" \in PlacesOf(t) /\ "vectors" \in Places
    BY <1>6 DEF PlacesOf, Places
  <2>5. /\ pc' \in [Threads -> Places] /\ EveryoneInPlace' /\ HoldersInPlace'
    BY <1>0, <2>1, <2>2, <2>3, <2>4, OneThreadMoves DEF HoldersInPlace
  <2>6. QED
    BY <1>0, <1>6, <2>3, <2>5 DEF LockNodes, IInv, TypeOK, tables, manager
<1>7. CASE t \in Gossipers /\ (BroadcastVectors(t) \/ BroadcastSignatures(t))
  <2>1. PICK place \in {"signatures", "sleep"} : Goto(t, place)
    BY <1>7 DEF BroadcastVectors, BroadcastSignatures
  <2>2. UNCHANGED <<manager, tables, holder, message>>
        /\ pc[t] \in {"vectors", "signatures"}
    BY <1>7 DEF BroadcastVectors, BroadcastSignatures, At
  <2>3. HasNodes(t) /\ HasNodes(t)'
    BY <1>7, <1>a, <2>1, <2>2 DEF HasNodes
  <2>4. place \in PlacesOf(t) /\ place \in Places
    BY <1>7 DEF PlacesOf, Places
  <2>5. QED
    BY <1>0, <2>1, <2>2, <2>3, <2>4, QuietMove DEF IInv, TypeOK, tables, manager
<1>8. QED
  BY <1>1, <1>2, <1>3, <1>4, <1>5, <1>6, <1>7

LEMMA NextIInv == IInv /\ [Next]_vars => IInv'
<1> SUFFICES ASSUME IInv, [Next]_vars PROVE IInv'
  OBVIOUS
<1>1. CASE UNCHANGED vars
  BY <1>1
  DEF vars, tables, manager, IInv, TypeOK, EveryoneInPlace, HoldersInPlace, HasNodes
<1>2. QED
  BY <1>1, OwnerIInv, StartIInv, WorkerIInv DEF Next, Workers

(* The manager's variables keep their types.                               *)
THEOREM TypeCorrect == Spec => []TypeOK
<1>1. IInv => TypeOK
  BY DEF IInv
<1>2. QED
  BY InitIInv, NextIInv, <1>1, PTL DEF Spec

-----------------------------------------------------------------------------

(* A receiver is alive only as the one the manager knows, and, while the   *)
(* flag is not set, only for a stop that is waiting for it.                *)
ReceiverKnown ==
    /\ Alive(Receivers) \subseteq {receiver}
    /\ ~running /\ ~At(Api, "join") => Alive(Receivers) = {}

LEMMA NextReceiverKnown == IInv /\ ReceiverKnown /\ [Next]_vars => ReceiverKnown'
<1> SUFFICES ASSUME IInv, ReceiverKnown, [Next]_vars PROVE ReceiverKnown'
  OBVIOUS
<1> USE Kinds
<1>0. TypeOK
  BY DEF IInv
<1>1. CASE Start
  <2>1. CASE pc' = pc /\ receiver' = receiver
    BY <1>1, <2>1 DEF Start, ReceiverKnown, Alive, At
  <2>2. ASSUME NEW r \in Unused(Receivers), receiver' = r, ~running,
               NEW spawned \in Spawned(r),
               pc' = [t \in Threads |-> IF t \in spawned THEN "check" ELSE pc[t]]
        PROVE  ReceiverKnown'
    <3>1. Alive(Receivers) = {}
      BY <1>1, <2>2 DEF Start, ReceiverKnown, At
    <3>2. \A t \in Receivers : t # r => pc'[t] = pc[t]
      BY <2>2, SpawnedAreNew
    <3>3. Alive(Receivers)' \subseteq {r}
      BY <3>1, <3>2 DEF Alive
    <3>4. QED
      BY <1>1, <2>2, <3>3 DEF Start, ReceiverKnown
  <2>3. QED
    BY <1>1, <2>1, <2>2 DEF Start
<1>2. ASSUME \/ Initialize \/ AddSelf \/ Ask \/ ShareVector \/ ShareSignature
             \/ StatsNodes \/ StatsVectors \/ StatsSignatures
      PROVE  ReceiverKnown'
  <2>1. UNCHANGED <<running, receiver>> /\ ~At(Api, "join")
    BY <1>2 DEF Initialize, AddSelf, Ask, ShareVector, ShareSignature, StatsNodes,
                StatsVectors, StatsSignatures, manager, At
  <2>2. \A t \in Receivers : pc'[t] = pc[t]
    BY <1>0, <1>2 DEF Initialize, AddSelf, Ask, ShareVector, ShareSignature,
                      StatsNodes, StatsVectors, StatsSignatures, Goto, TypeOK
  <2>3. QED
    BY <2>1, <2>2 DEF ReceiverKnown, Alive
<1>3. CASE Stop
  <2>1. receiver' = receiver /\ \A t \in Receivers : pc'[t] = pc[t]
    BY <1>0, <1>3 DEF Stop, Goto, TypeOK
  <2>2. receiver # NoReceiver => pc'[Api] = "join"
    BY <1>0, <1>3 DEF Stop, Goto, TypeOK
  <2>3. QED
    BY <2>1, <2>2 DEF ReceiverKnown, Alive, At
<1>4. CASE Join
  <2>1. Alive(Receivers) = {}
    BY <1>4 DEF Join, At, ReceiverKnown, Alive
  <2>2. \A t \in Receivers : pc'[t] = pc[t]
    BY <1>0, <1>4 DEF Join, Goto, TypeOK
  <2>3. QED
    BY <2>1, <2>2 DEF ReceiverKnown, Alive
<1>5. ASSUME NEW t \in Workers,
             \/ Check(t) \/ Wake(t)
             \/ t \in Receivers /\ (Receive(t) \/ UpdateNode(t) \/ StoreVector(t)
                                        \/ StoreSignature(t))
             \/ t \in Gossipers /\ (LockNodes(t) \/ BroadcastVectors(t)
                                        \/ BroadcastSignatures(t))
      PROVE  ReceiverKnown'
  <2>1. UNCHANGED <<running, receiver>> /\ pc[t] \notin {"unused", "done"}
    BY <1>5 DEF Check, Wake, Receive, UpdateNode, StoreVector, StoreSignature,
                LockNodes, BroadcastVectors, BroadcastSignatures, manager, At
  <2>2. \A s \in Threads : s # t => pc'[s] = pc[s]
    BY <1>0, <1>5
    DEF Check, Wake, Receive, UpdateNode, StoreVector, StoreSignature, Handled,
        LockNodes, BroadcastVectors, BroadcastSignatures, Goto, TypeOK
  <2>3. Alive(Receivers)' \subseteq Alive(Receivers)
    BY <2>1, <2>2 DEF Alive
  <2>4. QED
    BY <2>1, <2>2, <2>3 DEF ReceiverKnown, At
<1>6. CASE UNCHANGED vars
  BY <1>6 DEF vars, ReceiverKnown, Alive, At
<1>7. QED
  BY <1>1, <1>2, <1>3, <1>4, <1>5, <1>6 DEF Next, Workers

(* Two receivers are never alive, and none is once stop has returned, for  *)
(* any sequence of starts and stops and whatever the bind of an address    *)
(* that is taken already gives.                                            *)
THEOREM ReceiverIsAlone == Spec => []OneReceiver
<1>1. Init => ReceiverKnown
  BY Kinds DEF Init, ReceiverKnown, Alive
<1>2. ReceiverKnown => OneReceiver
  BY DEF ReceiverKnown, OneReceiver, At
<1>3. QED
  BY InitIInv, NextIInv, NextReceiverKnown, <1>1, <1>2, PTL DEF Spec

-----------------------------------------------------------------------------

(* In a circle nobody waits for the owner in get_stats: it holds vectors   *)
(* only when it waits for signatures, and that nobody holds over a wait.   *)
LEMMA CirclesNeedNodes ==
    ASSUME IInv, NEW ring \in Circles, NEW t \in ring, NEW u \in ring, WaitsFor(t, u)
    PROVE  \/ Waits(t, "nodes") /\ holder["nodes"] = u
           \/ t = Api /\ pc[Api] = "join" /\ receiver = u
<1> USE Kinds
<1>1. ring \subseteq Threads /\ \A s \in ring : \E v \in ring : WaitsFor(s, v)
  BY DEF Circles, Alive
<1>2. \A s \in Threads : s # "free"
  BY DEF Threads
<1>3. holder["signatures"] = "free"
      /\ holder["vectors"] = IF pc[Api] = "stats_signatures" THEN Api ELSE "free"
  BY DEF IInv, HoldersInPlace
<1>4. ~(Api \in ring /\ pc[Api] = "stats_signatures")
  <2> SUFFICES ASSUME Api \in ring, pc[Api] = "stats_signatures" PROVE FALSE
    OBVIOUS
  <2>1. PICK v \in ring : WaitsFor(Api, v)
    BY <1>1
  <2>2. v # "free"
    BY <1>1, <1>2
  <2>3. Api \notin Receivers
    OBVIOUS
  <2>4. ~Waits(Api, "nodes") /\ ~Waits(Api, "vectors")
    BY <2>3 DEF Waits
  <2>5. QED
    BY <1>3, <2>1, <2>2, <2>4 DEF WaitsFor, Locks, At
<1>5. QED
  BY <1>1, <1>2, <1>3, <1>4 DEF WaitsFor, Locks, At

(* Whoever holds nodes in a circle waits for it: it is a receiver whose    *)
(* message makes it take the mutex it has.                                 *)
LEMMA NodesHolderIsReceiver ==
    ASSUME IInv, NEW ring \in Circles, NEW u \in ring, holder["nodes"] = u
    PROVE  u \in Receivers /\ At(u, "store") /\ Needs(message[u]) = "nodes"
<1> USE Kinds
<1>1. u \in Threads /\ HasNodes(u) /\ pc[u] \in PlacesOf(u)
  BY DEF Circles, Alive, IInv, HoldersInPlace, EveryoneInPlace
<1>2. PICK v \in ring : WaitsFor(u, v)
  BY DEF Circles
<1>3. pc[u] # "join" /\ pc[u] \notin {"add_self", "stats", "lock_nodes"}
  BY <1>1 DEF HasNodes
<1>4. Waits(u, "nodes")
  BY <1>2, <1>3, CirclesNeedNodes
<1>5. QED
  BY <1>3, <1>4 DEF Waits

LEMMA NodesAreNeededForMembership ==
    ASSUME NEW m, Needs(m) = "nodes"
    PROVE  m.type \in {"NodeJoin", "NodeLeave"}
BY DEF Needs

(* Threads that wait for each other in a circle, however many there are,   *)
(* always have a receiver among them that handles a change of membership:  *)
(* without such messages the locking of this module cannot wedge.          *)
THEOREM MembershipBlocks == Spec => []OnlyMembershipBlocks
<1>1. IInv => OnlyMembershipBlocks
  <2> SUFFICES ASSUME IInv, NEW ring \in Circles
               PROVE  \E r \in ring \cap Receivers :
                          /\ At(r, "store")
                          /\ message[r].type \in {"NodeJoin", "NodeLeave"}
    BY DEF OnlyMembershipBlocks
  <2>1. PICK t \in ring : TRUE
    BY DEF Circles
  <2>2. PICK u \in ring : WaitsFor(t, u)
    BY DEF Circles
  <2>3. PICK v \in ring : WaitsFor(u, v)
    BY DEF Circles
  <2>4. u \in Threads /\ v \in Threads
    BY DEF Circles, Alive
  <2>5. holder["nodes"] = u \/ holder["nodes"] = v
    <3>1. CASE holder["nodes"] = u
      BY <3>1
    <3>2. CASE t = Api /\ pc[Api] = "join" /\ receiver = u
      <4>1. u # Api
        BY <3>2, Kinds DEF IInv, TypeOK
      <4>2. QED
        BY <2>3, <4>1, CirclesNeedNodes
    <3>3. QED
      BY <2>2, <3>1, <3>2, CirclesNeedNodes
  <2>6. QED
    BY <2>5, NodesHolderIsReceiver, NodesAreNeededForMembership
<1>2. QED
  BY InitIInv, NextIInv, <1>1, PTL DEF Spec

=============================================================================
