------------------------------- MODULE Gossip -------------------------------
(***************************************************************************)
(* src/gossip.rs: a GossipManager, the thread that owns it, and the        *)
(* receiver, heartbeat and gossip threads that start() spawns.  Steps end  *)
(* where a thread waits: for a mutex, a datagram, the end of a sleep or of *)
(* another thread.  The mutex of sequence_number is never held while       *)
(* another is taken, so it and the counter are left inside the steps; the  *)
(* contents of vectors, signatures and messages are left out, and so are   *)
(* the datagrams sent.                                                     *)
(***************************************************************************)
EXTENDS Integers, FiniteSets

CONSTANTS
    Receivers, Heartbeats, Gossipers,   \* bounds on the threads ever spawned
    Peers,
    Vectors, Signatures,    \* their ids
    Rebinds                 \* what a second bind of one address may give

Api == "api"
Self == "self"
NoReceiver == "none"

ASSUME GossipAssumption ==
    /\ Rebinds \subseteq BOOLEAN /\ Rebinds # {}
    /\ {Api, NoReceiver, "free"} \cap (Receivers \cup Heartbeats \cup Gossipers) = {}
    /\ Receivers \cap Heartbeats = {}
    /\ Gossipers \cap (Receivers \cup Heartbeats) = {}

VARIABLES
    running,        \* GossipManager.running
    socket,         \* GossipManager.socket.is_some()
    receiver,       \* GossipManager.message_receiver
    nodes, vectors, signatures,     \* the keys of the three maps
    holder,         \* who holds the mutex of each map
    pc,             \* where each thread is
    message         \* the message each receiver handles

vars == <<running, socket, receiver, nodes, vectors, signatures, holder, pc,
          message>>
tables == <<nodes, vectors, signatures>>
manager == <<running, socket, receiver>>

Workers == Receivers \cup Heartbeats \cup Gossipers
Threads == Workers \cup {Api}
Locks == {"nodes", "vectors", "signatures"}

MessageTypes ==
    {"Heartbeat", "StateVector", "ThreatAlert", "NodeJoin", "NodeLeave",
     "StateRequest", "StateResponse", "Acknowledgment"}
Messages == [type : MessageTypes, sender : Peers, valid : BOOLEAN]
NoMessage == [type |-> "Heartbeat", sender |-> Self, valid |-> FALSE]

Init ==
    /\ running = FALSE
    /\ socket = FALSE
    /\ receiver = NoReceiver
    /\ nodes = {} /\ vectors = {} /\ signatures = {}
    /\ holder = [l \in Locks |-> "free"]
    /\ pc = [t \in Threads |-> IF t = Api THEN "idle" ELSE "unused"]
    /\ message = [r \in Receivers |-> NoMessage]

Free(l) == holder[l] = "free"
Acquire(t, l) == Free(l) /\ holder' = [holder EXCEPT ![l] = t]
Release(t) ==
    holder' = [l \in Locks |-> IF holder[l] = t THEN "free" ELSE holder[l]]
At(t, place) == pc[t] = place
Goto(t, place) == pc' = [pc EXCEPT ![t] = place]
Unused(slots) == {t \in slots : At(t, "unused")}

-----------------------------------------------------------------------------
(* The owner of the manager.                                               *)

(* initialize: the first bind may fail for another program's sake, a later *)
(* one meets the manager's own socket.                                     *)
Initialize ==
    /\ At(Api, "idle")
    /\ socket => TRUE \in Rebinds
    /\ socket' = TRUE
    /\ Goto(Api, "add_self")
    /\ UNCHANGED <<running, receiver, tables, holder, message>>

AddSelf ==
    /\ At(Api, "add_self")
    /\ Free("nodes")
    /\ nodes' = nodes \cup {Self}
    /\ Goto(Api, "idle")
    /\ UNCHANGED <<manager, vectors, signatures, holder, message>>

(* clone_socket: not a clone but a second bind of the same address.        *)
Cloned == IF socket THEN Rebinds ELSE {FALSE}

(* The threads a start can leave behind: the heartbeat and gossip threads  *)
(* are left out without an error when their socket cannot be had.          *)
Left(slots) ==
    IF TRUE \in Cloned
    THEN {{t} : t \in Unused(slots)} \cup (IF FALSE \in Cloned THEN {{}} ELSE {})
    ELSE {{}}

Spawned(r) == {{r} \cup h \cup g : h \in Left(Heartbeats), g \in Left(Gossipers)}

(* start: the flag is set before the socket is asked for, and the error    *)
(* return leaves it set; start on a set flag does nothing and returns Ok.  *)
Start ==
    /\ At(Api, "idle")
    /\ running' = TRUE
    /\ \/ /\ running
          /\ UNCHANGED <<receiver, pc>>
       \/ /\ ~running
          /\ FALSE \in Cloned
          /\ UNCHANGED <<receiver, pc>>
       \/ /\ ~running
          /\ TRUE \in Cloned
          /\ \E r \in Unused(Receivers) :
                /\ receiver' = r
                /\ \E spawned \in Spawned(r) :
                    pc' = [t \in Threads |->
                              IF t \in spawned THEN "check" ELSE pc[t]]
    /\ UNCHANGED <<socket, tables, holder, message>>

(* A bug for the runs to find: the receiver is not waited for.             *)
StopUnjoined ==
    /\ At(Api, "idle")
    /\ running
    /\ running' = FALSE
    /\ UNCHANGED <<socket, receiver, tables, holder, pc, message>>

(* stop, and drop, which calls it: the receiver is waited for, the other   *)
(* threads are not.                                                        *)
Stop ==
    /\ At(Api, "idle")
    /\ running
    /\ running' = FALSE
    /\ Goto(Api, IF receiver = NoReceiver THEN "idle" ELSE "join")
    /\ UNCHANGED <<socket, receiver, tables, holder, message>>

Join ==
    /\ At(Api, "join")
    /\ At(receiver, "done")
    /\ receiver' = NoReceiver
    /\ Goto(Api, "idle")
    /\ UNCHANGED <<running, socket, tables, holder, message>>

(* share_state_vector, share_threat_signature and get_stats, up to their   *)
(* first mutex.                                                            *)
Ask ==
    /\ At(Api, "idle")
    /\ \E place \in {"share_vector", "share_signature", "stats"} :
        Goto(Api, place)
    /\ UNCHANGED <<manager, tables, holder, message>>

ShareVector ==
    /\ At(Api, "share_vector")
    /\ Free("vectors")
    /\ \E v \in Vectors : vectors' = vectors \cup {v}
    /\ Goto(Api, "idle")
    /\ UNCHANGED <<manager, nodes, signatures, holder, message>>

ShareSignature ==
    /\ At(Api, "share_signature")
    /\ Free("signatures")
    /\ \E s \in Signatures : signatures' = signatures \cup {s}
    /\ Goto(Api, "idle")
    /\ UNCHANGED <<manager, nodes, vectors, holder, message>>

StatsNodes ==
    /\ At(Api, "stats")
    /\ Acquire(Api, "nodes")
    /\ Goto(Api, "stats_vectors")
    /\ UNCHANGED <<manager, tables, message>>

StatsVectors ==
    /\ At(Api, "stats_vectors")
    /\ Acquire(Api, "vectors")
    /\ Goto(Api, "stats_signatures")
    /\ UNCHANGED <<manager, tables, message>>

StatsSignatures ==
    /\ At(Api, "stats_signatures")
    /\ Free("signatures")
    /\ Release(Api)
    /\ Goto(Api, "idle")
    /\ UNCHANGED <<manager, tables, message>>

-----------------------------------------------------------------------------
(* The threads start() spawns.                                             *)

(* while running.load(..): where a turn of a thread's loop begins.         *)
Turn(t) ==
    CASE t \in Receivers -> "recv"
      [] t \in Heartbeats -> "sleep"
      [] t \in Gossipers -> "lock_nodes"

Check(t) ==
    /\ At(t, "check")
    /\ Goto(t, IF running THEN Turn(t) ELSE "done")
    /\ UNCHANGED <<manager, tables, holder, message>>

(* recv_from without a timeout: a message comes, or an error or something  *)
(* that is no message, or nothing ever.                                    *)
Receive(r) ==
    /\ At(r, "recv")
    /\ \/ /\ \E m \in Messages : message' = [message EXCEPT ![r] = m]
          /\ Goto(r, "lock_nodes")
       \/ /\ Goto(r, "check")
          /\ UNCHANGED message
    /\ UNCHANGED <<manager, tables, holder>>

(* The second mutex handle_message needs for a message.                    *)
Needs(m) ==
    CASE m.type \in {"StateVector", "StateResponse"} /\ m.valid -> "vectors"
      [] m.type = "ThreatAlert" /\ m.valid -> "signatures"
      [] m.type = "NodeJoin" /\ m.valid -> "nodes"
      [] m.type = "NodeLeave" -> "nodes"
      [] OTHER -> "none"

Handled(r) ==
    Goto(r, "check") /\ message' = [message EXCEPT ![r] = NoMessage]

(* The sender is entered under the mutex of nodes, which is held until     *)
(* handle_message returns.  A message about membership then takes the same *)
(* mutex again: a thread that does so waits for itself and has no step.    *)
UpdateNode(r) ==
    /\ At(r, "lock_nodes")
    /\ Free("nodes")
    /\ nodes' = nodes \cup {message[r].sender}
    /\ IF Needs(message[r]) = "none"
          THEN Handled(r) /\ UNCHANGED holder
          ELSE /\ Goto(r, "store")
               /\ Acquire(r, "nodes")
               /\ UNCHANGED message
    /\ UNCHANGED <<manager, vectors, signatures>>

StoreVector(r) ==
    /\ At(r, "store")
    /\ Needs(message[r]) = "vectors"
    /\ Free("vectors")
    /\ \E v \in Vectors : vectors' = vectors \cup {v}
    /\ Release(r)
    /\ Handled(r)
    /\ UNCHANGED <<manager, nodes, signatures>>

StoreSignature(r) ==
    /\ At(r, "store")
    /\ Needs(message[r]) = "signatures"
    /\ Free("signatures")
    /\ \E s \in Signatures : signatures' = signatures \cup {s}
    /\ Release(r)
    /\ Handled(r)
    /\ UNCHANGED <<manager, nodes, vectors>>

(* start_gossip: nodes is held from here to the end of the sleep.          *)
LockNodes(g) ==
    /\ At(g, "lock_nodes")
    /\ Acquire(g, "nodes")
    /\ Goto(g, "vectors")
    /\ UNCHANGED <<manager, tables, message>>

(* broadcast_state_vectors.                                                *)
BroadcastVectors(g) ==
    /\ At(g, "vectors")
    /\ Free("vectors")
    /\ Goto(g, "signatures")
    /\ UNCHANGED <<manager, tables, holder, message>>

(* broadcast_threat_signatures.                                            *)
BroadcastSignatures(g) ==
    /\ At(g, "signatures")
    /\ Free("signatures")
    /\ Goto(g, "sleep")
    /\ UNCHANGED <<manager, tables, holder, message>>

(* A bug for the runs to find: the guard outlives the turn of the loop.    *)
WakeHolding(t) ==
    /\ At(t, "sleep")
    /\ Goto(t, "check")
    /\ UNCHANGED <<manager, tables, holder, message>>

(* The end of a heartbeat's or gossip thread's sleep, and of its turn.     *)
Wake(t) ==
    /\ At(t, "sleep")
    /\ Release(t)
    /\ Goto(t, "check")
    /\ UNCHANGED <<manager, tables, message>>

Next ==
    \/ Initialize \/ AddSelf \/ Start \/ Stop \/ Join
    \/ Ask \/ ShareVector \/ ShareSignature
    \/ StatsNodes \/ StatsVectors \/ StatsSignatures
    \/ \E t \in Workers : Check(t) \/ Wake(t)
    \/ \E r \in Receivers :
          Receive(r) \/ UpdateNode(r) \/ StoreVector(r) \/ StoreSignature(r)
    \/ \E g \in Gossipers :
          LockNodes(g) \/ BroadcastVectors(g) \/ BroadcastSignatures(g)

Spec == Init /\ [][Next]_vars

-----------------------------------------------------------------------------

Places == {"idle", "add_self", "join", "share_vector", "share_signature",
           "stats", "stats_vectors", "stats_signatures", "unused", "check",
           "recv", "lock_nodes", "store", "vectors", "signatures", "sleep",
           "done"}

(* Type correctness.                                                       *)
TypeOK ==
    /\ running \in BOOLEAN
    /\ socket \in BOOLEAN
    /\ receiver \in Receivers \cup {NoReceiver}
    /\ nodes \subseteq Peers \cup {Self}
    /\ vectors \subseteq Vectors
    /\ signatures \subseteq Signatures
    /\ holder \in [Locks -> Threads \cup {"free"}]
    /\ pc \in [Threads -> Places]
    /\ message \in [Receivers -> Messages \cup {NoMessage}]

Alive(slots) == {t \in slots : pc[t] \notin {"unused", "done"}}

(* However often the manager is stopped, started and given up on, at most  *)
(* one receiver is alive, it is the one the manager knows, and none is     *)
(* left once stop has returned: two of them would race for the datagrams   *)
(* of one address.  (Of heartbeat and gossip threads, which stop does not  *)
(* wait for, several may be alive.)                                        *)
OneReceiver ==
    /\ Alive(Receivers) \subseteq {receiver}
    /\ ~running /\ At(Api, "idle") => Alive(Receivers) = {}

Waits(t, l) ==
    CASE l = "nodes" ->
            \/ pc[t] \in {"add_self", "stats", "lock_nodes"}
            \/ t \in Receivers /\ At(t, "store") /\ Needs(message[t]) = l
      [] l = "vectors" ->
            \/ pc[t] \in {"share_vector", "stats_vectors", "vectors"}
            \/ t \in Receivers /\ At(t, "store") /\ Needs(message[t]) = l
      [] l = "signatures" ->
            \/ pc[t] \in {"share_signature", "stats_signatures", "signatures"}
            \/ t \in Receivers /\ At(t, "store") /\ Needs(message[t]) = l

WaitsFor(t, u) ==
    \/ \E l \in Locks : Waits(t, l) /\ holder[l] = u
    \/ t = Api /\ At(Api, "join") /\ receiver = u

(* Threads that wait for each other in a circle: only ever a receiver that *)
(* handles a change of membership, waiting for itself.  The three mutexes, *)
(* the join of stop and the sleep under a mutex make no other circle.      *)
Circles ==
    {ring \in SUBSET Alive(Threads) :
        ring # {} /\ \A t \in ring : \E u \in ring : WaitsFor(t, u)}

OnlyMembershipBlocks ==
    \A ring \in Circles :
        \E r \in ring \cap Receivers :
            At(r, "store") /\ message[r].type \in {"NodeJoin", "NodeLeave"}

=============================================================================
