------------------------- MODULE KernelModulesProofs ------------------------
(***************************************************************************)
(* For any number of threads and modules, whichever commands fail and      *)
(* whatever administrators do in between: the managers vouch only for      *)
(* modules that were in the kernel during the call, and where LkmManager   *)
(* or reload_module is wrong about one, there is a cause.                  *)
(***************************************************************************)
EXTENDS KernelModules, SequenceTheorems, TLAPS

Loading == {"check", "modprobe", "dkms", "install", "verify"}
Vouching == {"load", "params", "reload", "ensure", "ready"}

(* Which calls can be at which place.                                      *)
Belongs(place, op) ==
    \/ place = "idle" /\ op = "none"
    \/ place \in Loading /\ op \in {"load", "params", "reload", "ensure", "lkm"}
    \/ place \in {"unload", "rmmod"} /\ op \in {"unload", "reload"}
    \/ place = "ready" /\ op = "ready"
    \/ place = "initialize" /\ op = "initialize"
    \/ /\ place \in {"init_loaded", "init_available", "init_blacklisted",
                     "init_dry", "init_dry_loaded", "insert"}
       /\ op \in {"with dkms", "with modprobe"}
    \/ place = "status" /\ op = "status"
    \/ place \in {"lkm_modprobe", "insmod"} /\ op = "lkm"
    \/ place = "flag" /\ op \in {"lkm", "register"}
    \/ place \in {"lkm_rmmod", "unflag"} /\ op = "lkm_unload"
    \/ place = "is_loaded" /\ op = "is_loaded"
    \/ place = "register" /\ op = "register"

CallTypes ==
    [op : {"none", "load", "params", "reload", "ensure", "lkm", "unload", "ready",
           "initialize", "with dkms", "with modprobe", "status", "register",
           "lkm_unload", "is_loaded"},
     module : Modules, todo : Seq(Modules), asked : Seq(Modules),
     failed : SUBSET Modules,
     status : {"none", "Loaded", "Available", "NotAvailable", "Blacklisted"},
     excused : BOOLEAN]

(* The module at hand is the one after those dealt with, and these have    *)
(* been seen or are among the failed.                                      *)
Progress(c, s) ==
    \E k \in 1 .. Len(c.asked) :
        /\ c.asked[k] = c.module
        /\ c.todo = SubSeq(c.asked, k + 1, Len(c.asked))
        /\ \A i \in 1 .. k - 1 : c.asked[i] \in s \cup c.failed

(* What holds of a call at a place, with the modules seen and missed in it. *)
Fine(place, c, s, o) ==
    /\ c \in CallTypes
    /\ Belongs(place, c.op)
    /\ c.op = "lkm" => c.module = LkmModule
    /\ c.op # "ensure" => c.failed = {}
    /\ c.op \in {"load", "params", "reload"} => c.todo = << >>
    /\ c.op \in Vouching => Progress(c, s)
    /\ place = "insert" /\ c.status = "Loaded" => c.module \in s
    /\ c.op = "reload" /\ place \in Loading => c.module \in o \/ c.excused

Types ==
    /\ loaded \subseteq Modules
    /\ DOMAIN pc = Threads /\ DOMAIN call = Threads /\ DOMAIN answer = Threads
    /\ DOMAIN seen = Threads /\ DOMAIN out = Threads

(* What a thread is doing, and what it has seen of the kernel.             *)
CallOf(t) ==
    /\ Fine(pc[t], call[t], seen[t], out[t])
    /\ pc[t] # "idle" => /\ answer[t] = "none"
                         /\ loaded \subseteq seen[t]
                         /\ Modules \ loaded \subseteq out[t]

EveryCall == \A t \in Threads : CallOf(t)

(* Who is about to set the flag had the module loaded, or it was taken     *)
(* away since, or only its name was listed.                                *)
PendingFlag ==
    \A t \in Threads :
        pc[t] = "flag" => \/ LkmModule \in loaded \cup Silent
                          \/ cause # "none"

IInv == Types /\ EveryCall /\ PendingFlag /\ StaleFlagHasCause

-----------------------------------------------------------------------------

(* A step of one thread leaves the calls of the others alone.              *)
Only(t) ==
    /\ DOMAIN pc' = Threads /\ DOMAIN call' = Threads /\ DOMAIN answer' = Threads
    /\ \A u \in Threads \ {t} :
           pc'[u] = pc[u] /\ call'[u] = call[u] /\ answer'[u] = answer[u]

(* What a positive answer stands for.                                      *)
Vouched(t) ==
    Returns(t, "yes") =>
        /\ call[t].op \in Vouching =>
               \A i \in DOMAIN call[t].asked : call[t].asked[i] \in seen[t]
        /\ call[t].op = "reload" => Module(t) \in out[t] \/ call[t].excused

(* A thread goes to set the flag when the module is there, or when         *)
(* register_lsm found the name in the list, goes to clear it when it has   *)
(* removed the module, and does so in one step.                            *)
FlagStep(t) ==
    /\ pc'[t] = "flag" => \/ LkmModule \in loaded' \cup Silent
                          \/ pc[t] = "register" /\ loaded' = loaded
    /\ pc[t] = "lkm_rmmod" /\ LkmModule \in loaded \ loaded' => pc'[t] = "unflag"
    /\ \/ flag' = flag /\ pc[t] # "unflag"
       \/ flag' = FALSE
       \/ flag' = TRUE /\ pc[t] = "flag" /\ loaded' = loaded

StepOf(t) == Only(t) /\ loaded' \subseteq Modules /\ CallOf(t)' /\ Vouched(t) /\ FlagStep(t)

-----------------------------------------------------------------------------

(* The rest of a list after its place k.                                   *)
LEMMA RestOfList ==
    ASSUME NEW S, NEW asked \in Seq(S), NEW k \in 1 .. Len(asked),
           NEW todo, todo = SubSeq(asked, k + 1, Len(asked))
    PROVE  /\ todo = << >> => k = Len(asked)
           /\ todo # << >> => /\ k + 1 \in 1 .. Len(asked)
                              /\ Head(todo) = asked[k + 1]
                              /\ Tail(todo) = SubSeq(asked, k + 2, Len(asked))
<1>1. Len(asked) \in Nat /\ k \in Nat
    OBVIOUS
<1>2. todo \in Seq(S) /\ Len(todo) = Len(asked) - k
    OBVIOUS
<1>3. CASE todo = << >>
    <2>1. Len(todo) = 0
        BY <1>3
    <2> QED BY <1>1, <1>2, <1>3, <2>1
<1>4. CASE todo # << >>
    <2>1. k + 1 \in 1 .. Len(asked)
        BY <1>1, <1>2, <1>4
    <2>2. Head(todo) = asked[k + 1]
        BY <1>1, <1>2, <1>4, <2>1
    <2>3. Tail(todo) = SubSeq(asked, k + 2, Len(asked))
        <3>1. /\ Tail(todo) \in Seq(S) /\ Len(Tail(todo)) = Len(asked) - k - 1
              /\ \A i \in 1 .. Len(asked) - k - 1 : Tail(todo)[i] = todo[i + 1]
            BY <1>1, <1>2, <1>4
        <3>2. \A i \in 1 .. Len(asked) - k - 1 : todo[i + 1] = asked[k + 1 + i]
            BY <1>1, <1>2
        <3>3. /\ SubSeq(asked, k + 2, Len(asked)) \in Seq(S)
              /\ Len(SubSeq(asked, k + 2, Len(asked))) = Len(asked) - k - 1
              /\ \A i \in 1 .. Len(asked) - k - 1 :
                     SubSeq(asked, k + 2, Len(asked))[i] = asked[k + 1 + i]
            BY <1>1, <2>1
        <3> QED BY <3>1, <3>2, <3>3, SeqEqual
    <2> QED BY <1>4, <2>1, <2>2, <2>3
<1> QED BY <1>3, <1>4

LEMMA NoCallIsFine ==
    ASSUME NEW s, NEW o
    PROVE  Fine("idle", NoCall, s, o)
<1>1. LkmModule \in Modules
    BY KernelModulesAssumption
<1>2. Head(<<LkmModule>>) = LkmModule /\ Tail(<<LkmModule>>) = << >>
    OBVIOUS
<1> DEFINE r == Call("none", <<LkmModule>>)
<1>3. /\ r.op = "none" /\ r.todo = << >> /\ r.failed = {} /\ r.status = "none"
      /\ r \in CallTypes
    BY <1>1, <1>2 DEF Call, CallTypes
<1> HIDE DEF r
<1>4. NoCall = [r EXCEPT !.asked = << >>]
    BY DEF NoCall, r
<1>5. << >> \in Seq(Modules)
    OBVIOUS
<1>6. /\ NoCall.op = "none" /\ NoCall.todo = << >> /\ NoCall.failed = {}
      /\ NoCall \in CallTypes
    BY <1>3, <1>4, <1>5 DEF CallTypes
<1> QED BY <1>6 DEF Fine, Belongs, Loading, Vouching

(* A call that begins has dealt with nothing.                              *)
LEMMA NewCallIsFine ==
    ASSUME NEW op, NEW list \in Seq(Modules), list # << >>, NEW place,
           Belongs(place, op), place \notin {"idle", "insert"},
           op \in {"load", "params", "reload", "lkm"} => Len(list) = 1,
           op = "lkm" => list[1] = LkmModule,
           op = "reload" => place \notin Loading,
           NEW s, NEW o
    PROVE  Fine(place, Call(op, list), s, o)
<1> DEFINE c == Call(op, list)
<1>1. Head(list) = list[1] /\ Head(list) \in Modules
    OBVIOUS
<1>2. Tail(list) = SubSeq(list, 2, Len(list)) /\ Tail(list) \in Seq(Modules)
    OBVIOUS
<1>3. c \in CallTypes
    <2>1. op \in {"none", "load", "params", "reload", "ensure", "lkm", "unload", "ready",
                  "initialize", "with dkms", "with modprobe", "status", "register",
                  "lkm_unload", "is_loaded"}
        BY DEF Belongs
    <2> QED BY <1>1, <1>2, <2>1 DEF Call, CallTypes
<1>4. /\ c.op = op /\ c.module = list[1] /\ c.todo = SubSeq(list, 2, Len(list))
      /\ c.asked = list /\ c.failed = {}
    BY <1>1, <1>2 DEF Call
<1>5. Len(list) = 1 => c.todo = << >>
    BY <1>4
<1>6. Progress(c, s)
    <2>1. 1 \in 1 .. Len(c.asked)
        BY <1>4
    <2>2. \A i \in 1 .. 1 - 1 : FALSE
        OBVIOUS
    <2>3. 1 + 1 = 2
        OBVIOUS
    <2> QED BY <1>4, <2>1, <2>2, <2>3 DEF Progress
<1> HIDE DEF c
<1>7. Fine(place, c, s, o)
    BY <1>3, <1>4, <1>5, <1>6 DEF Fine
<1> QED BY <1>7 DEF c

(* A call is fine at its next place, having seen more.                     *)
LEMMA FineKeeps ==
    ASSUME NEW p, NEW q, NEW c, NEW s, NEW o, NEW s2, NEW o2,
           Fine(p, c, s, o), s \subseteq s2, o \subseteq o2,
           Belongs(q, c.op),
           q = "insert" /\ p # "insert" => c.status # "Loaded" \/ c.module \in s2,
           c.op = "reload" /\ q \in Loading /\ p \notin Loading =>
               c.module \in o2 \/ c.excused
    PROVE  Fine(q, c, s2, o2)
<1>1. Progress(c, s) => Progress(c, s2)
    BY DEF Progress
<1> QED BY <1>1 DEF Fine

(* A call that goes on to the next module of its list.                     *)
LEMMA NextModuleIsFine ==
    ASSUME NEW p, NEW q, NEW c, NEW d, NEW s, NEW o, NEW s2, NEW o2,
           Fine(p, c, s, o), s \subseteq s2, c.todo # << >>,
           d \in CallTypes, d.op = c.op, d.asked = c.asked,
           d.module = Head(c.todo), d.todo = Tail(c.todo),
           c.failed \subseteq d.failed, c.op # "ensure" => d.failed = {},
           c.module \in s2 \cup d.failed \/ c.op \notin Vouching,
           Belongs(q, c.op), q # "insert", c.op \notin {"reload", "lkm"}
    PROVE  Fine(q, d, s2, o2)
<1>1. c \in CallTypes /\ (c.op \in Vouching => Progress(c, s))
    BY DEF Fine
<1>2. d.op \notin {"load", "params", "reload"}
    BY DEF Fine
<1>3. ASSUME c.op \in Vouching PROVE Progress(d, s2)
    <2>1. PICK k \in 1 .. Len(c.asked) :
              /\ c.asked[k] = c.module
              /\ c.todo = SubSeq(c.asked, k + 1, Len(c.asked))
              /\ \A i \in 1 .. k - 1 : c.asked[i] \in s \cup c.failed
        BY <1>1, <1>3 DEF Progress
    <2>2. c.asked \in Seq(Modules)
        BY <1>1 DEF CallTypes
    <2>3. /\ k + 1 \in 1 .. Len(c.asked) /\ d.module = c.asked[k + 1]
          /\ d.todo = SubSeq(c.asked, k + 2, Len(c.asked))
        BY <2>1, <2>2, RestOfList
    <2>4. \A i \in 1 .. (k + 1) - 1 : c.asked[i] \in s2 \cup d.failed
        <3>1. SUFFICES ASSUME NEW i \in 1 .. (k + 1) - 1
                       PROVE  c.asked[i] \in s2 \cup d.failed
            OBVIOUS
        <3>2. i = k \/ i \in 1 .. k - 1
            BY <2>2
        <3> QED BY <1>3, <2>1, <3>2
    <2>5. (k + 1) + 1 = k + 2
        BY <2>2
    <2> QED BY <2>3, <2>4, <2>5 DEF Progress
<1> QED BY <1>2, <1>3 DEF Fine

-----------------------------------------------------------------------------

(* A call that is under way sees what the kernel becomes, and forgets      *)
(* nothing.                                                                *)
LEMMA WitnessSees ==
    ASSUME Types, Witness, NEW t \in Threads
    PROVE  /\ pc'[t] # "idle" => /\ loaded' \subseteq seen'[t]
                                 /\ Modules \ loaded' \subseteq out'[t]
           /\ pc[t] # "idle" /\ pc'[t] # "idle" => /\ seen[t] \subseteq seen'[t]
                                                   /\ out[t] \subseteq out'[t]
BY DEF Types, Witness

LEMMA ReturnStep ==
    ASSUME Types, Witness, NEW t \in Threads, NEW value, Return(t, value)
    PROVE  Only(t) /\ CallOf(t)' /\ pc'[t] = "idle" /\ answer'[t] = value
<1>1. /\ pc'[t] = "idle" /\ call'[t] = NoCall /\ answer'[t] = value
      /\ Only(t)
    BY DEF Types, Return, Goto, Only
<1>2. Fine("idle", NoCall, seen'[t], out'[t])
    BY NoCallIsFine
<1> QED BY <1>1, <1>2 DEF CallOf

LEMMA ChangeStep ==
    ASSUME Types, Witness, NEW t \in Threads, CallOf(t), pc[t] # "idle",
           NEW place, place # "idle", Goto(t, place),
           NEW d, call' = [call EXCEPT ![t] = d], UNCHANGED answer,
           Fine(place, d, seen'[t], out'[t])
    PROVE  Only(t) /\ CallOf(t)' /\ Vouched(t) /\ pc'[t] = place
<1>1. /\ pc'[t] = place /\ call'[t] = d /\ answer'[t] = "none"
      /\ Only(t)
    BY DEF Types, Goto, Only, CallOf
<1>2. CallOf(t)'
    BY <1>1, WitnessSees DEF CallOf
<1>3. Vouched(t)
    BY <1>1 DEF Vouched, Returns
<1> QED BY <1>1, <1>2, <1>3

LEMMA ProceedStep ==
    ASSUME Types, Witness, NEW t \in Threads, CallOf(t), pc[t] # "idle",
           NEW place, place \notin {"idle", "insert"}, Proceed(t, place),
           Belongs(place, call[t].op),
           place \in Loading => pc[t] \in Loading
    PROVE  Only(t) /\ CallOf(t)' /\ Vouched(t) /\ pc'[t] = place
<1>1. /\ pc'[t] = place /\ call'[t] = call[t] /\ answer'[t] = "none"
      /\ Only(t)
    BY DEF Types, Goto, Only, CallOf, Proceed
<1>2. seen[t] \subseteq seen'[t] /\ out[t] \subseteq out'[t]
    BY <1>1, WitnessSees
<1>3. Fine(place, call[t], seen'[t], out'[t])
    BY <1>2, FineKeeps DEF CallOf
<1>4. CallOf(t)'
    BY <1>1, <1>3, WitnessSees DEF CallOf
<1>5. Vouched(t)
    BY <1>1 DEF Vouched, Returns
<1> QED BY <1>1, <1>4, <1>5

(* All of a list has been seen when its last module has.                   *)
LEMMA WholeListSeen ==
    ASSUME NEW c \in CallTypes, NEW s, Progress(c, s), c.todo = << >>,
           c.failed = {}, c.module \in s
    PROVE  \A i \in DOMAIN c.asked : c.asked[i] \in s
<1>1. PICK k \in 1 .. Len(c.asked) :
          /\ c.asked[k] = c.module
          /\ c.todo = SubSeq(c.asked, k + 1, Len(c.asked))
          /\ \A i \in 1 .. k - 1 : c.asked[i] \in s \cup c.failed
    BY DEF Progress
<1>2. c.asked \in Seq(Modules)
    BY DEF CallTypes
<1>3. k = Len(c.asked)
    BY <1>1, <1>2, RestOfList
<1>4. SUFFICES ASSUME NEW i \in DOMAIN c.asked PROVE c.asked[i] \in s
    OBVIOUS
<1>5. i \in 1 .. Len(c.asked)
    BY <1>2
<1>6. i = k \/ i \in 1 .. k - 1
    BY <1>2, <1>3, <1>5
<1> QED BY <1>1, <1>6

(* The answer of load_module, when lsmod lists the module if it is yes.    *)
LEMMA LoadedStep ==
    ASSUME Types, Witness, NEW t \in Threads, CallOf(t), pc[t] \in Loading,
           NEW value \in {"yes", "no"}, value = "yes" => Module(t) \in loaded,
           loaded' = loaded, Loaded(t, value)
    PROVE  /\ Only(t) /\ CallOf(t)' /\ Vouched(t)
           /\ pc'[t] = "flag" => LkmModule \in loaded'
<1> DEFINE c == call[t]
           failed == IF value = "yes" THEN c.failed ELSE c.failed \cup {c.module}
<1>1. /\ Fine(pc[t], c, seen[t], out[t])
      /\ pc[t] # "idle" /\ loaded \subseteq seen[t]
    BY DEF CallOf, Loading
<1>2. c \in CallTypes /\ c.op \in {"load", "params", "reload", "ensure", "lkm"}
    BY <1>1 DEF Fine, Belongs, Loading
<1>3. value = "yes" => c.module \in seen[t]
    BY <1>1 DEF Module
<1>4. CASE c.op \in {"load", "params", "reload"}
    <2>1. Return(t, value)
        BY <1>4 DEF Loaded
    <2>2. Only(t) /\ CallOf(t)' /\ pc'[t] = "idle" /\ answer'[t] = value
        BY <2>1, ReturnStep
    <2>3. c.todo = << >> /\ c.failed = {} /\ Progress(c, seen[t])
        BY <1>1, <1>4 DEF Fine, Vouching
    <2>4. value = "yes" => \A i \in DOMAIN c.asked : c.asked[i] \in seen[t]
        BY <1>2, <1>3, <2>3, WholeListSeen
    <2>5. c.op = "reload" => c.module \in out[t] \/ c.excused
        BY <1>1 DEF Fine
    <2>6. Vouched(t)
        BY <2>2, <2>4, <2>5 DEF Vouched, Returns, Module
    <2> QED BY <2>2, <2>6
<1>5. CASE c.op = "lkm"
    <2> DEFINE place == IF value = "yes" THEN "flag" ELSE "lkm_modprobe"
    <2>1. Proceed(t, place)
        BY <1>5 DEF Loaded
    <2>2. /\ Belongs(place, c.op) /\ place \notin {"idle", "insert"}
          /\ place \notin Loading
        BY <1>5 DEF Belongs, Loading
    <2>3. Only(t) /\ CallOf(t)' /\ Vouched(t) /\ pc'[t] = place
        <3> HIDE DEF place
        <3> QED BY <1>1, <2>1, <2>2, ProceedStep
    <2>4. c.module = LkmModule
        BY <1>1, <1>5 DEF Fine
    <2> QED BY <2>3, <2>4 DEF Module
<1>6. CASE c.op = "ensure" /\ c.todo = << >>
    <2>1. Return(t, IF failed = {} THEN "yes" ELSE "error")
        BY <1>6 DEF Loaded
    <2>2. /\ Only(t) /\ CallOf(t)' /\ pc'[t] = "idle"
          /\ answer'[t] = IF failed = {} THEN "yes" ELSE "error"
        BY <2>1, ReturnStep
    <2>3. Progress(c, seen[t])
        BY <1>1, <1>6 DEF Fine, Vouching
    <2>4. failed = {} => value = "yes" /\ c.failed = {}
        OBVIOUS
    <2>5. failed = {} => \A i \in DOMAIN c.asked : c.asked[i] \in seen[t]
        BY <1>2, <1>3, <1>6, <2>3, <2>4, WholeListSeen
    <2>6. Vouched(t)
        BY <1>6, <2>2, <2>5 DEF Vouched, Returns
    <2> QED BY <2>2, <2>6
<1>7. CASE c.op = "ensure" /\ c.todo # << >>
    <2> DEFINE d == [c EXCEPT !.module = Head(c.todo), !.todo = Tail(c.todo),
                              !.failed = failed]
    <2>1. call' = [call EXCEPT ![t] = d] /\ Goto(t, "check") /\ UNCHANGED answer
        BY <1>7 DEF Loaded
    <2>2. failed \subseteq Modules /\ c.failed \subseteq failed
        BY <1>2 DEF CallTypes
    <2>3. c.module \in seen[t] \cup failed
        BY <1>3
    <2> HIDE DEF failed
    <2>4. Head(c.todo) \in Modules /\ Tail(c.todo) \in Seq(Modules)
        <3>1. c.todo \in Seq(Modules)
            BY <1>2 DEF CallTypes
        <3> QED BY <1>7, <3>1
    <2>5. /\ d \in CallTypes /\ d.op = c.op /\ d.asked = c.asked
          /\ d.module = Head(c.todo) /\ d.todo = Tail(c.todo) /\ d.failed = failed
        BY <1>2, <2>2, <2>4 DEF CallTypes
    <2> HIDE DEF d
    <2>6. Belongs("check", c.op)
        BY <1>7 DEF Belongs, Loading
    <2>7. pc'[t] = "check"
        BY <2>1 DEF Types, Goto
    <2>8. seen[t] \subseteq seen'[t]
        BY <1>1, <2>7, WitnessSees
    <2>9. Fine("check", d, seen'[t], out'[t])
        BY <1>1, <1>7, <2>2, <2>3, <2>5, <2>6, <2>8, NextModuleIsFine
    <2> QED BY <1>1, <2>1, <2>7, <2>9, ChangeStep
<1> QED BY <1>2, <1>4, <1>5, <1>6, <1>7

LEMMA PlainReturn ==
    ASSUME Types, Witness, NEW t \in Threads, NEW value, Return(t, value),
           value # "yes" \/ call[t].op \notin Vouching
    PROVE  Only(t) /\ CallOf(t)' /\ Vouched(t) /\ pc'[t] = "idle"
<1>1. Only(t) /\ CallOf(t)' /\ pc'[t] = "idle" /\ answer'[t] = value
    BY ReturnStep
<1>2. Vouched(t)
    BY <1>1 DEF Vouched, Returns, Vouching
<1> QED BY <1>1, <1>2

(* The answer of unload_module.  A reload goes on, excused if the module   *)
(* is still there.                                                         *)
LEMMA UnloadedStep ==
    ASSUME Types, Witness, NEW t \in Threads, CallOf(t),
           pc[t] \in {"unload", "rmmod"},
           NEW value, NEW excused \in BOOLEAN,
           Module(t) \notin loaded' \/ excused, Unloaded(t, value, excused)
    PROVE  Only(t) /\ CallOf(t)' /\ Vouched(t) /\ pc'[t] \in {"idle", "check"}
<1> DEFINE c == call[t]
<1>1. Fine(pc[t], c, seen[t], out[t]) /\ pc[t] # "idle"
    BY DEF CallOf
<1>2. c \in CallTypes /\ c.op \in {"unload", "reload"}
    BY <1>1 DEF Fine, Belongs, Loading
<1>3. CASE c.op = "unload"
    <2>1. Return(t, value)
        BY <1>3 DEF Unloaded
    <2>2. c.op \notin Vouching
        BY <1>3 DEF Vouching
    <2> QED BY <2>1, <2>2, PlainReturn
<1>4. CASE c.op = "reload"
    <2> DEFINE d == [c EXCEPT !.excused = excused]
    <2>1. /\ call' = [call EXCEPT ![t] = d] /\ Goto(t, "check") /\ UNCHANGED answer
        BY <1>4 DEF Unloaded, Types
    <2>2. /\ d \in CallTypes /\ d.op = c.op /\ d.asked = c.asked
          /\ d.module = c.module /\ d.todo = c.todo /\ d.failed = c.failed
          /\ d.excused = excused
        BY <1>2 DEF CallTypes
    <2> HIDE DEF d
    <2>3. pc'[t] = "check"
        BY <2>1 DEF Types, Goto
    <2>4. seen[t] \subseteq seen'[t] /\ Modules \ loaded' \subseteq out'[t]
        BY <1>1, <2>3, WitnessSees
    <2>5. c.module \in out'[t] \/ excused
        <3>1. c.module \in Modules
            BY <1>2 DEF CallTypes
        <3> QED BY <2>4, <3>1 DEF Module
    <2>6. Progress(d, seen'[t])
        <3>1. Progress(c, seen[t])
            BY <1>1, <1>4 DEF Fine, Vouching
        <3> QED BY <2>2, <2>4, <3>1 DEF Progress
    <2>7. c.failed = {} /\ c.todo = << >>
        BY <1>1, <1>4 DEF Fine
    <2>8. Fine("check", d, seen'[t], out'[t])
        BY <1>4, <2>2, <2>5, <2>6, <2>7 DEF Fine, Belongs, Loading
    <2> QED BY <1>1, <2>1, <2>3, <2>8, ChangeStep
<1> QED BY <1>2, <1>3, <1>4

(* What initialize finds goes to the table.                                *)
LEMMA FoundStep ==
    ASSUME Types, Witness, NEW t \in Threads, CallOf(t),
           call[t].op \in {"with dkms", "with modprobe"},
           NEW status \in {"Loaded", "Available", "NotAvailable", "Blacklisted"},
           status = "Loaded" => Module(t) \in loaded,
           loaded' = loaded, Found(t, status), pc[t] # "idle"
    PROVE  Only(t) /\ CallOf(t)' /\ Vouched(t) /\ pc'[t] = "insert"
<1> DEFINE c == call[t]
           d == [c EXCEPT !.status = status]
<1>1. Fine(pc[t], c, seen[t], out[t]) /\ c \in CallTypes
    BY DEF CallOf, Fine
<1>2. call' = [call EXCEPT ![t] = d] /\ Goto(t, "insert") /\ UNCHANGED answer
    BY DEF Found, Types
<1>3. /\ d \in CallTypes /\ d.op = c.op /\ d.module = c.module
      /\ d.failed = c.failed /\ d.status = status
    BY <1>1 DEF CallTypes
<1> HIDE DEF d
<1>4. pc'[t] = "insert"
    BY <1>2 DEF Types, Goto
<1>5. status = "Loaded" => c.module \in seen'[t]
    BY <1>4, WitnessSees DEF Module
<1>6. c.failed = {}
    BY <1>1 DEF Fine
<1>7. Fine("insert", d, seen'[t], out'[t])
    BY <1>3, <1>5, <1>6 DEF Fine, Belongs, Loading, Vouching
<1> QED BY <1>2, <1>4, <1>7, ChangeStep

-----------------------------------------------------------------------------

(* A step that has nothing to do with the flag.                            *)
LEMMA QuietStep ==
    ASSUME NEW t, Same, pc[t] \notin {"lkm_rmmod", "unflag"},
           pc'[t] = "flag" => \/ LkmModule \in loaded' \cup Silent
                              \/ pc[t] = "register" /\ loaded' = loaded
    PROVE  FlagStep(t)
BY DEF Same, FlagStep

LEMMA LoadingSteps ==
    ASSUME Types, Witness, NEW t \in Threads, CallOf(t),
           \/ CheckLoaded(t) \/ Modprobe(t) \/ Verify(t)
           \/ IsDkmsAvailable(t) \/ DkmsInstall(t)
    PROVE  StepOf(t)
<1> DEFINE c == call[t]
<1>1. Fine(pc[t], c, seen[t], out[t]) /\ c \in CallTypes /\ Module(t) \in Modules
    BY DEF CallOf, Fine, CallTypes, Module
<1>2. Same /\ pc[t] \in Loading
    BY DEF CheckLoaded, Modprobe, Verify, IsDkmsAvailable, DkmsInstall, Loading
<1>3. /\ pc[t] \notin {"idle", "lkm_rmmod", "unflag"}
      /\ c.op \in {"load", "params", "reload", "ensure", "lkm"}
    BY <1>1, <1>2 DEF Fine, Belongs, Loading
<1>4. \A place \in Loading : Belongs(place, c.op) /\ place \notin {"idle", "insert"}
    BY <1>3 DEF Belongs, Loading
<1>5. ASSUME NEW place \in Loading, Proceed(t, place), loaded' \subseteq Modules
      PROVE  StepOf(t)
    <2>1. Only(t) /\ CallOf(t)' /\ Vouched(t) /\ pc'[t] = place
        BY <1>2, <1>3, <1>4, <1>5, ProceedStep
    <2>2. pc'[t] # "flag"
        BY <2>1 DEF Loading
    <2> QED BY <1>2, <1>3, <1>5, <2>1, <2>2, QuietStep DEF StepOf
<1>6. ASSUME NEW value \in {"no", "error"}, Return(t, value), loaded' = loaded
      PROVE  StepOf(t)
    <2>1. Only(t) /\ CallOf(t)' /\ Vouched(t) /\ pc'[t] = "idle"
        BY <1>6, PlainReturn
    <2> QED BY <1>2, <1>3, <1>6, <2>1, QuietStep DEF StepOf, Types
<1>7. ASSUME NEW value \in {"yes", "no"}, value = "yes" => Module(t) \in loaded,
             Loaded(t, value), loaded' = loaded
      PROVE  StepOf(t)
    <2>1. /\ Only(t) /\ CallOf(t)' /\ Vouched(t)
          /\ pc'[t] = "flag" => LkmModule \in loaded'
        BY <1>2, <1>7, LoadedStep
    <2> QED BY <1>2, <1>3, <1>7, <2>1, QuietStep DEF StepOf, Types
<1>8. CASE CheckLoaded(t)
    <2>1. loaded' = loaded
        BY <1>8 DEF CheckLoaded, kernel
    <2>2. CASE Return(t, "error")
        BY <1>6, <2>1, <2>2
    <2>3. CASE "yes" \in Lsmod(Module(t)) /\ Loaded(t, "yes")
        <3>1. Module(t) \in loaded
            BY <2>3 DEF Lsmod
        <3> QED BY <1>7, <2>1, <2>3, <3>1
    <2>4. CASE Proceed(t, "modprobe")
        BY <1>5, <2>1, <2>4 DEF Loading, Types
    <2> QED BY <1>8, <2>2, <2>3, <2>4 DEF CheckLoaded
<1>9. CASE Modprobe(t)
    <2>1. CASE UNCHANGED kernel /\ Return(t, "error")
        BY <1>6, <2>1 DEF kernel
    <2>2. CASE /\ UNCHANGED kernel
               /\ IF call[t].op = "params" THEN Return(t, "no") ELSE Proceed(t, "dkms")
        BY <1>5, <1>6, <2>2 DEF kernel, Loading, Types
    <2>3. CASE UNCHANGED kernel /\ Proceed(t, "verify")
        BY <1>5, <2>3 DEF kernel, Loading, Types
    <2>4. CASE Loads(Module(t)) /\ Proceed(t, "verify")
        BY <1>1, <1>5, <2>4 DEF Loads, Loading, Types
    <2> QED BY <1>9, <2>1, <2>2, <2>3, <2>4 DEF Modprobe
<1>10. CASE Verify(t)
    <2>1. loaded' = loaded
        BY <1>10 DEF Verify, kernel
    <2>2. PICK a \in Lsmod(Module(t)) :
              IF a = "error" THEN Return(t, a) ELSE Loaded(t, a)
        BY <1>10 DEF Verify
    <2>3. a \in {"yes", "no", "error"} /\ (a = "yes" => Module(t) \in loaded)
        BY <2>2 DEF Lsmod
    <2> QED BY <1>6, <1>7, <2>1, <2>2, <2>3
<1>11. CASE IsDkmsAvailable(t)
    <2>1. loaded' = loaded
        BY <1>11 DEF IsDkmsAvailable, kernel
    <2>2. CASE Return(t, "error")
        BY <1>6, <2>1, <2>2
    <2>3. CASE Loaded(t, "no")
        BY <1>7, <2>1, <2>3
    <2>4. CASE Proceed(t, "install")
        BY <1>5, <2>1, <2>4 DEF Loading, Types
    <2> QED BY <1>11, <2>2, <2>3, <2>4 DEF IsDkmsAvailable
<1>12. CASE DkmsInstall(t)
    <2>1. loaded' = loaded
        BY <1>12 DEF DkmsInstall
    <2>2. CASE Loaded(t, "no")
        BY <1>7, <2>1, <2>2
    <2>3. CASE Proceed(t, "verify")
        BY <1>5, <2>1, <2>3 DEF Loading, Types
    <2> QED BY <1>12, <2>2, <2>3 DEF DkmsInstall
<1> QED BY <1>8, <1>9, <1>10, <1>11, <1>12

LEMMA UnloadSteps ==
    ASSUME Types, Witness, NEW t \in Threads, CallOf(t), CheckUnload(t) \/ Rmmod(t)
    PROVE  StepOf(t)
<1>1. Same /\ pc[t] \in {"unload", "rmmod"}
    BY DEF CheckUnload, Rmmod
<1>2. Fine(pc[t], call[t], seen[t], out[t])
    BY DEF CallOf
<1>3. loaded' \subseteq Modules
    BY DEF CheckUnload, Rmmod, Types, kernel, Unloads
<1>4. ASSUME Return(t, "error")
      PROVE  StepOf(t)
    <2>1. Only(t) /\ CallOf(t)' /\ Vouched(t) /\ pc'[t] = "idle"
        BY <1>4, PlainReturn
    <2> QED BY <1>1, <1>3, <2>1, QuietStep DEF StepOf
<1>5. ASSUME NEW value, NEW excused \in BOOLEAN,
             Module(t) \notin loaded' \/ excused, Unloaded(t, value, excused)
      PROVE  StepOf(t)
    <2>1. Only(t) /\ CallOf(t)' /\ Vouched(t) /\ pc'[t] \in {"idle", "check"}
        BY <1>1, <1>5, UnloadedStep
    <2> QED BY <1>1, <1>3, <2>1, QuietStep DEF StepOf
<1>6. CASE CheckUnload(t)
    <2>1. loaded' = loaded
        BY <1>6 DEF CheckUnload, kernel
    <2>2. CASE Return(t, "error")
        BY <1>4, <2>2
    <2>3. CASE Unloaded(t, "yes", Module(t) \in loaded)
        <3> DEFINE excused == Module(t) \in loaded
        <3>1. excused \in BOOLEAN /\ (Module(t) \notin loaded' \/ excused)
            BY <2>1
        <3>2. Unloaded(t, "yes", excused)
            BY <2>3
        <3> HIDE DEF excused
        <3> QED BY <1>5, <3>1, <3>2
    <2>4. CASE Proceed(t, "rmmod")
        <3>1. Belongs("rmmod", call[t].op)
            BY <1>1, <1>2 DEF Fine, Belongs, Loading
        <3>2. Only(t) /\ CallOf(t)' /\ Vouched(t) /\ pc'[t] = "rmmod"
            BY <1>1, <2>4, <3>1, ProceedStep DEF Loading
        <3> QED BY <1>1, <1>3, <3>2, QuietStep DEF StepOf
    <2> QED BY <1>6, <2>2, <2>3, <2>4 DEF CheckUnload
<1>7. CASE Rmmod(t)
    <2>1. CASE Return(t, "error")
        BY <1>4, <2>1
    <2>2. CASE Unloaded(t, "no", TRUE)
        BY <1>5, <2>2
    <2>3. CASE Unloads(Module(t)) /\ Unloaded(t, "yes", FALSE)
        BY <1>5, <2>3 DEF Unloads
    <2> QED BY <1>7, <2>1, <2>2, <2>3 DEF Rmmod
<1> QED BY <1>6, <1>7

LEMMA ReadyStep ==
    ASSUME Types, Witness, NEW t \in Threads, CallOf(t), CheckReady(t)
    PROVE  StepOf(t)
<1> DEFINE c == call[t]
<1>1. Same /\ pc[t] = "ready" /\ loaded' = loaded
    BY DEF CheckReady, kernel
<1>2. /\ Fine(pc[t], c, seen[t], out[t]) /\ c \in CallTypes
      /\ answer[t] = "none" /\ loaded \subseteq seen[t]
    BY <1>1 DEF CallOf, Fine
<1>3. c.op = "ready"
    BY <1>1, <1>2 DEF Fine, Belongs, Loading
<1>4. Progress(c, seen[t]) /\ c.failed = {}
    BY <1>2, <1>3 DEF Fine, Vouching
<1>5. PICK a \in Lsmod(c.module) :
          IF a # "yes" \/ c.todo = << >> THEN Return(t, a)
          ELSE /\ call' = [call EXCEPT ![t] = [c EXCEPT !.module = Head(c.todo),
                                                        !.todo = Tail(c.todo)]]
               /\ UNCHANGED <<pc, answer>>
    BY DEF CheckReady
<1>6. a = "yes" => c.module \in seen[t]
    BY <1>2, <1>5 DEF Lsmod
<1>7. CASE a # "yes"
    <2>1. Only(t) /\ CallOf(t)' /\ Vouched(t) /\ pc'[t] = "idle"
        BY <1>5, <1>7, PlainReturn
    <2> QED BY <1>1, <2>1, QuietStep DEF StepOf, Types
<1>8. CASE a = "yes" /\ c.todo = << >>
    <2>1. Only(t) /\ CallOf(t)' /\ pc'[t] = "idle"
        BY <1>5, <1>8, ReturnStep
    <2>2. \A i \in DOMAIN c.asked : c.asked[i] \in seen[t]
        BY <1>2, <1>4, <1>6, <1>8, WholeListSeen
    <2>3. Vouched(t)
        BY <1>3, <2>2 DEF Vouched
    <2> QED BY <1>1, <2>1, <2>3, QuietStep DEF StepOf, Types
<1>9. CASE a = "yes" /\ c.todo # << >>
    <2> DEFINE d == [c EXCEPT !.module = Head(c.todo), !.todo = Tail(c.todo)]
    <2>1. call' = [call EXCEPT ![t] = d] /\ pc' = pc /\ answer' = answer
        BY <1>5, <1>9
    <2>2. Head(c.todo) \in Modules /\ Tail(c.todo) \in Seq(Modules)
        <3>1. c.todo \in Seq(Modules)
            BY <1>2 DEF CallTypes
        <3> QED BY <1>9, <3>1
    <2>3. /\ d \in CallTypes /\ d.op = c.op /\ d.asked = c.asked
          /\ d.module = Head(c.todo) /\ d.todo = Tail(c.todo) /\ d.failed = c.failed
        BY <1>2, <2>2 DEF CallTypes
    <2> HIDE DEF d
    <2>4. seen[t] \subseteq seen'[t]
        BY <1>1, <2>1, WitnessSees
    <2>5. Fine("ready", d, seen'[t], out'[t])
        <3>1. Belongs("ready", c.op)
            BY <1>3 DEF Belongs
        <3> QED BY <1>2, <1>3, <1>4, <1>6, <1>9, <2>3, <2>4, <3>1, NextModuleIsFine
    <2>6. Only(t) /\ call'[t] = d
        BY <2>1 DEF Only, Types
    <2>7. CallOf(t)'
        BY <1>1, <1>2, <2>1, <2>5, <2>6, WitnessSees DEF CallOf
    <2>8. Vouched(t)
        BY <1>2, <2>1 DEF Vouched, Returns
    <2> QED BY <1>1, <2>1, <2>6, <2>7, <2>8, QuietStep DEF StepOf, Types
<1> QED BY <1>7, <1>8, <1>9

LEMMA InitializeSteps ==
    ASSUME Types, Witness, NEW t \in Threads, CallOf(t),
           \/ InitializeDkms(t) \/ CheckModule(t) \/ CheckAvailable(t)
           \/ CheckBlacklisted(t) \/ DryRun(t) \/ DryRunLoaded(t) \/ InsertModule(t)
           \/ Status(t)
    PROVE  StepOf(t)
<1> DEFINE c == call[t]
           checks == {"init_loaded", "init_available", "init_blacklisted",
                      "init_dry", "init_dry_loaded"}
<1>1. /\ loaded' = loaded /\ flag' = flag
      /\ pc[t] \in checks \cup {"initialize", "insert", "status"}
    BY DEF InitializeDkms, CheckModule, CheckAvailable, CheckBlacklisted, DryRun,
           DryRunLoaded, InsertModule, Status, Same, kernel
<1>2. Fine(pc[t], c, seen[t], out[t]) /\ c \in CallTypes
    BY DEF CallOf, Fine
<1>3. /\ pc[t] \in checks \cup {"insert"} => c.op \in {"with dkms", "with modprobe"}
      /\ c.op \notin Vouching /\ c.op # "lkm" /\ c.failed = {}
    BY <1>1, <1>2 DEF Fine, Belongs, Loading, Vouching
<1>4. pc'[t] # "flag" => FlagStep(t)
    BY <1>1 DEF FlagStep
<1>5. ASSUME NEW value, Return(t, value)
      PROVE  StepOf(t)
    <2>1. Only(t) /\ CallOf(t)' /\ Vouched(t) /\ pc'[t] = "idle"
        BY <1>3, <1>5, PlainReturn
    <2> QED BY <1>1, <1>4, <2>1 DEF StepOf, Types
<1>6. ASSUME NEW status \in {"Loaded", "Available", "NotAvailable", "Blacklisted"},
             pc[t] \in checks,
             status = "Loaded" => Module(t) \in loaded, Found(t, status)
      PROVE  StepOf(t)
    <2>1. Only(t) /\ CallOf(t)' /\ Vouched(t) /\ pc'[t] = "insert"
        BY <1>1, <1>3, <1>6, FoundStep
    <2> QED BY <1>1, <1>4, <2>1 DEF StepOf, Types
<1>7. ASSUME NEW place \in checks, pc[t] \in checks, Proceed(t, place)
      PROVE  StepOf(t)
    <2>1. /\ Belongs(place, c.op) /\ place \notin {"idle", "insert", "flag"}
          /\ place \notin Loading
        BY <1>3, <1>7 DEF Belongs, Loading
    <2>2. Only(t) /\ CallOf(t)' /\ Vouched(t) /\ pc'[t] = place
        BY <1>7, <2>1, ProceedStep
    <2> QED BY <1>1, <1>4, <2>1, <2>2 DEF StepOf, Types
<1>8. CASE InitializeDkms(t)
    <2>1. CASE Return(t, "error")
        BY <1>5, <2>1
    <2>2. CASE \E op \in {"with dkms", "with modprobe"} :
                  /\ call' = [call EXCEPT ![t].op = op]
                  /\ Goto(t, FirstCheck(op))
                  /\ UNCHANGED answer
        <3>1. PICK op \in {"with dkms", "with modprobe"} :
                  /\ call' = [call EXCEPT ![t].op = op]
                  /\ Goto(t, FirstCheck(op))
                  /\ UNCHANGED answer
            BY <2>2
        <3> DEFINE d == [c EXCEPT !.op = op]
                   q == FirstCheck(op)
        <3>2. call' = [call EXCEPT ![t] = d] /\ Goto(t, q)
            BY <3>1 DEF Types
        <3>3. q \in checks
            BY DEF FirstCheck
        <3>4. d \in CallTypes /\ d.op = op /\ d.failed = c.failed
            BY <1>2 DEF CallTypes
        <3> HIDE DEF d, q
        <3>5. Fine(q, d, seen'[t], out'[t])
            BY <1>3, <3>1, <3>3, <3>4 DEF Fine, Belongs, Loading, Vouching
        <3>6. Only(t) /\ CallOf(t)' /\ Vouched(t) /\ pc'[t] = q
            BY <1>1, <3>1, <3>2, <3>3, <3>5, ChangeStep
        <3> QED BY <1>1, <1>4, <3>3, <3>6 DEF StepOf, Types
    <2> QED BY <1>8, <2>1, <2>2 DEF InitializeDkms
<1>9. CASE CheckModule(t)
    <2>1. PICK a \in Lsmod(Module(t)) :
              CASE a = "error" -> Return(t, a)
                [] a = "yes" -> Found(t, "Loaded")
                [] a = "no" -> Proceed(t, "init_available")
        BY <1>9 DEF CheckModule
    <2>2. a \in {"yes", "no", "error"} /\ (a = "yes" => Module(t) \in loaded)
        BY <2>1 DEF Lsmod
    <2>3. pc[t] \in checks
        BY <1>9 DEF CheckModule
    <2> QED BY <1>5, <1>6, <1>7, <2>1, <2>2, <2>3
<1>10. CASE CheckAvailable(t)
    <2>1. PICK a \in Modinfo(Module(t)) :
              CASE a = "error" -> Return(t, a)
                [] a = "yes" -> Found(t, "Available")
                [] a = "no" -> Proceed(t, "init_blacklisted")
        BY <1>10 DEF CheckAvailable
    <2>2. a \in {"yes", "no", "error"}
        BY <2>1 DEF Modinfo
    <2>3. pc[t] \in checks
        BY <1>10 DEF CheckAvailable
    <2> QED BY <1>5, <1>6, <1>7, <2>1, <2>2, <2>3
<1>11. CASE CheckBlacklisted(t)
    <2>1. pc[t] \in checks
        BY <1>11 DEF CheckBlacklisted
    <2> QED BY <1>5, <1>6, <1>11, <2>1 DEF CheckBlacklisted
<1>12. CASE DryRun(t)
    <2>1. pc[t] \in checks
        BY <1>12 DEF DryRun
    <2>2. (IF Module(t) \in installed THEN "Available" ELSE "NotAvailable")
              \in {"Available", "NotAvailable"}
        OBVIOUS
    <2>3. \/ Proceed(t, "init_dry_loaded")
          \/ Found(t, IF Module(t) \in installed THEN "Available" ELSE "NotAvailable")
          \/ Found(t, "NotAvailable")
        BY <1>12 DEF DryRun
    <2>4. Proceed(t, "init_dry_loaded") \/ Found(t, "Available") \/ Found(t, "NotAvailable")
        BY <2>2, <2>3
    <2> QED BY <1>6, <1>7, <2>1, <2>4
<1>13. CASE DryRunLoaded(t)
    <2>1. PICK a \in Lsmod(Module(t)) :
              CASE a = "error" -> Return(t, a)
                [] a = "yes" -> Found(t, "Loaded")
                [] a = "no" -> Found(t, "Available")
        BY <1>13 DEF DryRunLoaded
    <2>2. a \in {"yes", "no", "error"} /\ (a = "yes" => Module(t) \in loaded)
        BY <2>1 DEF Lsmod
    <2>3. pc[t] \in checks
        BY <1>13 DEF DryRunLoaded
    <2> QED BY <1>5, <1>6, <2>1, <2>2, <2>3
<1>14. CASE InsertModule(t)
    <2>1. pc[t] = "insert"
        BY <1>14 DEF InsertModule
    <2>2. CASE c.todo = << >>
        BY <1>5, <1>14, <2>2 DEF InsertModule
    <2>3. CASE c.todo # << >>
        <3> DEFINE d == [c EXCEPT !.module = Head(c.todo), !.todo = Tail(c.todo)]
                   q == FirstCheck(c.op)
        <3>1. call' = [call EXCEPT ![t] = d] /\ Goto(t, q) /\ UNCHANGED answer
            BY <1>14, <2>3 DEF InsertModule
        <3>2. Head(c.todo) \in Modules /\ Tail(c.todo) \in Seq(Modules)
            <4>1. c.todo \in Seq(Modules)
                BY <1>2 DEF CallTypes
            <4> QED BY <2>3, <4>1
        <3>3. d \in CallTypes /\ d.op = c.op /\ d.failed = c.failed
            BY <1>2, <3>2 DEF CallTypes
        <3>4. q \in checks
            BY DEF FirstCheck
        <3> HIDE DEF d, q
        <3>5. Fine(q, d, seen'[t], out'[t])
            BY <1>3, <2>1, <3>3, <3>4 DEF Fine, Belongs, Loading, Vouching
        <3>6. Only(t) /\ CallOf(t)' /\ Vouched(t) /\ pc'[t] = q
            BY <2>1, <3>1, <3>4, <3>5, ChangeStep
        <3> QED BY <1>1, <1>4, <3>4, <3>6 DEF StepOf, Types
    <2> QED BY <2>2, <2>3
<1>15. CASE Status(t)
    BY <1>5, <1>15 DEF Status
<1> QED BY <1>8, <1>9, <1>10, <1>11, <1>12, <1>13, <1>14, <1>15

LEMMA LkmSteps ==
    ASSUME Types, Witness, NEW t \in Threads, CallOf(t),
           \/ LkmModprobe(t) \/ Insmod(t) \/ Flag(t)
           \/ LkmRmmod(t) \/ Unflag(t) \/ IsLoaded(t) \/ Register(t)
    PROVE  StepOf(t)
<1> DEFINE c == call[t]
           places == {"lkm_modprobe", "insmod", "flag", "lkm_rmmod", "unflag",
                      "is_loaded", "register"}
<1>1. pc[t] \in places
    BY DEF LkmModprobe, Insmod, Flag, LkmRmmod, Unflag, IsLoaded, Register, SetFlag
<1>2. Fine(pc[t], c, seen[t], out[t])
    BY DEF CallOf
<1>3. c.op \notin Vouching
    BY <1>1, <1>2 DEF Fine, Belongs, Loading, Vouching
<1>4. LkmModule \in Modules
    BY KernelModulesAssumption
<1>5. loaded' \subseteq Modules
    BY <1>4 DEF LkmModprobe, Insmod, Flag, LkmRmmod, Unflag, IsLoaded, Register,
                SetFlag, Types, kernel, Loads, Unloads
<1>6. ASSUME NEW value, Return(t, value)
      PROVE  Only(t) /\ CallOf(t)' /\ Vouched(t) /\ pc'[t] = "idle"
    BY <1>3, <1>6, PlainReturn
<1>7. ASSUME NEW place \in places, Belongs(place, c.op), Proceed(t, place)
      PROVE  Only(t) /\ CallOf(t)' /\ Vouched(t) /\ pc'[t] = place
    <2>1. place \notin {"idle", "insert"} /\ place \notin Loading
        BY DEF Loading
    <2> QED BY <1>1, <1>7, <2>1, ProceedStep
<1>8. ASSUME Same, pc[t] \notin {"lkm_rmmod", "unflag"}, NEW value, Return(t, value)
      PROVE  StepOf(t)
    <2>1. Only(t) /\ CallOf(t)' /\ Vouched(t) /\ pc'[t] = "idle"
        BY <1>6, <1>8
    <2> QED BY <1>5, <1>8, <2>1, QuietStep DEF StepOf
<1>9. ASSUME Same, pc[t] \notin {"lkm_rmmod", "unflag"},
             pc[t] \in {"lkm_modprobe", "insmod", "register"},
             \/ LkmModule \in loaded' \cup Silent
             \/ pc[t] = "register" /\ loaded' = loaded,
             Proceed(t, "flag")
      PROVE  StepOf(t)
    <2>1. Belongs("flag", c.op)
        BY <1>2, <1>9 DEF Fine, Belongs, Loading
    <2>2. Only(t) /\ CallOf(t)' /\ Vouched(t) /\ pc'[t] = "flag"
        BY <1>7, <1>9, <2>1
    <2> QED BY <1>5, <1>9, <2>2, QuietStep DEF StepOf
<1>10. CASE LkmModprobe(t)
    <2>1. Same /\ pc[t] = "lkm_modprobe"
        BY <1>10 DEF LkmModprobe
    <2>2. CASE Return(t, "error")
        BY <1>8, <2>1, <2>2
    <2>3. CASE Proceed(t, "insmod")
        <3>1. Belongs("insmod", c.op)
            BY <1>2, <2>1 DEF Fine, Belongs, Loading
        <3>2. Only(t) /\ CallOf(t)' /\ Vouched(t) /\ pc'[t] = "insmod"
            BY <1>7, <2>3, <3>1
        <3> QED BY <1>5, <2>1, <3>2, QuietStep DEF StepOf
    <2>4. CASE LkmModule \in Silent /\ Proceed(t, "flag")
        BY <1>9, <2>1, <2>4
    <2>5. CASE Loads(LkmModule) /\ Proceed(t, "flag")
        BY <1>9, <2>1, <2>5 DEF Loads
    <2> QED BY <1>10, <2>2, <2>3, <2>4, <2>5 DEF LkmModprobe
<1>11. CASE Insmod(t)
    <2>1. Same /\ pc[t] = "insmod"
        BY <1>11 DEF Insmod
    <2>2. CASE Return(t, "no")
        BY <1>8, <2>1, <2>2
    <2>3. CASE Loads(LkmModule) /\ Proceed(t, "flag")
        BY <1>9, <2>1, <2>3 DEF Loads
    <2> QED BY <1>11, <2>2, <2>3 DEF Insmod
<1>12. CASE Flag(t)
    <2>1. pc[t] = "flag" /\ flag' = TRUE /\ loaded' = loaded /\ Return(t, "yes")
        BY <1>12 DEF Flag, SetFlag, kernel
    <2>2. Only(t) /\ CallOf(t)' /\ Vouched(t) /\ pc'[t] = "idle"
        BY <1>6, <2>1
    <2> QED BY <1>5, <2>1, <2>2 DEF StepOf, FlagStep
<1>13. CASE LkmRmmod(t)
    <2>1. Same /\ pc[t] = "lkm_rmmod"
        BY <1>13 DEF LkmRmmod
    <2>2. CASE \E a \in {"error", "no"} : Return(t, a) /\ UNCHANGED kernel
        <3>1. Only(t) /\ CallOf(t)' /\ Vouched(t) /\ pc'[t] = "idle"
            BY <1>6, <2>2
        <3>2. loaded' = loaded
            BY <2>2 DEF kernel
        <3> QED BY <1>5, <2>1, <3>1, <3>2 DEF StepOf, FlagStep, Same
    <2>3. CASE Unloads(LkmModule) /\ Proceed(t, "unflag")
        <3>1. Belongs("unflag", c.op)
            BY <1>2, <2>1 DEF Fine, Belongs, Loading
        <3>2. Only(t) /\ CallOf(t)' /\ Vouched(t) /\ pc'[t] = "unflag"
            BY <1>7, <2>3, <3>1
        <3> QED BY <1>5, <2>1, <3>2 DEF StepOf, FlagStep, Same
    <2> QED BY <1>13, <2>2, <2>3 DEF LkmRmmod
<1>14. CASE Unflag(t)
    <2>1. pc[t] = "unflag" /\ flag' = FALSE /\ Return(t, "yes")
        BY <1>14 DEF Unflag, SetFlag
    <2>2. Only(t) /\ CallOf(t)' /\ Vouched(t) /\ pc'[t] = "idle"
        BY <1>6, <2>1
    <2> QED BY <1>5, <2>1, <2>2 DEF StepOf, FlagStep
<1>15. CASE IsLoaded(t)
    <2>1. Same /\ pc[t] = "is_loaded"
        BY <1>15 DEF IsLoaded
    <2>2. \E a \in {"yes", "no", "error"} : Return(t, a)
        BY <1>15 DEF IsLoaded, Lsmod
    <2> QED BY <1>8, <2>1, <2>2
<1>16. CASE Register(t)
    <2>1. Same /\ pc[t] = "register" /\ loaded' = loaded
        BY <1>16 DEF Register, kernel
    <2>2. CASE Return(t, "no")
        BY <1>8, <2>1, <2>2
    <2>3. CASE Proceed(t, "flag")
        BY <1>9, <2>1, <2>3
    <2> QED BY <1>16, <2>2, <2>3 DEF Register
<1> QED BY <1>10, <1>11, <1>12, <1>13, <1>14, <1>15, <1>16

LEMMA StartSteps ==
    ASSUME Types, Witness, NEW t \in Threads, Start(t)
    PROVE  StepOf(t)
<1>1. ASSUME NEW op, NEW list \in Seq(Modules), list # << >>, NEW place,
             Belongs(place, op), place \notin {"idle", "insert", "flag"},
             op \in {"load", "params", "reload", "lkm"} => Len(list) = 1,
             op = "lkm" => list[1] = LkmModule,
             op = "reload" => place \notin Loading,
             Begin(t, op, list, place)
      PROVE  StepOf(t)
    <2> DEFINE d == Call(op, list)
    <2>1. /\ pc[t] = "idle" /\ pc'[t] = place /\ call'[t] = d /\ answer'[t] = "none"
          /\ Only(t) /\ loaded' = loaded /\ flag' = flag
        BY <1>1 DEF Begin, Goto, Types, Only, kernel
    <2>2. Fine(place, d, seen'[t], out'[t])
        BY <1>1, NewCallIsFine
    <2> HIDE DEF d
    <2>3. CallOf(t)'
        BY <1>1, <2>1, <2>2, WitnessSees DEF CallOf
    <2>4. Vouched(t) /\ FlagStep(t)
        BY <1>1, <2>1 DEF Vouched, Returns, FlagStep
    <2> QED BY <2>1, <2>3, <2>4 DEF StepOf, Types
<1>2. \A m \in Modules : /\ <<m>> \in Seq(Modules) /\ <<m>> # << >>
                         /\ Len(<<m>>) = 1 /\ <<m>>[1] = m
    OBVIOUS
<1>3. /\ LkmModule \in Modules
      /\ Definitions \in Seq(Modules) /\ Definitions # << >>
      /\ \A list \in ModuleLists : list \in Seq(Modules) /\ list # << >>
    BY KernelModulesAssumption
<1>4. ASSUME NEW m \in Modules, NEW op \in {"load", "params"},
             Begin(t, op, <<m>>, "check")
      PROVE  StepOf(t)
    <2>1. Belongs("check", op)
        BY DEF Belongs, Loading
    <2> QED BY <1>1, <1>2, <1>4, <2>1
<1>5. ASSUME NEW m \in Modules, NEW op \in {"unload", "reload"},
             Begin(t, op, <<m>>, "unload")
      PROVE  StepOf(t)
    <2>1. Belongs("unload", op) /\ "unload" \notin Loading
        BY DEF Belongs, Loading
    <2> QED BY <1>1, <1>2, <1>5, <2>1
<1>6. ASSUME NEW list \in ModuleLists, Begin(t, "ensure", list, "check")
      PROVE  StepOf(t)
    <2>1. Belongs("check", "ensure")
        BY DEF Belongs, Loading
    <2> QED BY <1>1, <1>3, <1>6, <2>1
<1>7. ASSUME NEW list \in ModuleLists, Begin(t, "ready", list, "ready")
      PROVE  StepOf(t)
    <2>1. Belongs("ready", "ready")
        BY DEF Belongs
    <2> QED BY <1>1, <1>3, <1>7, <2>1
<1>8. ASSUME Begin(t, "initialize", Definitions, "initialize")
      PROVE  StepOf(t)
    <2>1. Belongs("initialize", "initialize")
        BY DEF Belongs
    <2> QED BY <1>1, <1>3, <1>8, <2>1
<1>9. ASSUME Begin(t, "status", Definitions, "status")
      PROVE  StepOf(t)
    <2>1. Belongs("status", "status")
        BY DEF Belongs
    <2> QED BY <1>1, <1>3, <1>9, <2>1
<1>10. ASSUME Begin(t, "lkm", <<LkmModule>>, "check")
       PROVE  StepOf(t)
    <2>1. Belongs("check", "lkm")
        BY DEF Belongs, Loading
    <2> QED BY <1>1, <1>2, <1>3, <1>10, <2>1
<1>11. ASSUME NEW op \in {"is_loaded", "register"}, Begin(t, op, <<LkmModule>>, op)
       PROVE  StepOf(t)
    <2>1. Belongs(op, op) /\ op \notin {"idle", "insert", "flag"}
        BY DEF Belongs
    <2>2. op \notin {"load", "params", "reload", "lkm"}
        OBVIOUS
    <2> QED BY <1>1, <1>2, <1>3, <1>11, <2>1, <2>2
<1>12. ASSUME Begin(t, "lkm_unload", <<LkmModule>>, "lkm_rmmod")
       PROVE  StepOf(t)
    <2>1. Belongs("lkm_rmmod", "lkm_unload")
        BY DEF Belongs
    <2> QED BY <1>1, <1>2, <1>3, <1>12, <2>1
<1>13. CASE \E m \in Modules : \E op \in {"load", "params"} :
                Begin(t, op, <<m>>, "check")
    BY <1>4, <1>13
<1>14. CASE \E m \in Modules : \E op \in {"unload", "reload"} :
                Begin(t, op, <<m>>, "unload")
    BY <1>5, <1>14
<1>15. CASE \E list \in ModuleLists :
                \/ Begin(t, "ensure", list, "check")
                \/ Begin(t, "ready", list, "ready")
    BY <1>6, <1>7, <1>15
<1>16. CASE \/ Begin(t, "is_loaded", <<LkmModule>>, "is_loaded")
            \/ Begin(t, "register", <<LkmModule>>, "register")
    BY <1>11, <1>16
<1> QED BY <1>8, <1>9, <1>10, <1>12, <1>13, <1>14, <1>15, <1>16 DEF Start

LEMMA ThreadSteps ==
    ASSUME Types, EveryCall, Witness, NEW t \in Threads, Start(t) \/ Continue(t)
    PROVE  StepOf(t)
<1>1. CallOf(t)
    BY DEF EveryCall
<1> QED BY <1>1, StartSteps, LoadingSteps, UnloadSteps, ReadyStep, InitializeSteps,
           LkmSteps DEF Continue

-----------------------------------------------------------------------------

LEMMA InitIInv == Init => IInv
<1> SUFFICES ASSUME Init PROVE IInv
    OBVIOUS
<1>1. Types
    BY DEF Init, Types
<1>2. \A t \in Threads : pc[t] = "idle" /\ call[t] = NoCall
    BY DEF Init
<1>3. EveryCall
    BY <1>2, NoCallIsFine DEF EveryCall, CallOf
<1>4. PendingFlag /\ StaleFlagHasCause
    BY <1>2 DEF Init, PendingFlag, StaleFlagHasCause
<1> QED BY <1>1, <1>3, <1>4 DEF IInv

(* What a thread that does not move makes of the step of another.          *)
LEMMA OtherCalls ==
    ASSUME Types, Witness, NEW u \in Threads, CallOf(u),
           pc'[u] = pc[u], call'[u] = call[u], answer'[u] = answer[u]
    PROVE  CallOf(u)'
<1>1. CASE pc[u] = "idle"
    <2>1. call[u].op = "none"
        BY <1>1 DEF CallOf, Fine, Belongs, Loading
    <2>2. Fine("idle", call[u], seen'[u], out'[u])
        BY <1>1, <2>1 DEF CallOf, Fine, Vouching
    <2> QED BY <1>1, <2>2 DEF CallOf
<1>2. CASE pc[u] # "idle"
    <2>1. /\ loaded' \subseteq seen'[u] /\ Modules \ loaded' \subseteq out'[u]
          /\ seen[u] \subseteq seen'[u] /\ out[u] \subseteq out'[u]
        BY <1>2, WitnessSees
    <2>2. Fine(pc[u], call[u], seen[u], out[u]) /\ Belongs(pc[u], call[u].op)
        BY DEF CallOf, Fine
    <2>3. Fine(pc[u], call[u], seen'[u], out'[u])
        BY <2>1, <2>2, FineKeeps
    <2> QED BY <1>2, <2>1, <2>3 DEF CallOf
<1> QED BY <1>1, <1>2

LEMMA NextIInv == IInv /\ [Next]_vars => IInv'
<1> SUFFICES ASSUME IInv, [Next]_vars PROVE IInv'
    OBVIOUS
<1> USE DEF IInv
<1>1. CASE Outside /\ Witness
    <2>1. /\ pc' = pc /\ call' = call /\ answer' = answer /\ flag' = flag
          /\ loaded' \subseteq Modules
        BY <1>1 DEF Outside, Types, Loads, Unloads
    <2>2. Types'
        BY <1>1, <2>1 DEF Types, Witness
    <2>3. EveryCall'
        BY <1>1, <2>1, OtherCalls DEF EveryCall
    <2>4. LkmModule \in loaded \ loaded' => cause' = "others"
        BY <1>1, <2>1 DEF Witness
    <2>5. LkmModule \notin loaded \cup loaded' => cause' \in {cause, "listed"}
        BY <1>1 DEF Witness
    <2>6. PendingFlag'
        BY <2>1, <2>4, <2>5 DEF PendingFlag
    <2>7. StaleFlagHasCause'
        BY <2>1, <2>4, <2>5 DEF StaleFlagHasCause
    <2> QED BY <2>2, <2>3, <2>6, <2>7
<1>2. ASSUME NEW t \in Threads, Start(t) \/ Continue(t), Witness
      PROVE  IInv'
    <2>1. Only(t) /\ loaded' \subseteq Modules /\ CallOf(t)' /\ FlagStep(t)
        BY <1>2, ThreadSteps DEF StepOf
    <2>2. Types'
        BY <1>2, <2>1 DEF Types, Witness, Only
    <2>3. EveryCall'
        BY <1>2, <2>1, OtherCalls DEF EveryCall, Only
    <2>4. LkmModule \notin loaded \cup loaded' =>
              /\ cause' \in {cause, "listed"}
              /\ pc[t] = "register" /\ pc'[t] = "flag" => cause' = "listed"
        BY <1>2 DEF Witness
    <2>5. LkmModule \in loaded \ loaded' =>
              \/ cause' \in {"others", "raced"}
              \/ /\ pc'[t] = "unflag"
                 /\ \A u \in Threads : call[u].op \notin {"lkm", "register"}
        <3>1. SUFFICES ASSUME LkmModule \in loaded \ loaded',
                              cause' \notin {"others", "raced"}
                       PROVE  /\ pc'[t] = "unflag"
                              /\ \A u \in Threads : call[u].op \notin {"lkm", "register"}
            OBVIOUS
        <3>2. /\ \E u \in Threads : pc[u] = "lkm_rmmod" /\ pc'[u] # pc[u]
              /\ \A u \in Threads : call[u].op \notin {"lkm", "register"}
            BY <1>2, <3>1 DEF Witness
        <3>3. pc[t] = "lkm_rmmod"
            BY <2>1, <3>2 DEF Only
        <3> QED BY <2>1, <3>1, <3>2, <3>3 DEF FlagStep
    <2>6. PendingFlag'
        <3>1. SUFFICES ASSUME NEW u \in Threads, pc'[u] = "flag",
                              LkmModule \notin loaded' \cup Silent
                       PROVE  cause' # "none"
            BY DEF PendingFlag
        <3>5. CASE u = t
            <4>1. pc[t] = "register" /\ LkmModule \notin loaded \cup loaded'
                BY <2>1, <3>1, <3>5 DEF FlagStep
            <4> QED BY <2>4, <3>1, <3>5, <4>1
        <3> SUFFICES ASSUME u # t PROVE cause' # "none"
            BY <3>5
        <3>2. pc[u] = "flag"
            BY <2>1, <3>1 DEF Only
        <3>3. call[u].op \in {"lkm", "register"}
            BY <3>2 DEF EveryCall, CallOf, Fine, Belongs, Loading
        <3>4. LkmModule \in loaded \/ cause # "none"
            BY <3>1, <3>2 DEF PendingFlag
        <3> QED BY <2>4, <2>5, <3>1, <3>3, <3>4
    <2>7. StaleFlagHasCause'
        <3>1. SUFFICES ASSUME flag' = TRUE, LkmModule \notin loaded', LkmModule \notin Silent,
                              ~ \E u \in Threads : pc'[u] = "unflag",
                              cause' = "none"
                       PROVE  FALSE
            BY DEF StaleFlagHasCause
        <3>2. LkmModule \notin loaded /\ cause = "none"
            BY <1>2, <2>4, <2>5, <3>1
        <3>3. CASE flag' = flag /\ pc[t] # "unflag"
            <4>1. PICK u \in Threads : pc[u] = "unflag"
                BY <3>1, <3>2, <3>3 DEF StaleFlagHasCause
            <4>2. pc'[u] = "unflag"
                BY <2>1, <3>3, <4>1 DEF Only
            <4> QED BY <3>1, <4>2
        <3>4. CASE pc[t] = "flag"
            BY <1>2, <3>1, <3>2, <3>4 DEF PendingFlag
        <3> QED BY <2>1, <3>1, <3>3, <3>4 DEF FlagStep
    <2> QED BY <2>2, <2>3, <2>6, <2>7
<1>3. CASE UNCHANGED vars
    BY <1>3 DEF vars, kernel, Types, EveryCall, CallOf, PendingFlag, StaleFlagHasCause
<1> QED BY <1>1, <1>2, <1>3 DEF Next

(* The type invariant: calls have their types and are only at places of    *)
(* their own; who goes through a list has the module at hand behind what   *)
(* was seen in the kernel or has failed, and only                          *)
(* ensure_required_modules goes on after a failure.                        *)
THEOREM TypeCorrect == Spec => [](Types /\ EveryCall)
<1>1. IInv => Types /\ EveryCall
    BY DEF IInv
<1> QED BY <1>1, InitIInv, NextIInv, PTL DEF Spec

(* The flag of LkmManager: it stays up without the module only while an    *)
(* unload is about to clear it, for a module that modprobe loads silently, *)
(* when somebody else, or an unload beside a load, took the module, or     *)
(* when register_lsm found its name in the list of active LSMs.            *)
THEOREM StaleFlagIsExplained == Spec => []StaleFlagHasCause
<1>1. IInv => StaleFlagHasCause
    BY DEF IInv
<1> QED BY <1>1, InitIInv, NextIInv, PTL DEF Spec

(* Who answers is the thread that moved.                                   *)
LEMMA AnswerIsVouchedFor ==
    ASSUME IInv, Next, NEW t \in Threads
    PROVE  Vouched(t)
<1> SUFFICES ASSUME pc[t] # "idle", answer'[t] = "yes" PROVE Vouched(t)
    BY DEF Vouched, Returns
<1>1. answer[t] = "none"
    BY DEF IInv, EveryCall, CallOf
<1>2. ~ Outside
    BY <1>1 DEF Outside
<1>3. PICK u \in Threads : (Start(u) \/ Continue(u)) /\ Witness
    BY <1>2 DEF Next
<1>4. StepOf(u)
    BY <1>3, ThreadSteps DEF IInv
<1>5. u = t
    BY <1>1, <1>4 DEF StepOf, Only
<1> QED BY <1>4, <1>5 DEF StepOf

(* No answer without having seen the module: load_module, reload_module,   *)
(* ensure_required_modules, is_xdp_ready, and Loaded in the table.         *)
THEOREM AnswersAreSeen == Spec => AnswersWereSeen
<1> DEFINE Seen(t) ==
        /\ Returns(t, "yes") /\ call[t].op \in
                 {"load", "params", "reload", "ensure", "ready"}
              => \A i \in DOMAIN call[t].asked : call[t].asked[i] \in seen[t]
        /\ pc[t] = "insert" /\ call[t].status = "Loaded"
              => Module(t) \in seen[t]
<1>1. IInv /\ [Next]_vars => [\A t \in Threads : Seen(t)]_vars
    <2> SUFFICES ASSUME IInv, Next, NEW t \in Threads PROVE Seen(t)
        OBVIOUS
    <2>1. pc[t] = "insert" /\ call[t].status = "Loaded" => Module(t) \in seen[t]
        BY DEF IInv, EveryCall, CallOf, Fine, Module
    <2>2. Vouched(t)
        BY AnswerIsVouchedFor
    <2> QED BY <2>1, <2>2 DEF Vouched, Vouching
<1> QED BY <1>1, InitIInv, NextIInv, PTL DEF Spec, AnswersWereSeen

(* reload_module that answers true has seen the old module gone, or an     *)
(* unload it did not insist on.                                            *)
THEOREM ReloadsAreExcused == Spec => ReloadExcused
<1> DEFINE Excused(t) ==
        Returns(t, "yes") /\ call[t].op = "reload"
            => Module(t) \in out[t] \/ call[t].excused
<1>1. IInv /\ [Next]_vars => [\A t \in Threads : Excused(t)]_vars
    <2> SUFFICES ASSUME IInv, Next, NEW t \in Threads PROVE Excused(t)
        OBVIOUS
    <2>1. Vouched(t)
        BY AnswerIsVouchedFor
    <2> QED BY <2>1 DEF Vouched
<1> QED BY <1>1, InitIInv, NextIInv, PTL DEF Spec, ReloadExcused

=============================================================================
