---------------------------- MODULE KernelModules ---------------------------
(***************************************************************************)
(* src/dkms.rs and the LkmManager of src/lsm.rs: threads that share a      *)
(* DkmsManager, and an LkmManager whose load goes through load_module of a *)
(* manager of its own.  All of it is done by external commands, and a step *)
(* is one of them, or one critical section; between two steps the other    *)
(* threads, and administrators, change the kernel.  A manager that is not  *)
(* enabled returns at once and is left out.                                *)
(***************************************************************************)
EXTENDS Integers, Sequences, FiniteSets

CONSTANTS
    Threads,
    Modules,
    Definitions,    \* DkmsConfig.modules, the names
    ModuleLists,    \* the required modules, and XdpDkmsManager.xdp_modules
    LkmModule,      \* LsmConfig.module_name
    Silent,         \* modules modprobe accepts without one appearing in lsmod:
                    \* built in, or replaced by /bin/true
    MaxCalls,       \* bound on the calls
    MaxOutside      \* bound on the changes made by administrators

ASSUME KernelModulesAssumption ==
    /\ LkmModule \in Modules
    /\ Definitions \in Seq(Modules) /\ Definitions # << >>
    /\ ModuleLists \subseteq Seq(Modules) \ {<< >>}
    /\ Silent \subseteq Modules
    /\ {MaxCalls, MaxOutside} \subseteq Nat

VARIABLES
    loaded,         \* the modules lsmod lists
    installed,      \* the modules modinfo finds
    table,          \* DkmsManager.modules, the status of each name
    flag,           \* LkmManager.module_loaded
    pc,             \* where each thread is
    call,           \* the call each thread is in
    answer,         \* what the last call of each thread returned
    calls, outside, \* counted for the bounds
    seen,           \* history: the modules loaded at some time of a call
    out,            \* history: those missing at some time of it
    cause           \* history: why LkmManager may believe in LkmModule
                    \* while it is not loaded

kernel == <<loaded, installed>>
vars == <<kernel, table, flag, pc, call, answer, calls, outside, seen, out, cause>>

Answers == {"yes", "no", "error"}

(* op: what was called; module: the one at hand; todo: those after it;     *)
(* failed: those that were not loaded; status: what initialize found;      *)
(* excused: an unload was refused, or lsmod failed.                        *)
Call(op, list) ==
    [op |-> op, module |-> Head(list), todo |-> Tail(list), asked |-> list,
     failed |-> {}, status |-> "none", excused |-> FALSE]

NoCall == [Call("none", <<LkmModule>>) EXCEPT !.asked = << >>]

Init ==
    /\ loaded \in SUBSET Modules
    /\ installed \in {S \in SUBSET Modules : loaded \subseteq S}
    /\ table = << >>
    /\ flag = FALSE
    /\ pc = [t \in Threads |-> "idle"]
    /\ call = [t \in Threads |-> NoCall]
    /\ answer = [t \in Threads |-> "none"]
    /\ calls = 0
    /\ outside = 0
    /\ seen = [t \in Threads |-> {}]
    /\ out = [t \in Threads |-> {}]
    /\ cause = "none"

Goto(t, place) == pc' = [pc EXCEPT ![t] = place]

Module(t) == call[t].module
Loads(module) == loaded' = loaded \cup {module} /\ UNCHANGED installed
Unloads(module) == loaded' = loaded \ {module} /\ UNCHANGED installed

(* What a command may do to its caller: lsmod may fail to start, and when  *)
(* it exits with an error its empty list counts.                           *)
Lsmod(module) ==
    {"error", "no"} \cup (IF module \in loaded THEN {"yes"} ELSE {})

Modinfo(module) == {"error", IF module \in installed THEN "yes" ELSE "no"}

(* DkmsManager.modules is locked while get_status asks for the version of  *)
(* dkms, and module_loaded while is_loaded runs lsmod.                     *)
TableFree == \A t \in Threads : pc[t] # "status"
FlagFree == \A t \in Threads : pc[t] # "is_loaded"

Return(t, value) ==
    /\ Goto(t, "idle")
    /\ answer' = [answer EXCEPT ![t] = value]
    /\ call' = [call EXCEPT ![t] = NoCall]

Proceed(t, place) == Goto(t, place) /\ UNCHANGED <<call, answer>>

(* Only the call moves on, or only it and the kernel.                      *)
Same == UNCHANGED <<table, flag, calls, outside>>

Begin(t, op, list, place) ==
    /\ pc[t] = "idle"
    /\ calls < MaxCalls
    /\ calls' = calls + 1
    /\ call' = [call EXCEPT ![t] = Call(op, list)]
    /\ answer' = [answer EXCEPT ![t] = "none"]
    /\ Goto(t, place)
    /\ UNCHANGED <<kernel, table, flag, outside>>

-----------------------------------------------------------------------------

(* What becomes of the answer of load_module: it is the caller's own, or   *)
(* the next of the modules that must be there is loaded, or LkmManager     *)
(* goes on.  An error ends the whole call.                                 *)
Loaded(t, value) ==
    LET c == call[t]
        failed == IF value = "yes" THEN c.failed ELSE c.failed \cup {c.module}
    IN  CASE c.op \in {"load", "params", "reload"} -> Return(t, value)
          [] c.op = "lkm" ->
                Proceed(t, IF value = "yes" THEN "flag" ELSE "lkm_modprobe")
          [] c.op = "ensure" /\ c.todo = << >> ->
                Return(t, IF failed = {} THEN "yes" ELSE "error")
          [] c.op = "ensure" /\ c.todo # << >> ->
                /\ call' = [call EXCEPT ![t] =
                               [c EXCEPT !.module = Head(c.todo),
                                         !.todo = Tail(c.todo),
                                         !.failed = failed]]
                /\ Goto(t, "check")
                /\ UNCHANGED answer

(* load_module and load_module_with_params.                                *)
CheckLoaded(t) ==
    /\ pc[t] = "check"
    /\ \/ "error" \in Lsmod(Module(t)) /\ Return(t, "error")
       \/ "yes" \in Lsmod(Module(t)) /\ Loaded(t, "yes")
       \/ "no" \in Lsmod(Module(t)) /\ Proceed(t, "modprobe")
    /\ UNCHANGED kernel /\ Same

Modprobe(t) ==
    /\ pc[t] = "modprobe"
    /\ \/ UNCHANGED kernel /\ Return(t, "error")
       \/ /\ UNCHANGED kernel
          /\ IF call[t].op = "params" THEN Return(t, "no") ELSE Proceed(t, "dkms")
       \/ Module(t) \in Silent /\ UNCHANGED kernel /\ Proceed(t, "verify")
       \/ Module(t) \in installed \ Silent /\ Loads(Module(t)) /\ Proceed(t, "verify")
    /\ Same

(* A bug for the runs to find: success of the command is taken for it.     *)
VerifyTrusting(t) ==
    /\ pc[t] = "verify"
    /\ Loaded(t, "yes")
    /\ UNCHANGED kernel /\ Same

Verify(t) ==
    /\ pc[t] = "verify"
    /\ \E a \in Lsmod(Module(t)) :
           IF a = "error" THEN Return(t, a) ELSE Loaded(t, a)
    /\ UNCHANGED kernel /\ Same

IsDkmsAvailable(t) ==
    /\ pc[t] = "dkms"
    /\ Return(t, "error") \/ Loaded(t, "no") \/ Proceed(t, "install")
    /\ UNCHANGED kernel /\ Same

(* dkms install makes the module known and loads nothing.                  *)
DkmsInstall(t) ==
    /\ pc[t] = "install"
    /\ \/ Loaded(t, "no") /\ UNCHANGED installed
       \/ Proceed(t, "verify") /\ installed' = installed \cup {Module(t)}
    /\ UNCHANGED loaded /\ Same

-----------------------------------------------------------------------------

(* What becomes of the answer of unload_module; reload_module only minds   *)
(* an error.                                                               *)
Unloaded(t, value, excused) ==
    IF call[t].op = "reload"
    THEN /\ call' = [call EXCEPT ![t].excused = excused]
         /\ Goto(t, "check")
         /\ UNCHANGED answer
    ELSE Return(t, value)

(* A bug for the runs to find: the test is the wrong way round.            *)
CheckUnloadInverted(t) ==
    /\ pc[t] = "unload"
    /\ \/ Return(t, "error")
       \/ Proceed(t, "rmmod")
       \/ Module(t) \in loaded /\ Unloaded(t, "yes", FALSE)
    /\ UNCHANGED kernel /\ Same

(* unload_module.                                                          *)
CheckUnload(t) ==
    /\ pc[t] = "unload"
    /\ \/ Return(t, "error")
       \/ Unloaded(t, "yes", Module(t) \in loaded)
       \/ Module(t) \in loaded /\ Proceed(t, "rmmod")
    /\ UNCHANGED kernel /\ Same

Rmmod(t) ==
    /\ pc[t] = "rmmod"
    /\ \/ Return(t, "error") /\ UNCHANGED kernel
       \/ Unloaded(t, "no", TRUE) /\ UNCHANGED kernel
       \/ Module(t) \in loaded /\ Unloads(Module(t)) /\ Unloaded(t, "yes", FALSE)
    /\ Same

(* is_xdp_ready: one lsmod for each module.                                *)
CheckReady(t) ==
    LET c == call[t]
    IN  /\ pc[t] = "ready"
        /\ \E a \in Lsmod(c.module) :
              IF a # "yes" \/ c.todo = << >> THEN Return(t, a)
              ELSE /\ call' = [call EXCEPT ![t] = [c EXCEPT !.module = Head(c.todo),
                                                            !.todo = Tail(c.todo)]]
                   /\ UNCHANGED <<pc, answer>>
        /\ UNCHANGED kernel /\ Same

-----------------------------------------------------------------------------

(* initialize: with dkms, check_module of every definition, without,       *)
(* check_module_with_modprobe.                                             *)
Found(t, status) ==
    /\ call' = [call EXCEPT ![t].status = status]
    /\ Goto(t, "insert")
    /\ UNCHANGED answer

FirstCheck(op) == IF op = "with dkms" THEN "init_loaded" ELSE "init_dry"

InitializeDkms(t) ==
    /\ pc[t] = "initialize"
    /\ \/ Return(t, "error")
       \/ \E op \in {"with dkms", "with modprobe"} :
             /\ call' = [call EXCEPT ![t].op = op]
             /\ Goto(t, FirstCheck(op))
             /\ UNCHANGED answer
    /\ UNCHANGED kernel /\ Same

CheckModule(t) ==
    /\ pc[t] = "init_loaded"
    /\ \E a \in Lsmod(Module(t)) :
          CASE a = "error" -> Return(t, a)
            [] a = "yes" -> Found(t, "Loaded")
            [] a = "no" -> Proceed(t, "init_available")
    /\ UNCHANGED kernel /\ Same

CheckAvailable(t) ==
    /\ pc[t] = "init_available"
    /\ \E a \in Modinfo(Module(t)) :
          CASE a = "error" -> Return(t, a)
            [] a = "yes" -> Found(t, "Available")
            [] a = "no" -> Proceed(t, "init_blacklisted")
    /\ UNCHANGED kernel /\ Same

CheckBlacklisted(t) ==
    /\ pc[t] = "init_blacklisted"
    /\ Return(t, "error") \/ Found(t, "Blacklisted") \/ Found(t, "NotAvailable")
    /\ UNCHANGED kernel /\ Same

DryRun(t) ==
    /\ pc[t] = "init_dry"
    /\ \/ Module(t) \in installed \cup Silent /\ Proceed(t, "init_dry_loaded")
       \/ Found(t, IF Module(t) \in installed THEN "Available" ELSE "NotAvailable")
       \/ Found(t, "NotAvailable")
    /\ UNCHANGED kernel /\ Same

DryRunLoaded(t) ==
    /\ pc[t] = "init_dry_loaded"
    /\ \E a \in Lsmod(Module(t)) :
          CASE a = "error" -> Return(t, a)
            [] a = "yes" -> Found(t, "Loaded")
            [] a = "no" -> Found(t, "Available")
    /\ UNCHANGED kernel /\ Same

(* The table is locked for one entry at a time.                            *)
InsertModule(t) ==
    LET c == call[t]
    IN  /\ pc[t] = "insert"
        /\ TableFree
        /\ table' = [m \in DOMAIN table \cup {c.module} |->
                        IF m = c.module THEN c.status ELSE table[m]]
        /\ IF c.todo = << >> THEN Return(t, "yes")
           ELSE /\ call' = [call EXCEPT ![t] = [c EXCEPT !.module = Head(c.todo),
                                                         !.todo = Tail(c.todo)]]
                /\ Goto(t, FirstCheck(c.op))
                /\ UNCHANGED answer
        /\ UNCHANGED <<kernel, flag, calls, outside>>

(* get_status, when its command has returned.                              *)
Status(t) ==
    /\ pc[t] = "status"
    /\ Return(t, "yes")
    /\ UNCHANGED kernel /\ Same

-----------------------------------------------------------------------------

(* LkmManager::load, after load_module said no.                            *)
LkmModprobe(t) ==
    /\ pc[t] = "lkm_modprobe"
    /\ \/ Return(t, "error") /\ UNCHANGED kernel
       \/ Proceed(t, "insmod") /\ UNCHANGED kernel
       \/ LkmModule \in Silent /\ Proceed(t, "flag") /\ UNCHANGED kernel
       \/ LkmModule \in installed \ Silent /\ Loads(LkmModule) /\ Proceed(t, "flag")
    /\ Same

Insmod(t) ==
    /\ pc[t] = "insmod"
    /\ \/ Return(t, "no") /\ UNCHANGED kernel
       \/ LkmModule \notin loaded /\ Loads(LkmModule) /\ Proceed(t, "flag")
    /\ Same

SetFlag(t, place, value) ==
    /\ pc[t] = place
    /\ FlagFree
    /\ flag' = value
    /\ Return(t, "yes")
    /\ UNCHANGED <<kernel, table, calls, outside>>

Flag(t) == SetFlag(t, "flag", TRUE)
Unflag(t) == SetFlag(t, "unflag", FALSE)

(* A bug for the runs to find: the module goes and the flag stays.         *)
LkmRmmodOnly(t) ==
    /\ pc[t] = "lkm_rmmod"
    /\ LkmModule \in loaded /\ Unloads(LkmModule) /\ Return(t, "yes")
    /\ Same

(* LkmManager::unload.                                                     *)
LkmRmmod(t) ==
    /\ pc[t] = "lkm_rmmod"
    /\ \/ \E a \in {"error", "no"} : Return(t, a) /\ UNCHANGED kernel
       \/ LkmModule \in loaded /\ Unloads(LkmModule) /\ Proceed(t, "unflag")
    /\ Same

(* is_loaded asks lsmod only when the flag is not set.                     *)
IsLoaded(t) ==
    /\ pc[t] = "is_loaded"
    /\ \E a \in IF flag THEN {"yes"} ELSE Lsmod(LkmModule) : Return(t, a)
    /\ UNCHANGED kernel /\ Same

(* register_lsm looks for lsm_name in the kernel's list of active LSMs and *)
(* asks nothing of the module, which has another name: the list may hold   *)
(* the name, or miss it, whatever lsmod lists.                             *)
Register(t) ==
    /\ pc[t] = "register"
    /\ Return(t, "no") \/ Proceed(t, "flag")
    /\ UNCHANGED kernel /\ Same

-----------------------------------------------------------------------------

Start(t) ==
    \/ \E m \in Modules : \E op \in {"load", "params"} : Begin(t, op, <<m>>, "check")
    \/ \E m \in Modules : \E op \in {"unload", "reload"} : Begin(t, op, <<m>>, "unload")
    \/ \E list \in ModuleLists : Begin(t, "ensure", list, "check")
    \/ \E list \in ModuleLists : Begin(t, "ready", list, "ready")
    \/ Begin(t, "initialize", Definitions, "initialize")
    \/ TableFree /\ Begin(t, "status", Definitions, "status")
    \/ Begin(t, "lkm", <<LkmModule>>, "check")
    \/ Begin(t, "lkm_unload", <<LkmModule>>, "lkm_rmmod")
    \/ FlagFree /\ Begin(t, "is_loaded", <<LkmModule>>, "is_loaded")
    \/ Begin(t, "register", <<LkmModule>>, "register")

(* The steps of a call that has begun.                                     *)
Continue(t) ==
    \/ CheckLoaded(t) \/ Modprobe(t) \/ Verify(t)
    \/ IsDkmsAvailable(t) \/ DkmsInstall(t)
    \/ CheckUnload(t) \/ Rmmod(t) \/ CheckReady(t)
    \/ InitializeDkms(t) \/ CheckModule(t) \/ CheckAvailable(t)
    \/ CheckBlacklisted(t) \/ DryRun(t) \/ DryRunLoaded(t) \/ InsertModule(t)
    \/ Status(t)
    \/ LkmModprobe(t) \/ Insmod(t) \/ Flag(t)
    \/ LkmRmmod(t) \/ Unflag(t) \/ IsLoaded(t) \/ Register(t)

(* An administrator loads or removes a module.                             *)
Outside ==
    /\ outside < MaxOutside
    /\ outside' = outside + 1
    /\ \E m \in Modules : Loads(m) \/ Unloads(m)
    /\ loaded' # loaded
    /\ UNCHANGED <<table, flag, pc, call, answer, calls>>

(* Every call that is under way is a witness of the kernel.  The module of *)
(* LkmManager goes by a hand that is not its own, or by its own while a    *)
(* load of it is under way, or neither; or it is not there when            *)
(* register_lsm finds the name in the list.                                *)
Witness ==
    /\ seen' = [t \in Threads |->
                   IF pc'[t] = "idle" THEN {}
                   ELSE (IF pc[t] = "idle" THEN {} ELSE seen[t]) \cup loaded']
    /\ out' = [t \in Threads |->
                  IF pc'[t] = "idle" THEN {}
                  ELSE (IF pc[t] = "idle" THEN {} ELSE out[t])
                           \cup (Modules \ loaded')]
    /\ cause' = IF LkmModule \in loaded' THEN "none"
                ELSE IF LkmModule \notin loaded
                THEN IF \E t \in Threads : pc[t] = "register" /\ pc'[t] = "flag"
                     THEN "listed" ELSE cause
                ELSE IF \A t \in Threads : pc[t] # "lkm_rmmod" \/ pc'[t] = pc[t]
                THEN "others"
                ELSE IF \E t \in Threads : call[t].op \in {"lkm", "register"}
                THEN "raced" ELSE "none"

Next ==
    /\ Outside \/ \E t \in Threads : Start(t) \/ Continue(t)
    /\ Witness

Spec == Init /\ [][Next]_vars

-----------------------------------------------------------------------------

Returns(t, value) == pc[t] # "idle" /\ answer'[t] = value

(* A manager that says a module is loaded has seen it in the kernel during *)
(* the call: load_module, also with parameters, every module that          *)
(* ensure_required_modules, ensure_xdp_modules and is_xdp_ready vouch for, *)
(* and what initialize enters in the table as Loaded.                      *)
AnswersWereSeen ==
    [][ \A t \in Threads :
          /\ Returns(t, "yes") /\ call[t].op \in
                   {"load", "params", "reload", "ensure", "ready"}
                => \A i \in DOMAIN call[t].asked : call[t].asked[i] \in seen[t]
          /\ pc[t] = "insert" /\ call[t].status = "Loaded"
                => Module(t) \in seen[t] ]_vars

(* reload_module that answers true has left the old module in the kernel   *)
(* only when its unload was refused, or when a failing lsmod made it look  *)
(* unloaded; it does not say so in these cases.                            *)
ReloadExcused ==
    [][ \A t \in Threads :
          Returns(t, "yes") /\ call[t].op = "reload"
              => Module(t) \in out[t] \/ call[t].excused ]_vars

(* LkmManager believes in a module that is not in the kernel only while it *)
(* is unloading it, when somebody else took it out, when it was taken out  *)
(* while a load was under way, when modprobe loads nothing for it, or when *)
(* register_lsm took the name in the list of active LSMs for the module.   *)
StaleFlagHasCause ==
    flag /\ LkmModule \notin loaded =>
        \/ LkmModule \in Silent
        \/ \E t \in Threads : pc[t] = "unflag"
        \/ cause # "none"

=============================================================================
