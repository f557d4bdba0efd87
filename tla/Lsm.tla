-------------------------------- MODULE Lsm ---------------------------------
(***************************************************************************)
(* src/lsm.rs: an LsmManager shared by threads.  Its mutexes on the rules  *)
(* and on the decisions are taken in this order by evaluate_hook and       *)
(* get_stats; load_rules reads the file before it takes the first.  A step *)
(* is the code from one mutex, or look at the file, to the next.  The      *)
(* rules file belongs to an administrator, who may change it at any time.  *)
(***************************************************************************)
EXTENDS LsmRules

CONSTANTS
    Threads,
    Files,          \* the contents the rules file may have, as lines
    NoFile,
    Extra,          \* the rules given to add_rule
    Calls,          \* the hook and context of the calls to evaluate_hook
    AuditLog,       \* LsmConfig.audit_log
    MaxEdits,       \* bound on the changes of the file
    MaxChanges,     \* bound on the loads, additions and removals begun
    MaxAnswers      \* bound on the answers of evaluate_hook

ASSUME LsmAssumption ==
    /\ NoFile \notin Files
    /\ \A f \in Files : f \in Seq(ToSet(f))
    /\ \A rule \in Extra : rule.description # NoMatchingRule
                            /\ rule.priority \in Nat
    /\ AuditLog \in BOOLEAN
    /\ {MaxEdits, MaxChanges, MaxAnswers} \subseteq Nat

VARIABLES
    file,           \* the rules file
    rules,          \* LsmManager.rules
    decisions,      \* LsmManager.decisions
    log,            \* the lines of the log file
    pc,             \* where each thread is
    draft,          \* the rules, or the decision, each thread carries
    edits, changes, \* counted for the bounds
    answered,       \* history: the answers of evaluate_hook
    cleared,        \* history: how many there were at clear_decisions
    events          \* history: how loads have ended, and removals

store == <<rules, decisions, log>>
history == <<edits, changes, answered, cleared, events>>
vars == <<file, store, pc, draft, history>>

None == << >>

Init ==
    /\ file \in Files \cup {NoFile}
    /\ rules = << >>
    /\ decisions = << >>
    /\ log = << >>
    /\ pc = [t \in Threads |-> "idle"]
    /\ draft = [t \in Threads |-> None]
    /\ edits = 0
    /\ changes = 0
    /\ answered = << >>
    /\ cleared = 0
    /\ events = {}

Goto(t, place) == pc' = [pc EXCEPT ![t] = place]
Carry(t, value) == draft' = [draft EXCEPT ![t] = value]
Happened(event) == events' = events \cup {event}
Answer(decision) == answered' = Append(answered, decision)

(* Bugs for the runs to find: the rules are given up before the decision   *)
(* is recorded, the decisions before it is logged.                         *)
RulesFreeEarly == \A t \in Threads : pc[t] # "stats"
DecisionsFreeEarly == TRUE

(* Who holds the mutexes follows from where the threads are.               *)
RulesFree == \A t \in Threads : pc[t] \notin {"record", "log", "stats"}
DecisionsFree == \A t \in Threads : pc[t] # "log"

-----------------------------------------------------------------------------

(* load_rules, also as initialize calls it.  Without a file the rules are  *)
(* left as they are.                                                       *)
LoadBegin(t) ==
    /\ pc[t] = "idle"
    /\ changes < MaxChanges
    /\ changes' = changes + 1
    /\ IF file = NoFile THEN Happened("no file") /\ UNCHANGED pc
                        ELSE Goto(t, "read") /\ UNCHANGED events
    /\ UNCHANGED <<file, store, draft, edits, answered, cleared>>

(* The file is read and parsed before any mutex is taken.  It may be gone  *)
(* by now, or not be read for another reason; the error changes nothing.   *)
LoadRead(t) ==
    /\ pc[t] = "read"
    /\ \/ Goto(t, "idle") /\ Happened("error") /\ UNCHANGED draft
       \/ /\ file # NoFile
          /\ Carry(t, PolicyOf(file))
          /\ Goto(t, "install")
          /\ UNCHANGED events
    /\ UNCHANGED <<file, store, edits, changes, answered, cleared>>

(* The whole list is replaced, with whatever was added since the read.     *)
LoadInstall(t) ==
    /\ pc[t] = "install"
    /\ RulesFree
    /\ rules' = draft[t]
    /\ Happened("installed")
    /\ Carry(t, None)
    /\ Goto(t, "idle")
    /\ UNCHANGED <<file, decisions, log, edits, changes, answered, cleared>>

AddRule(t) ==
    /\ pc[t] = "idle"
    /\ RulesFree
    /\ changes < MaxChanges
    /\ changes' = changes + 1
    /\ \E rule \in Extra : rules' = Append(rules, rule)
    /\ UNCHANGED <<file, decisions, log, pc, draft, edits, answered, cleared, events>>

(* remove_rule: the first of that name, if there is one.                   *)
RemoveRule(t) ==
    /\ pc[t] = "idle"
    /\ RulesFree
    /\ changes < MaxChanges
    /\ changes' = changes + 1
    /\ \E i \in DOMAIN rules :
        /\ \A j \in 1 .. i - 1 : rules[j].name # rules[i].name
        /\ rules' = RemoveAt(rules, i)
    /\ Happened("removed")
    /\ UNCHANGED <<file, decisions, log, pc, draft, edits, answered, cleared>>

-----------------------------------------------------------------------------

(* A stable sort by falling priority puts this one of the indices first.   *)
FirstByPriority(i, indices) ==
    \A j \in indices :
        \/ rules[j].priority < rules[i].priority
        \/ rules[j].priority = rules[i].priority /\ i <= j

(* What evaluate_hook does when it has the rules' mutex: the default       *)
(* decision is returned as it is, a rule's is carried on.                  *)
EvaluateWith(t, hook, context) ==
    LET matching == {i \in DOMAIN rules : Matches(rules[i], hook, context)}
    IN  IF matching = {}
        THEN /\ Answer(DefaultDecision(hook, context))
             /\ UNCHANGED <<pc, draft>>
        ELSE /\ \E i \in matching :
                    /\ FirstByPriority(i, matching)
                    /\ Carry(t, Decision(rules[i], context))
             /\ Goto(t, "record")
             /\ UNCHANGED answered

Evaluating == {t \in Threads : pc[t] \in {"record", "log"}}

EvaluateHook(t) ==
    /\ pc[t] = "idle"
    /\ RulesFree
    /\ Len(answered) + Cardinality(Evaluating) < MaxAnswers
    /\ \E call \in Calls : EvaluateWith(t, call.hook, call.context)
    /\ UNCHANGED <<file, store, edits, changes, cleared, events>>

RecordDecision(t) ==
    /\ pc[t] = "record"
    /\ DecisionsFree
    /\ decisions' = Append(decisions, draft[t])
    /\ Goto(t, "log")
    /\ UNCHANGED <<file, rules, log, draft, history>>

(* log_decision, with both mutexes still held; that the file cannot be     *)
(* opened or written is ignored.                                           *)
LogDecision(t) ==
    /\ pc[t] = "log"
    /\ \/ AuditLog /\ log' = Append(log, draft[t])
       \/ UNCHANGED log
    /\ Answer(draft[t])
    /\ Carry(t, None)
    /\ Goto(t, "idle")
    /\ UNCHANGED <<file, rules, decisions, edits, changes, cleared, events>>

ClearDecisions(t) ==
    /\ pc[t] = "idle"
    /\ DecisionsFree
    /\ decisions # << >>
    /\ decisions' = << >>
    /\ cleared' = Len(answered)
    /\ UNCHANGED <<file, rules, log, pc, draft, edits, changes, answered, events>>

(* get_stats counts under both mutexes.                                    *)
StatsRules(t) ==
    /\ pc[t] = "idle"
    /\ RulesFree
    /\ Goto(t, "stats")
    /\ UNCHANGED <<file, store, draft, history>>

(* A bug for the runs to find: the rules are counted by a call that locks  *)
(* them again.                                                             *)
StatsDecisionsRelocking(t) ==
    /\ pc[t] = "stats"
    /\ RulesFree
    /\ DecisionsFree
    /\ Goto(t, "idle")
    /\ UNCHANGED <<file, store, draft, history>>

StatsDecisions(t) ==
    /\ pc[t] = "stats"
    /\ DecisionsFree
    /\ Goto(t, "idle")
    /\ UNCHANGED <<file, store, draft, history>>

Edit ==
    /\ edits < MaxEdits
    /\ edits' = edits + 1
    /\ file' \in (Files \cup {NoFile}) \ {file}
    /\ UNCHANGED <<store, pc, draft, changes, answered, cleared, events>>

(* The steps of a call that has begun.                                     *)
Continue(t) ==
    \/ LoadRead(t)
    \/ LoadInstall(t)
    \/ RecordDecision(t)
    \/ LogDecision(t)
    \/ StatsDecisions(t)

Next ==
    \/ Edit
    \/ \E t \in Threads :
        \/ LoadBegin(t)
        \/ AddRule(t)
        \/ RemoveRule(t)
        \/ EvaluateHook(t)
        \/ ClearDecisions(t)
        \/ StatsRules(t)
        \/ Continue(t)

(* A file is read in the end, and a mutex that is free is given in the end *)
(* to a thread that waits for it.                                          *)
Fairness == \A t \in Threads : SF_vars(Continue(t))

Spec == Init /\ [][Next]_vars /\ Fairness

-----------------------------------------------------------------------------

(* The rules and the answers are those of an access policy: a load takes   *)
(* effect as a whole at one moment, and an answer is what the rules in     *)
(* force say when it is given, whoever changes them meanwhile.             *)
Policy == INSTANCE AccessPolicy WITH policy <- rules, verdicts <- answered

ImplementsPolicy == Policy!Spec

(* Every answer that a rule gave, so every denial and every audit, is on   *)
(* record in the order of the answers until the record is cleared, and the *)
(* log file never has two of them in another order or one that was not     *)
(* given, a silent denial included.                                        *)
ByRule(decision) == decision.reason # NoMatchingRule

(* s has some of the answers, each once and in their order: f tells which. *)
InOrder(s, f, answers) ==
    \A i \in DOMAIN s : s[i] = answers[f[i]] /\ \A j \in 1 .. i - 1 : f[j] < f[i]

(* s has the answers a rule gave after the first so many, and no other.    *)
IsTrail(s, from, answers) ==
    \E f \in [DOMAIN s -> from + 1 .. Len(answers)] :
        /\ InOrder(s, f, answers)
        /\ \A n \in from + 1 .. Len(answers) :
              ByRule(answers[n]) <=> \E i \in DOMAIN s : f[i] = n

IsThinned(s, answers) ==
    \E f \in [DOMAIN s -> {n \in DOMAIN answers : ByRule(answers[n])}] :
        InOrder(s, f, answers)

TrailIsComplete ==
    LET pending == {t \in Threads : pc[t] = "log"}
    IN  /\ \A i \in DOMAIN answered :
              answered[i].action # "allow" => ByRule(answered[i])
        /\ \/ pending = {} /\ IsTrail(decisions, cleared, answered)
           \/ \E t \in pending :
                IsTrail(decisions, cleared, Append(answered, draft[t]))
        /\ IsThinned(log, answered)

(* Once a load has installed a policy, a manager is without rules, and so  *)
(* allows everything, only after somebody removed them.  A load that found *)
(* no file reports success too, and leaves a new manager open: no defaults *)
(* are installed for it.                                                   *)
OpenOnlyWithoutFile ==
    rules = << >> => ("installed" \in events => "removed" \in events)

(* The mutexes are nested in one order, so no call is left waiting.        *)
CallsReturn == \A t \in Threads : pc[t] # "idle" ~> pc[t] = "idle"

(* Type correctness.                                                       *)
TypeOK ==
    /\ file \in Files \cup {NoFile}
    /\ pc \in [Threads -> {"idle", "read", "install", "record", "log", "stats"}]
    /\ DOMAIN draft = Threads
    /\ edits \in 0 .. MaxEdits /\ changes \in 0 .. MaxChanges
    /\ events \subseteq {"no file", "error", "installed", "removed"}

=============================================================================
