------------------------------ MODULE LsmRules ------------------------------
(***************************************************************************)
(* src/lsm.rs without its state: conditions, rules, the rules file and the *)
(* default rules.  A text is a sequence of the pieces that the conditions  *)
(* tell apart, and a context gives a text to some keys.                    *)
(***************************************************************************)
EXTENDS Integers, FiniteSets, SequencesExt

CONSTANTS
    Numeral,    \* the number of each text that parses as a u64
    Truthy,     \* the texts that read true, 1 or yes in lower case
    AnyAddress, \* the texts 0.0.0.0/0 and ::/0
    TmpDir      \* the text /tmp/

ASSUME LsmRulesAssumption == \A text \in DOMAIN Numeral : Numeral[text] \in Nat

(* LsmHookType.                                                            *)
Hooks ==
    {"file_open", "file_read", "file_write", "file_execute", "file_permission",
     "process_exec", "process_fork", "process_exit", "process_setuid",
     "process_setgid", "socket_create", "socket_bind", "socket_connect",
     "socket_listen", "socket_accept", "mmap", "brk", "syscall_entry",
     "syscall_exit", "capable", "capget", "capset", "msg_queue", "semaphore",
     "shared_memory", "device_access"}

Actions == {"allow", "deny", "audit", "silent_deny"}

(* The value of a condition is [text], [number], [min, max] or [wanted].    *)
Condition(kind, key, value) == [kind |-> kind, key |-> key, value |-> value]

(* LsmCondition::evaluate.  A key that is missing, or no number where one  *)
(* is asked for, fails every condition but a Boolean one that wants false. *)
Evaluate(c, context) ==
    LET known == c.key \in DOMAIN context
        text == context[c.key]
        number == IF known /\ text \in DOMAIN Numeral THEN Numeral[text] ELSE -1
        within == known /\ c.value.text \in SubSeqs(text)
    IN  CASE c.kind = "StringEquals" -> known /\ text = c.value.text
          [] c.kind \in {"StringContains", "Regex"} -> within
          [] c.kind = "StringPrefix" -> known /\ IsPrefix(c.value.text, text)
          [] c.kind = "StringSuffix" -> known /\ IsSuffix(c.value.text, text)
          [] c.kind = "NumericEquals" -> number = c.value.number
          [] c.kind = "NumericGreaterThan" -> number > c.value.number
          [] c.kind = "NumericLessThan" -> number >= 0 /\ number < c.value.number
          [] c.kind = "NumericInRange" ->
                number >= c.value.min /\ number <= c.value.max
          [] c.kind = "Boolean" -> (known /\ text \in Truthy) = c.value.wanted
          [] c.kind = "IpInCidr" ->
                known /\ (c.value.text \in AnyAddress \/ text = c.value.text)

Rule(name, hook, conditions, action, priority, description) ==
    [name |-> name, hook |-> hook, conditions |-> conditions, action |-> action,
     priority |-> priority, description |-> description]

(* LsmRule::matches, with the hook as evaluate_hook asks for it.           *)
Matches(rule, hook, context) ==
    /\ rule.hook = hook
    /\ \A c \in rule.conditions : Evaluate(c, context)

-----------------------------------------------------------------------------

(* A line of the rules file: whether it is blank or a comment, how many    *)
(* arrows it has, the words before the arrow (a name, a hook, conditions   *)
(* cut at their equal signs) and the word after it.                        *)
ParsedHooks ==
    {"file_open", "file_read", "file_write", "file_execute", "process_exec",
     "process_fork", "socket_create", "socket_bind", "capable", "syscall_entry"}

IsRule(line) == ~line.blank /\ line.arrows = 1 /\ Len(line.head) = 2

(* A hook the parser does not know becomes file_open, an action it does    *)
(* not know deny, and a condition it cannot read is dropped.               *)
RuleOf(line) ==
    Rule(line.head[1],
         IF line.head[2] \in ParsedHooks THEN line.head[2] ELSE "file_open",
         { Condition("StringEquals", w[1], [text |-> w[2]]) :
               w \in {u \in ToSet(line.conditions) : Len(u) = 2} },
         IF line.action \in Actions THEN line.action ELSE "deny",
         100, "")

(* The lines that are rules, in their order.                               *)
ParseRules(lines) ==
    LET kept == {i \in DOMAIN lines : IsRule(lines[i])}
        Nth(n) == CHOOSE i \in kept : Cardinality({j \in kept : j <= i}) = n
    IN  [n \in 1 .. Cardinality(kept) |-> RuleOf(lines[Nth(n)])]

DefaultRules ==
    << Rule("deny_exec_tmp", "process_exec",
            {Condition("StringPrefix", "path", [text |-> TmpDir])},
            "deny", 200, "Deny execution from /tmp"),
       Rule("audit_setuid", "process_setuid", {}, "audit", 150,
            "Audit setuid calls"),
       Rule("deny_sys_admin", "capable",
            { Condition("NumericEquals", "cap", [number |-> 21]),
              Condition("NumericGreaterThan", "uid", [number |-> 0]) },
            "deny", 300, "Deny CAP_SYS_ADMIN for non-root users"),
       Rule("default_allow", "syscall_entry", {}, "allow", 10,
            "Default allow rule") >>

(* A bug for the runs to find: a file without rules is left without any.   *)
PolicyOfFileOnly(lines) == ParseRules(lines)

(* What load_rules makes of the contents of the file.                      *)
PolicyOf(lines) ==
    IF ParseRules(lines) = << >> THEN DefaultRules ELSE ParseRules(lines)

-----------------------------------------------------------------------------

(* LsmDecision::new with the context; pid, uid and gid are taken from it   *)
(* only when a rule decides.                                               *)
Number(context, key) ==
    IF key \in DOMAIN context /\ context[key] \in DOMAIN Numeral
    THEN Numeral[context[key]] ELSE 0

Decision(rule, context) ==
    [hook |-> rule.hook, action |-> rule.action, reason |-> rule.description,
     context |-> context,
     ids |-> [key \in {"pid", "uid", "gid"} |-> Number(context, key)]]

NoMatchingRule == "No matching rule"

DefaultDecision(hook, context) ==
    [hook |-> hook, action |-> "allow", reason |-> NoMatchingRule,
     context |-> context, ids |-> [key \in {"pid", "uid", "gid"} |-> 0]]

=============================================================================
