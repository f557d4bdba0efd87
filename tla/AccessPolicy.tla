---------------------------- MODULE AccessPolicy ----------------------------
(***************************************************************************)
(* What an LsmManager promises its callers, whatever its threads and locks *)
(* do: there is one policy at a time, a list of rules that is replaced as  *)
(* a whole by that of a file or changed by a rule, and every decision is   *)
(* the policy's own at one moment.                                         *)
(***************************************************************************)
EXTENDS Integers, SequencesExt

CONSTANTS
    PolicyOf(_),            \* the rules that come of a file
    Matches(_, _, _),       \* whether a rule is for a hook and a context
    Decision(_, _),         \* what a rule decides in a context
    DefaultDecision(_, _),  \* what is decided for a hook and a context without
    Files,      \* the contents a rules file may have
    Extra,      \* the rules that may be added
    Calls       \* the hooks that are called, with their contexts

VARIABLES
    policy,     \* the rules in force
    verdicts    \* the decisions given, in order

(* A rule prevails when it matches and every other that does has a lower   *)
(* priority, or the same and a later place.                                *)
Prevails(rules, i, hook, context) ==
    /\ Matches(rules[i], hook, context)
    /\ \A j \in DOMAIN rules \ {i} :
           Matches(rules[j], hook, context) =>
               \/ rules[j].priority < rules[i].priority
               \/ rules[j].priority = rules[i].priority /\ i <= j

IsVerdict(rules, hook, context, verdict) ==
    \/ \E i \in DOMAIN rules :
           /\ Prevails(rules, i, hook, context)
           /\ verdict = Decision(rules[i], context)
    \/ /\ \A i \in DOMAIN rules : ~Matches(rules[i], hook, context)
       /\ verdict = DefaultDecision(hook, context)

Init == policy = << >> /\ verdicts = << >>

Replace ==
    /\ \E f \in Files : policy' = PolicyOf(f)
    /\ UNCHANGED verdicts

Extend ==
    /\ \E rule \in Extra : policy' = Append(policy, rule)
    /\ UNCHANGED verdicts

Withdraw ==
    /\ \E i \in DOMAIN policy : policy' = RemoveAt(policy, i)
    /\ UNCHANGED verdicts

Decide ==
    /\ \E call \in Calls :
       \E verdict \in {Decision(policy[i], call.context) : i \in DOMAIN policy}
                         \cup {DefaultDecision(call.hook, call.context)} :
        /\ IsVerdict(policy, call.hook, call.context, verdict)
        /\ verdicts' = Append(verdicts, verdict)
    /\ UNCHANGED policy

Next == Replace \/ Extend \/ Withdraw \/ Decide

Spec == Init /\ [][Next]_<<policy, verdicts>>

=============================================================================
