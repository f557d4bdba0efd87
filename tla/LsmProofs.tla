----------------------------- MODULE LsmProofs ------------------------------
(***************************************************************************)
(* For any number of threads, any rules files and any calls: an LsmManager *)
(* implements the access policy (what its callers see of the rules and of  *)
(* the verdicts), which gives every call one verdict; its records tell the *)
(* verdicts; and no call waits in a circle or is sent back, which, short   *)
(* of the fairness, is why calls return.                                   *)
(***************************************************************************)
EXTENDS Lsm, SequenceTheorems, FiniteSetTheorems, WellFoundedInduction, TLAPS

(* Who holds the mutex of the rules holds it alone.                        *)
Holding(t) == pc[t] \in {"record", "log", "stats"}

Exclusive == \A s, t \in Threads : Holding(s) /\ Holding(t) => s = t

(* What a thread is about to install is the policy of a file that was      *)
(* there when it looked.                                                   *)
CarriedRules ==
    \A t \in Threads :
        pc[t] = "install" => \E f \in Files : draft[t] = PolicyOf(f)

(* The decision a thread carries is the verdict of the rules in force,     *)
(* which nobody can change before it is given.                             *)
CarriedVerdict ==
    \A t \in Threads :
        pc[t] \in {"record", "log"} =>
            \E call \in Calls, i \in DOMAIN rules :
                /\ Policy!Prevails(rules, i, call.hook, call.context)
                /\ draft[t] = Decision(rules[i], call.context)

IInv == TypeOK /\ Exclusive /\ CarriedRules /\ CarriedVerdict

LEMMA InitIInv == Init => IInv
BY LsmAssumption DEF Init, IInv, TypeOK, Exclusive, CarriedRules, CarriedVerdict, Holding

(* A step that moves one thread to a place where it holds nothing and      *)
(* carries nothing.                                                        *)
LEMMA Leaves ==
    ASSUME IInv, NEW t \in Threads, NEW place \in {"idle", "read"},
           Goto(t, place), UNCHANGED draft \/ Carry(t, None), UNCHANGED rules
    PROVE  Exclusive' /\ CarriedRules' /\ CarriedVerdict'
<1>1. /\ \A s \in Threads : pc'[s] = IF s = t THEN place ELSE pc[s]
      /\ \A s \in Threads : s # t => draft'[s] = draft[s]
  BY DEF IInv, TypeOK, Goto, Carry
<1>2. Exclusive'
  BY <1>1 DEF IInv, Exclusive, Holding
<1>3. CarriedRules'
  BY <1>1 DEF IInv, CarriedRules
<1>4. CarriedVerdict'
  BY <1>1 DEF IInv, CarriedVerdict
<1>5. QED
  BY <1>2, <1>3, <1>4

(* A step of one thread that changes neither the rules nor what is carried *)
(* leaves what the others hold and carry alone.                            *)
LEMMA Stays ==
    ASSUME IInv, UNCHANGED <<rules, pc, draft>>
    PROVE  Exclusive' /\ CarriedRules' /\ CarriedVerdict'
BY DEF IInv, Exclusive, CarriedRules, CarriedVerdict, Holding

(* The rules change only when nobody holds them, so no verdict is carried. *)
LEMMA Unheld ==
    ASSUME IInv, RulesFree, UNCHANGED <<pc, draft>>
    PROVE  Exclusive' /\ CarriedRules' /\ CarriedVerdict'
BY DEF IInv, RulesFree, Exclusive, CarriedRules, CarriedVerdict, Holding

(* What EvaluateWith carries is a verdict of the rules.                    *)
LEMMA WinnerPrevails ==
    ASSUME NEW hook, NEW context, NEW i \in DOMAIN rules,
           Matches(rules[i], hook, context),
           FirstByPriority(i, {j \in DOMAIN rules : Matches(rules[j], hook, context)})
    PROVE  Policy!Prevails(rules, i, hook, context)
BY DEF FirstByPriority, Policy!Prevails

-----------------------------------------------------------------------------

LEMMA TypeStep ==
    ASSUME TypeOK, [Next]_vars
    PROVE  TypeOK'
<1>0. /\ MaxEdits \in Nat /\ MaxChanges \in Nat
      /\ edits \in 0 .. MaxEdits /\ changes \in 0 .. MaxChanges
  BY LsmAssumption DEF TypeOK
<1>1. CASE Edit
  <2>1. edits' \in 0 .. MaxEdits
    BY <1>0, <1>1 DEF Edit
  <2>2. QED
    BY <1>1, <2>1 DEF Edit, TypeOK
<1>2. ASSUME NEW t \in Threads, LoadBegin(t) PROVE TypeOK'
  <2>1. changes < MaxChanges /\ changes' = changes + 1
    BY <1>2 DEF LoadBegin
  <2>2. changes' \in 0 .. MaxChanges
    BY <1>0, <2>1
  <2>3. QED
    BY <1>2, <2>2 DEF LoadBegin, TypeOK, Goto, Happened
<1>3. ASSUME NEW t \in Threads, AddRule(t) PROVE TypeOK'
  <2>1. changes' \in 0 .. MaxChanges
    BY <1>0, <1>3 DEF AddRule
  <2>2. QED
    BY <1>3, <2>1 DEF AddRule, TypeOK
<1>4. ASSUME NEW t \in Threads, RemoveRule(t) PROVE TypeOK'
  <2>1. changes' \in 0 .. MaxChanges
    BY <1>0, <1>4 DEF RemoveRule
  <2>2. QED
    BY <1>4, <2>1 DEF RemoveRule, TypeOK, Happened
<1> USE DEF TypeOK, Goto, Carry, Happened
<1>5. ASSUME NEW t \in Threads, EvaluateHook(t) PROVE TypeOK'
  BY <1>5 DEF EvaluateHook, EvaluateWith
<1>6. ASSUME NEW t \in Threads, ClearDecisions(t) PROVE TypeOK'
  BY <1>6 DEF ClearDecisions
<1>7. ASSUME NEW t \in Threads, StatsRules(t) PROVE TypeOK'
  BY <1>7 DEF StatsRules, history
<1>8. ASSUME NEW t \in Threads, LoadRead(t) PROVE TypeOK'
  BY <1>8 DEF LoadRead
<1>9. ASSUME NEW t \in Threads, LoadInstall(t) PROVE TypeOK'
  BY <1>9 DEF LoadInstall
<1>10. ASSUME NEW t \in Threads, RecordDecision(t) PROVE TypeOK'
  BY <1>10 DEF RecordDecision, history
<1>11. ASSUME NEW t \in Threads, LogDecision(t) PROVE TypeOK'
  BY <1>11 DEF LogDecision
<1>12. ASSUME NEW t \in Threads, StatsDecisions(t) PROVE TypeOK'
  BY <1>12 DEF StatsDecisions, history
<1>13. CASE UNCHANGED vars
  BY <1>13 DEF vars, history
<1>14. QED
  BY <1>1, <1>2, <1>3, <1>4, <1>5, <1>6, <1>7, <1>8, <1>9, <1>10, <1>11,
     <1>12, <1>13 DEF Next, Continue

(* The type invariant holds.                                               *)
THEOREM TypeCorrect == Spec => []TypeOK
<1>1. Init => TypeOK
  BY InitIInv DEF IInv
<1>2. QED
  BY <1>1, TypeStep, PTL DEF Spec

-----------------------------------------------------------------------------

LEMMA NextIInv ==
    ASSUME IInv, [Next]_vars
    PROVE  IInv'
<1>0. TypeOK /\ TypeOK' /\ Exclusive /\ CarriedRules /\ CarriedVerdict
  BY TypeStep DEF IInv
<1> SUFFICES Exclusive' /\ CarriedRules' /\ CarriedVerdict'
  BY <1>0 DEF IInv
<1>1. CASE Edit
  BY <1>1, Stays DEF Edit, store
<1>2. ASSUME NEW t \in Threads, LoadBegin(t)
      PROVE  Exclusive' /\ CarriedRules' /\ CarriedVerdict'
  <2>1. CASE file = NoFile
    BY <1>2, <2>1, Stays DEF LoadBegin, store
  <2>2. CASE file # NoFile
    BY <1>2, <2>2, Leaves DEF LoadBegin, store
  <2>3. QED
    BY <2>1, <2>2
<1>3. ASSUME NEW t \in Threads, AddRule(t) \/ RemoveRule(t)
      PROVE  Exclusive' /\ CarriedRules' /\ CarriedVerdict'
  BY <1>3, Unheld DEF AddRule, RemoveRule
<1>4. ASSUME NEW t \in Threads, EvaluateHook(t)
      PROVE  Exclusive' /\ CarriedRules' /\ CarriedVerdict'
  <2>1. PICK call \in Calls : EvaluateWith(t, call.hook, call.context)
    BY <1>4 DEF EvaluateHook
  <2> DEFINE matching == {i \in DOMAIN rules :
                              Matches(rules[i], call.hook, call.context)}
  <2>2. RulesFree /\ UNCHANGED rules
    BY <1>4 DEF EvaluateHook, store
  <2>3. CASE matching = {}
    BY <2>1, <2>2, <2>3, Stays DEF EvaluateWith
  <2>4. CASE matching # {}
    <3>1. PICK i \in matching :
              /\ FirstByPriority(i, matching)
              /\ Carry(t, Decision(rules[i], call.context))
      BY <2>1, <2>4 DEF EvaluateWith
    <3>2. Policy!Prevails(rules, i, call.hook, call.context)
      BY <3>1, WinnerPrevails
    <3>3. Goto(t, "record")
      BY <2>1, <2>4 DEF EvaluateWith
    <3>4. /\ \A s \in Threads : pc'[s] = IF s = t THEN "record" ELSE pc[s]
          /\ \A s \in Threads : s # t => draft'[s] = draft[s]
          /\ draft'[t] = Decision(rules[i], call.context)
      BY <1>0, <3>1, <3>3 DEF TypeOK, Goto, Carry
    <3>5. Exclusive'
      BY <2>2, <3>4 DEF Exclusive, Holding, RulesFree
    <3>6. CarriedRules'
      BY <1>0, <3>4 DEF CarriedRules
    <3>7. CarriedVerdict'
      BY <2>2, <3>1, <3>2, <3>4 DEF CarriedVerdict, RulesFree
    <3>8. QED
      BY <3>5, <3>6, <3>7
  <2>5. QED
    BY <2>3, <2>4
<1>5. ASSUME NEW t \in Threads, ClearDecisions(t)
      PROVE  Exclusive' /\ CarriedRules' /\ CarriedVerdict'
  BY <1>5, Stays DEF ClearDecisions
<1>6. ASSUME NEW t \in Threads, StatsRules(t)
      PROVE  Exclusive' /\ CarriedRules' /\ CarriedVerdict'
  <2>1. \A s \in Threads : pc'[s] = IF s = t THEN "stats" ELSE pc[s]
    BY <1>0, <1>6 DEF StatsRules, Goto, TypeOK
  <2>2. QED
    BY <1>0, <1>6, <2>1
    DEF StatsRules, store, RulesFree, Exclusive, Holding, CarriedRules, CarriedVerdict
<1>7. ASSUME NEW t \in Threads, LoadRead(t)
      PROVE  Exclusive' /\ CarriedRules' /\ CarriedVerdict'
  <2>1. CASE Goto(t, "idle") /\ UNCHANGED draft
    BY <1>7, <2>1, Leaves DEF LoadRead, store
  <2>2. CASE file # NoFile /\ Carry(t, PolicyOf(file)) /\ Goto(t, "install")
    <3>1. /\ \A s \in Threads : pc'[s] = IF s = t THEN "install" ELSE pc[s]
          /\ \A s \in Threads : s # t => draft'[s] = draft[s]
          /\ draft'[t] = PolicyOf(file)
          /\ file \in Files
          /\ UNCHANGED rules
      BY <1>0, <1>7, <2>2 DEF LoadRead, store, TypeOK, Goto, Carry
    <3>2. QED
      BY <1>0, <3>1 DEF Exclusive, Holding, CarriedRules, CarriedVerdict
  <2>3. QED
    BY <1>7, <2>1, <2>2 DEF LoadRead
<1>8. ASSUME NEW t \in Threads, LoadInstall(t)
      PROVE  Exclusive' /\ CarriedRules' /\ CarriedVerdict'
  <2>1. /\ \A s \in Threads : pc'[s] = IF s = t THEN "idle" ELSE pc[s]
        /\ \A s \in Threads : s # t => draft'[s] = draft[s]
    BY <1>0, <1>8 DEF LoadInstall, TypeOK, Goto, Carry
  <2>2. QED
    BY <1>0, <1>8, <2>1
    DEF LoadInstall, RulesFree, Exclusive, Holding, CarriedRules, CarriedVerdict
<1>9. ASSUME NEW t \in Threads, RecordDecision(t)
      PROVE  Exclusive' /\ CarriedRules' /\ CarriedVerdict'
  <2>1. \A s \in Threads : pc'[s] = IF s = t THEN "log" ELSE pc[s]
    BY <1>0, <1>9 DEF RecordDecision, Goto, TypeOK
  <2>2. QED
    BY <1>0, <1>9, <2>1
    DEF RecordDecision, Exclusive, Holding, CarriedRules, CarriedVerdict
<1>10. ASSUME NEW t \in Threads, LogDecision(t) \/ StatsDecisions(t)
       PROVE  Exclusive' /\ CarriedRules' /\ CarriedVerdict'
  BY <1>10, Leaves DEF LogDecision, StatsDecisions, store
<1>11. CASE UNCHANGED vars
  BY <1>11, Stays DEF vars, store
<1>12. QED
  BY <1>1, <1>2, <1>3, <1>4, <1>5, <1>6, <1>7, <1>8, <1>9, <1>10, <1>11
  DEF Next, Continue

-----------------------------------------------------------------------------

LEMMA StepRefines ==
    ASSUME IInv, [Next]_vars
    PROVE  [Policy!Next]_<<rules, answered>>
<1>1. CASE UNCHANGED <<rules, answered>>
  BY <1>1
<1>2. ASSUME NEW t \in Threads, AddRule(t) PROVE Policy!Extend
  BY <1>2 DEF AddRule, Policy!Extend
<1>3. ASSUME NEW t \in Threads, RemoveRule(t) PROVE Policy!Withdraw
  BY <1>3 DEF RemoveRule, Policy!Withdraw, RemoveAt, Policy!RemoveAt
<1>4. ASSUME NEW t \in Threads, LoadInstall(t) PROVE Policy!Replace
  BY <1>4 DEF LoadInstall, Policy!Replace, IInv, CarriedRules
<1>5. ASSUME NEW t \in Threads, EvaluateHook(t)
      PROVE  Policy!Decide \/ UNCHANGED <<rules, answered>>
  <2>1. PICK call \in Calls : EvaluateWith(t, call.hook, call.context)
    BY <1>5 DEF EvaluateHook
  <2>2. UNCHANGED rules
    BY <1>5 DEF EvaluateHook, store
  <2>3. CASE UNCHANGED answered
    BY <2>2, <2>3
  <2>4. CASE /\ \A i \in DOMAIN rules : ~Matches(rules[i], call.hook, call.context)
             /\ Answer(DefaultDecision(call.hook, call.context))
    BY <2>2, <2>4 DEF Answer, Policy!Decide, Policy!IsVerdict
  <2>5. QED
    BY <2>1, <2>3, <2>4 DEF EvaluateWith
<1>6. ASSUME NEW t \in Threads, LogDecision(t) PROVE Policy!Decide
  <2>1. PICK call \in Calls, i \in DOMAIN rules :
            /\ Policy!Prevails(rules, i, call.hook, call.context)
            /\ draft[t] = Decision(rules[i], call.context)
    BY <1>6 DEF LogDecision, IInv, CarriedVerdict
  <2>2. answered' = Append(answered, draft[t]) /\ UNCHANGED rules
    BY <1>6 DEF LogDecision, Answer
  <2>3. QED
    BY <2>1, <2>2 DEF Policy!Decide, Policy!IsVerdict
<1>7. ASSUME NEW t \in Threads,
             \/ LoadBegin(t) \/ ClearDecisions(t) \/ StatsRules(t)
             \/ LoadRead(t) \/ RecordDecision(t) \/ StatsDecisions(t)
      PROVE  UNCHANGED <<rules, answered>>
  BY <1>7 DEF LoadBegin, ClearDecisions, StatsRules, LoadRead, RecordDecision,
              StatsDecisions, store, history
<1>8. CASE Edit
  BY <1>8 DEF Edit, store
<1>9. CASE UNCHANGED vars
  BY <1>9 DEF vars, store, history
<1>10. QED
  BY <1>1, <1>2, <1>3, <1>4, <1>5, <1>6, <1>7, <1>8, <1>9
  DEF Next, Continue, Policy!Next

(* An LsmManager, whatever its threads and whoever edits its file, gives   *)
(* the verdicts of one policy that is only replaced or changed as a whole. *)
THEOREM Refinement == Spec => ImplementsPolicy
<1>1. Init => Policy!Init
  BY DEF Init, Policy!Init
<1>2. IInv /\ [Next]_vars => [Policy!Next]_<<rules, answered>>
  BY StepRefines
<1>3. QED
  BY <1>1, <1>2, InitIInv, NextIInv, PTL
  DEF Spec, ImplementsPolicy, Policy!Spec

-----------------------------------------------------------------------------

(* Sequences of whatever they have.                                        *)
Sequence(s) == s \in Seq(ToSet(s))

LEMMA SequenceFacts ==
    ASSUME NEW s, Sequence(s)
    PROVE  Len(s) \in Nat /\ DOMAIN s = 1 .. Len(s)
BY LenProperties DEF Sequence

LEMMA FunctionIsSequence ==
    ASSUME NEW n \in Nat, NEW S, NEW s \in [1 .. n -> S]
    PROVE  Sequence(s) /\ Len(s) = n
<1>1. s \in Seq(S) /\ DOMAIN s = 1 .. n
  BY SeqDef
<1>2. s \in [1 .. n -> ToSet(s)]
  BY <1>1 DEF ToSet
<1>3. s \in Seq(ToSet(s))
  BY <1>2, SeqDef
<1>4. Len(s) = n
  BY <1>1, LenProperties
<1>5. QED
  BY <1>3, <1>4 DEF Sequence

LEMMA Appended ==
    ASSUME NEW s, Sequence(s), NEW e
    PROVE  /\ Sequence(Append(s, e))
           /\ Append(s, e) # << >>
           /\ Len(Append(s, e)) = Len(s) + 1
           /\ DOMAIN Append(s, e) = 1 .. Len(s) + 1
           /\ \A i \in 1 .. Len(s) : Append(s, e)[i] = s[i]
           /\ Append(s, e)[Len(s) + 1] = e
<1> DEFINE S == ToSet(s) \cup {e}
<1>1. Len(s) \in Nat /\ DOMAIN s = 1 .. Len(s)
  BY SequenceFacts
<1>2. s \in [1 .. Len(s) -> S]
  BY <1>1, LenProperties, ElementOfSeq DEF Sequence
<1>3. s \in Seq(S) /\ e \in S
  BY <1>1, <1>2, SeqDef
<1> HIDE DEF S
<1>4. /\ Append(s, e) \in Seq(S)
      /\ Append(s, e) # << >>
      /\ Len(Append(s, e)) = Len(s) + 1
      /\ \A i \in 1 .. Len(s) : Append(s, e)[i] = s[i]
      /\ Append(s, e)[Len(s) + 1] = e
  BY <1>3, AppendProperties
<1>5. DOMAIN Append(s, e) = 1 .. Len(s) + 1
  BY <1>4, LenProperties
<1>6. Append(s, e) \in [1 .. Len(s) + 1 -> S]
  BY <1>4, <1>5, LenProperties, ElementOfSeq
<1>7. Sequence(Append(s, e))
  <2>1. Len(s) + 1 \in Nat
    BY <1>1
  <2>2. QED
    BY <1>6, <2>1, FunctionIsSequence
<1>8. QED
  BY <1>4, <1>5, <1>7

(* The answer of a rule that is recorded extends the trail; an answer of   *)
(* no rule does not belong to it.                                          *)
LEMMA TrailExtends ==
    ASSUME NEW s, Sequence(s), NEW answers, Sequence(answers),
           NEW from \in 0 .. Len(answers), IsTrail(s, from, answers),
           NEW d, ByRule(d)
    PROVE  IsTrail(Append(s, d), from, Append(answers, d))
<1> DEFINE m == Len(s)
           n == Len(answers)
           s2 == Append(s, d)
           a2 == Append(answers, d)
<1>1. m \in Nat /\ DOMAIN s = 1 .. m /\ n \in Nat /\ from \in 0 .. n
  BY SequenceFacts
<1>2. /\ DOMAIN s2 = 1 .. m + 1
      /\ \A i \in 1 .. m : s2[i] = s[i]
      /\ s2[m + 1] = d
  BY Appended
<1>3. /\ Len(a2) = n + 1
      /\ \A i \in 1 .. n : a2[i] = answers[i]
      /\ a2[n + 1] = d
  BY Appended
<1> HIDE DEF m, n, s2, a2
<1>4. PICK f \in [DOMAIN s -> from + 1 .. n] :
          /\ InOrder(s, f, answers)
          /\ \A k \in from + 1 .. n :
                ByRule(answers[k]) <=> \E i \in DOMAIN s : f[i] = k
  BY DEF IsTrail, n
<1>5. /\ \A i \in 1 .. m : s[i] = answers[f[i]]
      /\ \A i \in 1 .. m : f[i] \in from + 1 .. n
      /\ \A i \in 1 .. m : \A j \in 1 .. i - 1 : f[j] < f[i]
      /\ \A k \in from + 1 .. n :
            ByRule(answers[k]) <=> \E i \in 1 .. m : f[i] = k
  BY <1>1, <1>4 DEF InOrder
<1> DEFINE g == [i \in 1 .. m + 1 |-> IF i <= m THEN f[i] ELSE n + 1]
<1>6. /\ \A i \in 1 .. m : g[i] = f[i] /\ f[i] \in from + 1 .. n
      /\ g[m + 1] = n + 1
      /\ g \in [1 .. m + 1 -> from + 1 .. n + 1]
  BY <1>1, <1>5
<1> HIDE DEF g
<1>7. \A i \in 1 .. m + 1 : s2[i] = a2[g[i]]
  <2>1. ASSUME NEW i \in 1 .. m
        PROVE  s2[i] = a2[g[i]]
    <3>1. g[i] = f[i] /\ f[i] \in 1 .. n /\ s2[i] = s[i] /\ s[i] = answers[f[i]]
      BY <1>1, <1>2, <1>5, <1>6
    <3>2. a2[f[i]] = answers[f[i]]
      BY <1>3, <3>1
    <3>3. QED
      BY <3>1, <3>2
  <2>2. s2[m + 1] = a2[g[m + 1]]
    BY <1>2, <1>3, <1>6
  <2>3. QED
    BY <1>1, <2>1, <2>2
<1>8. \A i \in 1 .. m + 1 : \A j \in 1 .. i - 1 : g[j] < g[i]
  <2>1. SUFFICES ASSUME NEW i \in 1 .. m + 1, NEW j \in 1 .. i - 1
                 PROVE  g[j] < g[i]
    OBVIOUS
  <2>2. j \in 1 .. m /\ g[j] = f[j] /\ f[j] \in from + 1 .. n
    BY <1>1, <1>6
  <2>3. CASE i = m + 1
    BY <1>1, <1>6, <2>2, <2>3
  <2>4. CASE i # m + 1
    BY <1>1, <1>5, <1>6, <2>2, <2>4
  <2>5. QED
    BY <2>3, <2>4
<1>9. ASSUME NEW k \in from + 1 .. n + 1
      PROVE  ByRule(a2[k]) <=> \E i \in 1 .. m + 1 : g[i] = k
  <2>1. CASE k = n + 1
    <3>1. a2[k] = d /\ m + 1 \in 1 .. m + 1 /\ g[m + 1] = k
      BY <1>1, <1>3, <1>6, <2>1
    <3>2. ByRule(a2[k])
      BY <3>1
    <3>3. \E i \in 1 .. m + 1 : g[i] = k
      BY <3>1
    <3>4. QED
      BY <3>2, <3>3
  <2>2. CASE k # n + 1
    <3>1. k \in from + 1 .. n /\ k \in 1 .. n
      BY <1>1, <2>2
    <3>2. ByRule(a2[k]) <=> ByRule(answers[k])
      BY <1>3, <3>1
    <3>3. (\E i \in 1 .. m : f[i] = k) <=> \E i \in 1 .. m + 1 : g[i] = k
      BY <1>1, <1>6, <2>2
    <3>4. ByRule(answers[k]) <=> \E i \in 1 .. m : f[i] = k
      BY <1>5, <3>1
    <3>5. QED
      BY <3>2, <3>3, <3>4
  <2>3. QED
    BY <2>1, <2>2
<1>10. InOrder(s2, g, a2)
  BY <1>2, <1>7, <1>8 DEF InOrder
<1>11. IsTrail(s2, from, a2)
  <2>1. g \in [DOMAIN s2 -> from + 1 .. Len(a2)]
    BY <1>2, <1>3, <1>6
  <2>2. \A k \in from + 1 .. Len(a2) :
            ByRule(a2[k]) <=> \E i \in DOMAIN s2 : g[i] = k
    BY <1>2, <1>3, <1>9
  <2>3. QED
    BY <1>10, <2>1, <2>2, Zenon DEF IsTrail
<1>12. QED
  BY <1>11 DEF s2, a2

LEMMA TrailSkips ==
    ASSUME NEW s, NEW answers, Sequence(answers),
           NEW from \in 0 .. Len(answers), IsTrail(s, from, answers),
           NEW d, ~ByRule(d)
    PROVE  IsTrail(s, from, Append(answers, d))
<1> DEFINE n == Len(answers)
           a2 == Append(answers, d)
<1>1. /\ n \in Nat /\ from \in 0 .. n
      /\ Len(a2) = n + 1
      /\ \A i \in 1 .. n : a2[i] = answers[i]
      /\ a2[n + 1] = d
  BY SequenceFacts, Appended
<1> HIDE DEF n, a2
<1>2. PICK f \in [DOMAIN s -> from + 1 .. n] :
          /\ InOrder(s, f, answers)
          /\ \A k \in from + 1 .. n :
                ByRule(answers[k]) <=> \E i \in DOMAIN s : f[i] = k
  BY DEF IsTrail, n
<1>3. \A i \in DOMAIN s : f[i] \in 1 .. n /\ f[i] \in from + 1 .. n + 1
                          /\ f[i] # n + 1
  BY <1>1, <1>2
<1>4. f \in [DOMAIN s -> from + 1 .. n + 1]
  BY <1>2, <1>3
<1>5. InOrder(s, f, a2)
  BY <1>1, <1>2, <1>3 DEF InOrder
<1>6. ASSUME NEW k \in from + 1 .. n + 1
      PROVE  ByRule(a2[k]) <=> \E i \in DOMAIN s : f[i] = k
  <2>1. CASE k = n + 1
    BY <1>1, <1>3, <2>1
  <2>2. CASE k # n + 1
    <3>1. k \in from + 1 .. n /\ k \in 1 .. n
      BY <1>1, <2>2
    <3>2. QED
      BY <1>1, <1>2, <3>1
  <2>3. QED
    BY <2>1, <2>2
<1>7. QED
  BY <1>1, <1>4, <1>5, <1>6 DEF IsTrail, a2

(* The record is empty when it has just been cleared.                      *)
LEMMA TrailStarts ==
    ASSUME NEW answers, Sequence(answers)
    PROVE  IsTrail(<< >>, Len(answers), answers)
<1>1. Len(answers) \in Nat /\ DOMAIN << >> = {}
  BY SequenceFacts
<1>2. Len(answers) + 1 .. Len(answers) = {}
  BY <1>1
<1>3. [i \in {} |-> 0] \in [DOMAIN << >> -> Len(answers) + 1 .. Len(answers)]
  BY <1>1
<1>4. QED
  BY <1>1, <1>2, <1>3 DEF IsTrail, InOrder

(* The log file may miss answers, and gains the last one or none.          *)
LEMMA ThinnedLater ==
    ASSUME NEW s, NEW answers, Sequence(answers), IsThinned(s, answers), NEW d
    PROVE  IsThinned(s, Append(answers, d))
<1> DEFINE n == Len(answers)
           a2 == Append(answers, d)
<1>1. /\ n \in Nat /\ DOMAIN answers = 1 .. n
      /\ DOMAIN a2 = 1 .. n + 1
      /\ \A i \in 1 .. n : a2[i] = answers[i]
  BY SequenceFacts, Appended
<1> HIDE DEF n, a2
<1>2. PICK f \in [DOMAIN s -> {k \in 1 .. n : ByRule(answers[k])}] :
          InOrder(s, f, answers)
  BY <1>1 DEF IsThinned
<1>3. f \in [DOMAIN s -> {k \in 1 .. n + 1 : ByRule(a2[k])}]
  BY <1>1, <1>2
<1>4. InOrder(s, f, a2)
  BY <1>1, <1>2 DEF InOrder
<1>5. QED
  BY <1>1, <1>3, <1>4 DEF IsThinned, a2

LEMMA ThinnedExtends ==
    ASSUME NEW s, Sequence(s), NEW answers, Sequence(answers),
           IsThinned(s, answers), NEW d, ByRule(d)
    PROVE  IsThinned(Append(s, d), Append(answers, d))
<1> DEFINE m == Len(s)
           n == Len(answers)
           s2 == Append(s, d)
           a2 == Append(answers, d)
<1>1. /\ m \in Nat /\ DOMAIN s = 1 .. m
      /\ n \in Nat /\ DOMAIN answers = 1 .. n
  BY SequenceFacts
<1>2. /\ DOMAIN s2 = 1 .. m + 1
      /\ \A i \in 1 .. m : s2[i] = s[i]
      /\ s2[m + 1] = d
  BY Appended
<1>3. /\ DOMAIN a2 = 1 .. n + 1
      /\ \A i \in 1 .. n : a2[i] = answers[i]
      /\ a2[n + 1] = d
  BY Appended
<1> HIDE DEF m, n, s2, a2
<1>4. PICK f \in [1 .. m -> {k \in 1 .. n : ByRule(answers[k])}] :
          /\ \A i \in 1 .. m : s[i] = answers[f[i]]
          /\ \A i \in 1 .. m : \A j \in 1 .. i - 1 : f[j] < f[i]
  BY <1>1 DEF IsThinned, InOrder
<1> DEFINE g == [i \in 1 .. m + 1 |-> IF i <= m THEN f[i] ELSE n + 1]
<1>5. /\ \A i \in 1 .. m : g[i] = f[i] /\ f[i] \in 1 .. n
                           /\ ByRule(answers[f[i]])
      /\ g[m + 1] = n + 1
      /\ g \in [1 .. m + 1 -> 1 .. n + 1]
  BY <1>1, <1>4
<1> HIDE DEF g
<1>6. \A i \in 1 .. m + 1 : s2[i] = a2[g[i]] /\ ByRule(a2[g[i]])
  BY <1>1, <1>2, <1>3, <1>4, <1>5
<1>7. \A i \in 1 .. m + 1 : \A j \in 1 .. i - 1 : g[j] < g[i]
  <2>1. SUFFICES ASSUME NEW i \in 1 .. m + 1, NEW j \in 1 .. i - 1
                 PROVE  g[j] < g[i]
    OBVIOUS
  <2>2. j \in 1 .. m /\ g[j] = f[j] /\ f[j] \in 1 .. n
    BY <1>1, <1>5
  <2>3. CASE i = m + 1
    BY <1>1, <1>5, <2>2, <2>3
  <2>4. CASE i # m + 1
    BY <1>1, <1>4, <1>5, <2>2, <2>4
  <2>5. QED
    BY <2>3, <2>4
<1>8. g \in [1 .. m + 1 -> {k \in 1 .. n + 1 : ByRule(a2[k])}]
  BY <1>5, <1>6
<1>9. QED
  BY <1>1, <1>2, <1>3, <1>6, <1>7, <1>8 DEF IsThinned, InOrder, s2, a2

-----------------------------------------------------------------------------

(* Rules that tell that they decided: none is described as the answer that *)
(* is given when no rule matches.  Their priorities can be compared.       *)
ProperRule(rule) ==
    rule.description # NoMatchingRule /\ rule.priority \in Nat

Proper(s) == Sequence(s) /\ \A i \in DOMAIN s : ProperRule(s[i])

LEMMA PolicyIsProper ==
    ASSUME NEW f \in Files
    PROVE  Proper(PolicyOf(f)) /\ PolicyOf(f) # << >>
<1> DEFINE kept == {i \in DOMAIN f : IsRule(f[i])}
           n == Cardinality(kept)
<1>1. DOMAIN f = 1 .. Len(f) /\ Len(f) \in Nat
  BY LsmAssumption, LenProperties
<1>2. IsFiniteSet(kept)
  <2>1. IsFiniteSet(1 .. Len(f)) /\ kept \in SUBSET (1 .. Len(f))
    BY <1>1, FS_Interval
  <2>2. QED
    BY <2>1, FS_Subset
<1>3. n \in Nat
  BY <1>2, FS_CardinalityType
<1> DEFINE Nth(k) == CHOOSE i \in kept : Cardinality({j \in kept : j <= i}) = k
           r == [k \in 1 .. n |-> RuleOf(f[Nth(k)])]
<1>4. ParseRules(f) = r
  BY DEF ParseRules
<1> HIDE DEF kept, n, Nth
<1>5. \A k \in 1 .. n : r[k].description = "" /\ r[k].priority = 100
  BY DEF RuleOf, Rule
<1>6. Proper(r)
  <2>1. r \in [1 .. n -> {r[k] : k \in 1 .. n}]
    OBVIOUS
  <2>2. Sequence(r) /\ DOMAIN r = 1 .. n
    BY <1>3, <2>1, FunctionIsSequence
  <2>3. "" # NoMatchingRule /\ 100 \in Nat
    BY DEF NoMatchingRule
  <2> HIDE DEF r
  <2>4. \A k \in 1 .. n : ProperRule(r[k])
    BY <1>5, <2>3 DEF ProperRule
  <2>5. QED
    BY <2>2, <2>4 DEF Proper
<1> HIDE DEF r
<1>7. Proper(DefaultRules) /\ DefaultRules # << >>
  <2> DEFINE d == DefaultRules
  <2>1. /\ DOMAIN d = 1 .. 4 /\ d \in [1 .. 4 -> {d[k] : k \in 1 .. 4}]
        /\ Len(d) = 4
    BY DEF DefaultRules
  <2>2. /\ d[1].description # NoMatchingRule /\ d[1].priority = 200
        /\ d[2].description # NoMatchingRule /\ d[2].priority = 150
        /\ d[3].description # NoMatchingRule /\ d[3].priority = 300
        /\ d[4].description # NoMatchingRule /\ d[4].priority = 10
    BY DEF DefaultRules, Rule, NoMatchingRule
  <2> HIDE DEF d
  <2>3. Sequence(d)
    BY <2>1, FunctionIsSequence
  <2>4. \A k \in DOMAIN d : ProperRule(d[k])
    BY <2>1, <2>2 DEF ProperRule
  <2>5. d # << >>
    BY <2>1
  <2>6. QED
    BY <2>3, <2>4, <2>5 DEF d, Proper
<1>8. QED
  BY <1>4, <1>6, <1>7 DEF PolicyOf

LEMMA AddedIsProper ==
    ASSUME NEW s, Proper(s), NEW rule \in Extra
    PROVE  Proper(Append(s, rule))
<1>1. ProperRule(rule)
  BY LsmAssumption DEF ProperRule
<1>2. Sequence(s) /\ DOMAIN s = 1 .. Len(s) /\ Len(s) \in Nat
  BY SequenceFacts DEF Proper
<1>3. /\ Sequence(Append(s, rule))
      /\ DOMAIN Append(s, rule) = 1 .. Len(s) + 1
      /\ \A i \in 1 .. Len(s) : Append(s, rule)[i] = s[i]
      /\ Append(s, rule)[Len(s) + 1] = rule
  BY <1>2, Appended
<1>4. QED
  BY <1>1, <1>2, <1>3 DEF Proper

LEMMA RestIsProper ==
    ASSUME NEW s, Proper(s), NEW i \in DOMAIN s
    PROVE  Proper(RemoveAt(s, i))
<1> DEFINE S == {r \in ToSet(s) : ProperRule(r)}
           front == SubSeq(s, 1, i - 1)
           back == SubSeq(s, i + 1, Len(s))
<1>1. Sequence(s) /\ DOMAIN s = 1 .. Len(s) /\ Len(s) \in Nat
  BY SequenceFacts DEF Proper
<1>2. s \in [1 .. Len(s) -> S]
  BY <1>1, LenProperties, ElementOfSeq DEF Sequence, Proper
<1>3. s \in Seq(S)
  BY <1>1, <1>2, SeqDef
<1> HIDE DEF S
<1>4. i \in 1 .. Len(s)
  BY <1>1
<1>5. front \in Seq(S)
  BY <1>1, <1>3, <1>4, SubSeqProperties
<1>6. back \in Seq(S)
  BY <1>1, <1>3, <1>4, SubSeqProperties
<1>7. front \o back \in Seq(S)
  BY <1>5, <1>6, ConcatProperties
<1>8. RemoveAt(s, i) \in Seq(S)
  BY <1>7 DEF RemoveAt
<1> DEFINE rest == RemoveAt(s, i)
<1> HIDE DEF front, back, rest
<1>9. /\ rest \in Seq(S) /\ Len(rest) \in Nat /\ rest \in [1 .. Len(rest) -> S]
      /\ DOMAIN rest = 1 .. Len(rest)
  BY <1>8, LenProperties DEF rest
<1>10. Sequence(rest)
  BY <1>9, FunctionIsSequence
<1>11. \A k \in DOMAIN rest : ProperRule(rest[k])
  BY <1>9 DEF S
<1>12. QED
  BY <1>10, <1>11 DEF Proper, rest

-----------------------------------------------------------------------------

(* The inductive strengthening of TrailIsComplete and OpenOnlyWithoutFile: *)
(* the record can be told from the answers only because every rule tells   *)
(* that it decided.                                                        *)
TrailInv ==
    /\ Proper(rules)
    /\ Sequence(decisions) /\ Sequence(log) /\ Sequence(answered)
    /\ cleared \in 0 .. Len(answered)
    /\ TrailIsComplete
    /\ OpenOnlyWithoutFile

LEMMA CarriedIsByRule ==
    ASSUME IInv, TrailInv, NEW t \in Threads, pc[t] \in {"record", "log"}
    PROVE  ByRule(draft[t])
<1>1. PICK call \in Calls, i \in DOMAIN rules :
          draft[t] = Decision(rules[i], call.context)
  BY DEF IInv, CarriedVerdict
<1>2. draft[t].reason = rules[i].description
  BY <1>1 DEF Decision
<1>3. QED
  BY <1>2 DEF TrailInv, Proper, ProperRule, ByRule

LEMMA DefaultIsAllowed ==
    ASSUME NEW hook, NEW context
    PROVE  /\ ~ByRule(DefaultDecision(hook, context))
           /\ DefaultDecision(hook, context).action = "allow"
BY DEF ByRule, DefaultDecision

(* Answers of a rule or none keep that what is not allowed is by a rule.   *)
Explained(answers) ==
    \A i \in DOMAIN answers : answers[i].action # "allow" => ByRule(answers[i])

LEMMA StillExplained ==
    ASSUME NEW answers, Sequence(answers), Explained(answers), NEW d,
           d.action # "allow" => ByRule(d)
    PROVE  Explained(Append(answers, d))
<1>1. /\ DOMAIN answers = 1 .. Len(answers) /\ Len(answers) \in Nat
      /\ DOMAIN Append(answers, d) = 1 .. Len(answers) + 1
      /\ \A i \in 1 .. Len(answers) : Append(answers, d)[i] = answers[i]
      /\ Append(answers, d)[Len(answers) + 1] = d
  BY SequenceFacts, Appended
<1>2. QED
  BY <1>1 DEF Explained

(* Steps that neither record nor answer.                                   *)
LEMMA QuietTrail ==
    ASSUME TrailInv, UNCHANGED <<decisions, log, answered, cleared>>,
           \A t \in Threads : pc'[t] = "log" <=> pc[t] = "log",
           \A t \in Threads : pc[t] = "log" => draft'[t] = draft[t]
    PROVE  /\ Sequence(decisions)' /\ Sequence(log)' /\ Sequence(answered)'
           /\ (cleared \in 0 .. Len(answered))'
           /\ TrailIsComplete'
<1>1. {t \in Threads : pc'[t] = "log"} = {t \in Threads : pc[t] = "log"}
  OBVIOUS
<1>2. TrailIsComplete'
  BY <1>1 DEF TrailInv, TrailIsComplete
<1>3. QED
  BY <1>2 DEF TrailInv, Sequence

LEMMA InitTrail == Init => TrailInv
<1> SUFFICES ASSUME Init PROVE TrailInv
  OBVIOUS
<1>1. Sequence(<< >>) /\ Len(<< >>) = 0 /\ DOMAIN << >> = {}
  BY EmptySeq, FunctionIsSequence DEF Sequence
<1>2. IsTrail(<< >>, 0, << >>)
  BY <1>1, TrailStarts
<1>3. IsThinned(<< >>, << >>)
  <2> DEFINE ruled == {n \in DOMAIN << >> : ByRule(<< >>[n])}
             f == [i \in {} |-> 0]
  <2>1. f \in [DOMAIN << >> -> ruled]
    BY <1>1
  <2>2. InOrder(<< >>, f, << >>)
    BY <1>1 DEF InOrder
  <2> HIDE DEF f
  <2>3. QED
    BY <2>1, <2>2 DEF IsThinned
<1>4. {t \in Threads : pc[t] = "log"} = {}
  BY DEF Init
<1>5. TrailIsComplete
  BY <1>1, <1>2, <1>3, <1>4 DEF Init, TrailIsComplete
<1>6. QED
  BY <1>1, <1>5 DEF Init, TrailInv, Proper, OpenOnlyWithoutFile

(* Steps that change no rules, and at most add to how loads ended.         *)
LEMMA QuietRules ==
    ASSUME TrailInv, UNCHANGED rules,
           events' = events \/ \E e \in {"no file", "error"} : Happened(e)
    PROVE  Proper(rules)' /\ OpenOnlyWithoutFile'
BY DEF TrailInv, Proper, Sequence, OpenOnlyWithoutFile, Happened

LEMMA NextTrail ==
    ASSUME IInv, TrailInv, [Next]_vars
    PROVE  TrailInv'
<1> USE DEF history, store
<1>0. /\ pc \in [Threads -> {"idle", "read", "install", "record", "log", "stats"}]
      /\ DOMAIN draft = Threads
      /\ Exclusive /\ CarriedRules
      /\ Proper(rules) /\ Sequence(rules)
      /\ Sequence(decisions) /\ Sequence(log) /\ Sequence(answered)
      /\ cleared \in 0 .. Len(answered) /\ Len(answered) \in Nat
      /\ Explained(answered) /\ IsThinned(log, answered)
  <2>1. Len(answered) \in Nat
    BY SequenceFacts DEF TrailInv
  <2>2. Explained(answered) /\ IsThinned(log, answered)
    BY DEF TrailInv, TrailIsComplete, Explained
  <2>3. QED
    BY <2>1, <2>2 DEF IInv, TypeOK, TrailInv, Proper
<1>a. ASSUME TrailIsComplete', Proper(rules)', OpenOnlyWithoutFile',
             Sequence(decisions)', Sequence(log)', Sequence(answered)',
             (cleared \in 0 .. Len(answered))'
      PROVE  TrailInv'
  BY <1>a DEF TrailInv
<1>1. CASE Edit
  BY <1>a, <1>1, QuietTrail, QuietRules DEF Edit
<1>2. ASSUME NEW t \in Threads, LoadBegin(t) PROVE TrailInv'
  <2>1. \A s \in Threads : pc'[s] = "log" <=> pc[s] = "log"
    BY <1>0, <1>2 DEF LoadBegin, Goto
  <2>2. Proper(rules)' /\ OpenOnlyWithoutFile'
    BY <1>2, QuietRules DEF LoadBegin
  <2>3. QED
    BY <1>a, <1>2, <2>1, <2>2, QuietTrail DEF LoadBegin
<1>3. ASSUME NEW t \in Threads, AddRule(t) PROVE TrailInv'
  <2>1. PICK rule \in Extra : rules' = Append(rules, rule)
    BY <1>3 DEF AddRule
  <2>2. Proper(rules)'
    BY <1>0, <2>1, AddedIsProper DEF Proper, Sequence
  <2>3. rules' # << >>
    BY <1>0, <2>1, Appended
  <2>4. OpenOnlyWithoutFile'
    BY <2>3 DEF OpenOnlyWithoutFile
  <2>5. QED
    BY <1>a, <1>3, <2>2, <2>4, QuietTrail DEF AddRule
<1>4. ASSUME NEW t \in Threads, RemoveRule(t) PROVE TrailInv'
  <2>1. PICK i \in DOMAIN rules : rules' = RemoveAt(rules, i)
    BY <1>4 DEF RemoveRule
  <2>2. Proper(rules)'
    BY <1>0, <2>1, RestIsProper DEF Proper, Sequence
  <2>3. OpenOnlyWithoutFile'
    BY <1>4 DEF RemoveRule, Happened, OpenOnlyWithoutFile
  <2>4. QED
    BY <1>a, <1>4, <2>2, <2>3, QuietTrail DEF RemoveRule
<1>5. ASSUME NEW t \in Threads, EvaluateHook(t) PROVE TrailInv'
  <2>1. PICK call \in Calls : EvaluateWith(t, call.hook, call.context)
    BY <1>5 DEF EvaluateHook
  <2> DEFINE d == DefaultDecision(call.hook, call.context)
  <2>2. RulesFree /\ UNCHANGED <<rules, decisions, log, cleared, events>>
    BY <1>5 DEF EvaluateHook
  <2>3. Proper(rules)' /\ OpenOnlyWithoutFile'
    BY <2>2, QuietRules
  <2>4. CASE answered' = Append(answered, d) /\ UNCHANGED <<pc, draft>>
    <3>1. ~ByRule(d) /\ d.action = "allow"
      BY DefaultIsAllowed
    <3> HIDE DEF d
    <3>2. /\ Sequence(Append(answered, d))
          /\ Len(Append(answered, d)) = Len(answered) + 1
      BY <1>0, Appended
    <3>3. Explained(answered')
      BY <1>0, <2>4, <3>1, StillExplained
    <3>4. IsThinned(log, answered')
      BY <1>0, <2>4, ThinnedLater
    <3>5. {s \in Threads : pc[s] = "log"} = {}
      BY <2>2 DEF RulesFree
    <3>6. IsTrail(decisions, cleared, answered)
      BY <3>5 DEF TrailInv, TrailIsComplete
    <3>7. IsTrail(decisions, cleared, answered')
      BY <1>0, <2>4, <3>1, <3>6, TrailSkips
    <3>8. TrailIsComplete'
      BY <2>2, <2>4, <3>3, <3>4, <3>5, <3>7 DEF TrailIsComplete, Explained
    <3>9. Sequence(answered') /\ cleared \in 0 .. Len(answered')
      BY <1>0, <2>4, <3>2
    <3>10. QED
      BY <1>0, <1>a, <2>2, <2>3, <3>8, <3>9 DEF Sequence
  <2>5. CASE Goto(t, "record") /\ UNCHANGED answered
             /\ \E v : Carry(t, v)
    <3>1. /\ \A s \in Threads : pc'[s] = "log" <=> pc[s] = "log"
          /\ \A s \in Threads : pc[s] = "log" => draft'[s] = draft[s]
      BY <1>0, <1>5, <2>5 DEF EvaluateHook, Goto, Carry
    <3>2. QED
      BY <1>a, <2>2, <2>3, <2>5, <3>1, QuietTrail
  <2>6. QED
    BY <2>1, <2>4, <2>5 DEF EvaluateWith, Answer
<1>6. ASSUME NEW t \in Threads, ClearDecisions(t) PROVE TrailInv'
  <2>1. /\ decisions' = << >> /\ cleared' = Len(answered)
        /\ UNCHANGED <<rules, log, pc, draft, answered, events>>
        /\ DecisionsFree
    BY <1>6 DEF ClearDecisions
  <2>2. IsTrail(decisions', cleared', answered')
    BY <1>0, <2>1, TrailStarts
  <2>3. {s \in Threads : pc'[s] = "log"} = {}
    BY <2>1 DEF DecisionsFree
  <2>4. TrailIsComplete'
    BY <1>0, <2>1, <2>2, <2>3 DEF TrailIsComplete, Explained
  <2>5. Proper(rules)' /\ OpenOnlyWithoutFile'
    BY <2>1, QuietRules
  <2>6. Sequence(decisions)'
    BY <2>1, EmptySeq DEF Sequence
  <2>7. cleared' \in 0 .. Len(answered')
    BY <1>0, <2>1
  <2>8. QED
    BY <1>0, <1>a, <2>1, <2>4, <2>5, <2>6, <2>7 DEF Sequence
<1>7. ASSUME NEW t \in Threads, StatsRules(t) PROVE TrailInv'
  <2>1. \A s \in Threads : pc'[s] = "log" <=> pc[s] = "log"
    BY <1>0, <1>7 DEF StatsRules, Goto
  <2>2. QED
    BY <1>a, <1>7, <2>1, QuietTrail, QuietRules DEF StatsRules
<1>8. ASSUME NEW t \in Threads, LoadRead(t) PROVE TrailInv'
  <2>1. /\ \A s \in Threads : pc'[s] = "log" <=> pc[s] = "log"
        /\ \A s \in Threads : pc[s] = "log" => draft'[s] = draft[s]
    BY <1>0, <1>8 DEF LoadRead, Goto, Carry
  <2>2. Proper(rules)' /\ OpenOnlyWithoutFile'
    BY <1>8, QuietRules DEF LoadRead
  <2>3. QED
    BY <1>a, <1>8, <2>1, <2>2, QuietTrail DEF LoadRead
<1>9. ASSUME NEW t \in Threads, LoadInstall(t) PROVE TrailInv'
  <2>1. /\ \A s \in Threads : pc'[s] = "log" <=> pc[s] = "log"
        /\ \A s \in Threads : pc[s] = "log" => draft'[s] = draft[s]
    BY <1>0, <1>9 DEF LoadInstall, Goto, Carry
  <2>2. PICK f \in Files : rules' = PolicyOf(f)
    BY <1>0, <1>9 DEF LoadInstall, CarriedRules
  <2>3. Proper(rules') /\ rules' # << >>
    BY <2>2, PolicyIsProper
  <2>4. Proper(rules)' /\ OpenOnlyWithoutFile'
    BY <2>3 DEF Proper, Sequence, OpenOnlyWithoutFile
  <2>5. QED
    BY <1>a, <1>9, <2>1, <2>4, QuietTrail DEF LoadInstall
<1>10. ASSUME NEW t \in Threads, RecordDecision(t) PROVE TrailInv'
  <2>1. /\ decisions' = Append(decisions, draft[t])
        /\ UNCHANGED <<rules, log, draft, answered, cleared, events>>
        /\ DecisionsFree /\ pc[t] = "record" /\ pc'[t] = "log"
    BY <1>0, <1>10 DEF RecordDecision, Goto
  <2>2. ByRule(draft[t])
    BY <2>1, CarriedIsByRule
  <2>3. IsTrail(decisions, cleared, answered)
    BY <2>1 DEF DecisionsFree, TrailInv, TrailIsComplete
  <2>4. IsTrail(Append(decisions, draft[t]), cleared, Append(answered, draft[t]))
    BY <1>0, <2>2, <2>3, TrailExtends
  <2>5. TrailIsComplete'
    BY <1>0, <2>1, <2>4 DEF TrailIsComplete, Explained
  <2>6. Sequence(decisions)'
    BY <1>0, <2>1, Appended DEF Sequence
  <2>7. Proper(rules)' /\ OpenOnlyWithoutFile'
    BY <2>1, QuietRules
  <2>8. QED
    BY <1>0, <1>a, <2>1, <2>5, <2>6, <2>7 DEF Sequence
<1>11. ASSUME NEW t \in Threads, LogDecision(t) PROVE TrailInv'
  <2> DEFINE d == draft[t]
  <2>1. /\ answered' = Append(answered, d)
        /\ log' = Append(log, d) \/ UNCHANGED log
        /\ UNCHANGED <<rules, decisions, cleared, events>>
        /\ pc[t] = "log"
        /\ \A s \in Threads : pc'[s] = IF s = t THEN "idle" ELSE pc[s]
    BY <1>0, <1>11 DEF LogDecision, Goto, Answer
  <2>2. ByRule(d)
    BY <2>1, CarriedIsByRule
  <2>3. {s \in Threads : pc[s] = "log"} = {t}
    BY <1>0, <2>1 DEF Exclusive, Holding
  <2>4. IsTrail(decisions, cleared, Append(answered, d))
    BY <2>3 DEF TrailInv, TrailIsComplete
  <2> HIDE DEF d
  <2>5. {s \in Threads : pc'[s] = "log"} = {}
    BY <2>1, <2>3
  <2>6. Explained(answered')
    BY <1>0, <2>1, <2>2, StillExplained
  <2>7. IsThinned(log', answered')
    BY <1>0, <2>1, <2>2, ThinnedLater, ThinnedExtends
  <2>8. TrailIsComplete'
    BY <2>1, <2>4, <2>5, <2>6, <2>7 DEF TrailIsComplete, Explained
  <2>9. /\ Sequence(answered') /\ Len(answered') = Len(answered) + 1
        /\ Sequence(log')
    BY <1>0, <2>1, Appended
  <2>10. cleared' \in 0 .. Len(answered')
    BY <1>0, <2>1, <2>9
  <2>11. Proper(rules)' /\ OpenOnlyWithoutFile'
    BY <2>1, QuietRules
  <2>12. QED
    BY <1>0, <1>a, <2>1, <2>8, <2>9, <2>10, <2>11 DEF Sequence
<1>12. ASSUME NEW t \in Threads, StatsDecisions(t) PROVE TrailInv'
  <2>1. \A s \in Threads : pc'[s] = "log" <=> pc[s] = "log"
    BY <1>0, <1>12 DEF StatsDecisions, Goto
  <2>2. QED
    BY <1>a, <1>12, <2>1, QuietTrail, QuietRules DEF StatsDecisions
<1>13. CASE UNCHANGED vars
  BY <1>a, <1>13, QuietTrail, QuietRules DEF vars
<1>14. QED
  BY <1>1, <1>2, <1>3, <1>4, <1>5, <1>6, <1>7, <1>8, <1>9, <1>10, <1>11,
     <1>12, <1>13 DEF Next, Continue

(* Every answer of a rule is on record, once and in order, until the       *)
(* record is cleared, and the log file has no other and none out of order. *)
THEOREM TrailTells == Spec => []TrailIsComplete
<1>1. TrailInv => TrailIsComplete
  BY DEF TrailInv
<1>2. QED
  BY <1>1, InitIInv, NextIInv, InitTrail, NextTrail, PTL DEF Spec

(* A policy once installed is never lost but by removals: the file that    *)
(* has no rules gives the defaults, and additions keep a rule.             *)
THEOREM OpenOnlyByRemoval == Spec => []OpenOnlyWithoutFile
<1>1. TrailInv => OpenOnlyWithoutFile
  BY DEF TrailInv
<1>2. QED
  BY <1>1, InitIInv, NextIInv, InitTrail, NextTrail, PTL DEF Spec

-----------------------------------------------------------------------------

(* Induction, for sets: < on the naturals is well founded.                 *)
LEMMA Induction ==
    ASSUME NEW S, 0 \in S, \A n \in Nat : n \in S => n + 1 \in S
    PROVE  Nat \subseteq S
<1> DEFINE less == OpToRel(<, Nat)
           out == {n \in Nat : n \notin S}
<1>1. IsWellFoundedOn(less, Nat)
  BY NatLessThanWellFounded
<1>2. \A m, n \in Nat : m < n => <<m, n>> \in less
  BY DEF OpToRel
<1> HIDE DEF less
<1>3. SUFFICES ASSUME out # {} PROVE FALSE
  OBVIOUS
<1>4. PICK n \in out : \A m \in out : ~(<<m, n>> \in less)
  BY <1>1, <1>3, WFMin
<1>5. n - 1 \in Nat /\ n - 1 < n
  BY <1>4
<1>6. n - 1 \notin out
  BY <1>2, <1>4, <1>5
<1>7. QED
  BY <1>4, <1>5, <1>6

(* The rule a stable sort by falling priority puts first.                  *)
Leads(s, i, S) ==
    \A j \in S :
        \/ s[j].priority < s[i].priority
        \/ s[j].priority = s[i].priority /\ i <= j

(* There is one among any rules, by induction on where they may be.        *)
LEMMA SomeLeads ==
    ASSUME NEW s, Proper(s), NEW S \in SUBSET DOMAIN s, S # {}
    PROVE  \E i \in S : Leads(s, i, S)
<1>1. DOMAIN s = 1 .. Len(s) /\ Len(s) \in Nat
  BY SequenceFacts DEF Proper
<1>2. \A i \in S : i \in Nat /\ i >= 1 /\ i <= Len(s) /\ s[i].priority \in Nat
  BY <1>1 DEF Proper, ProperRule
<1> DEFINE Below(k) == {i \in S : i <= k}
           led == {k \in Nat : Below(k) = {} \/ \E i \in Below(k) : Leads(s, i, Below(k))}
<1>3. 0 \in led
  BY <1>2
<1>4. ASSUME NEW k \in Nat, k \in led PROVE k + 1 \in led
  <2>1. CASE k + 1 \notin S
    <3>1. Below(k + 1) = Below(k)
      BY <1>2, <2>1
    <3>2. QED
      BY <1>4, <3>1
  <2>2. CASE k + 1 \in S /\ Below(k) = {}
    <3>1. Below(k + 1) = {k + 1}
      BY <1>2, <2>2
    <3>2. Leads(s, k + 1, {k + 1})
      BY <1>2, <2>2 DEF Leads
    <3>3. QED
      BY <3>1, <3>2
  <2>3. CASE k + 1 \in S /\ Below(k) # {}
    <3>1. PICK i \in Below(k) : Leads(s, i, Below(k))
      BY <1>4, <2>3
    <3>2. \A j \in Below(k + 1) : j \in Below(k) \/ j = k + 1
      BY <1>2
    <3>3. k + 1 \in Below(k + 1) /\ i \in Below(k + 1)
      BY <1>2, <2>3, <3>1
    <3>4. CASE s[i].priority < s[k + 1].priority
      <4>1. Leads(s, k + 1, Below(k + 1))
        BY <1>2, <2>3, <3>1, <3>2, <3>4 DEF Leads
      <4>2. QED
        BY <3>3, <4>1
    <3>5. CASE ~(s[i].priority < s[k + 1].priority)
      <4>1. Leads(s, i, Below(k + 1))
        BY <1>2, <2>3, <3>1, <3>2, <3>5 DEF Leads
      <4>2. QED
        BY <3>3, <4>1
    <3>6. QED
      BY <3>4, <3>5
  <2>4. QED
    BY <2>1, <2>2, <2>3
<1> HIDE DEF led
<1>5. Nat \subseteq led
  BY <1>3, <1>4, Induction
<1>6. Below(Len(s)) = S
  BY <1>2
<1>7. QED
  BY <1>1, <1>5, <1>6 DEF led

(* A call has one verdict: some decision is one, and no other is.          *)
HasOneVerdict(hook, context) ==
    \E verdict : \A other :
        Policy!IsVerdict(rules, hook, context, other) <=> other = verdict

(* Whatever was loaded, added and removed, the rules in force give every   *)
(* call exactly one verdict: evaluate_hook's choice of the first of the    *)
(* sorted rules is never empty-handed and never ambiguous.                 *)
OneVerdict == \A call \in Calls : HasOneVerdict(call.hook, call.context)

LEMMA ProperRulesDecide ==
    ASSUME Proper(rules), NEW hook, NEW context
    PROVE  HasOneVerdict(hook, context)
<1> DEFINE matching == {i \in DOMAIN rules : Matches(rules[i], hook, context)}
<1>1. CASE matching = {}
  BY <1>1 DEF HasOneVerdict, Policy!IsVerdict, Policy!Prevails
<1>2. CASE matching # {}
  <2>1. PICK i \in matching : Leads(rules, i, matching)
    BY <1>2, SomeLeads
  <2>2. Policy!Prevails(rules, i, hook, context)
    BY <2>1 DEF Leads, Policy!Prevails
  <2>3. \A j \in matching : j \in Nat /\ rules[j].priority \in Nat
    <3>1. DOMAIN rules = 1 .. Len(rules) /\ Len(rules) \in Nat
      BY SequenceFacts DEF Proper
    <3>2. QED
      BY <3>1 DEF Proper, ProperRule
  <2>4. ASSUME NEW j \in DOMAIN rules, Policy!Prevails(rules, j, hook, context)
        PROVE  j = i
    BY <2>1, <2>2, <2>3, <2>4 DEF Policy!Prevails
  <2>5. \E k \in DOMAIN rules : Matches(rules[k], hook, context)
    BY <1>2
  <2> HIDE DEF matching
  <2>6. \A other : Policy!IsVerdict(rules, hook, context, other)
                       <=> other = Decision(rules[i], context)
    BY <2>1, <2>2, <2>4, <2>5 DEF Policy!IsVerdict, matching
  <2>7. QED
    BY <2>6 DEF HasOneVerdict
<1>3. QED
  BY <1>1, <1>2

(* Every call has exactly one verdict, for any rules that can come to be.  *)
THEOREM VerdictIsOne == Spec => []OneVerdict
<1>1. TrailInv => OneVerdict
  BY ProperRulesDecide DEF TrailInv, OneVerdict
<1>2. QED
  BY <1>1, InitIInv, NextIInv, InitTrail, NextTrail, PTL DEF Spec

-----------------------------------------------------------------------------

(* The lines kept up to the i-th, and their number.                        *)
UpTo(kept, i) == {j \in kept : j <= i}
Count(kept, i) == Cardinality(UpTo(kept, i))

LEMMA CountSteps ==
    ASSUME NEW N \in Nat, NEW kept \in SUBSET (1 .. N)
    PROVE  /\ \A i \in Nat : Count(kept, i) \in Nat
           /\ Count(kept, 0) = 0
           /\ \A i \in Nat : i + 1 \in kept => Count(kept, i + 1) = Count(kept, i) + 1
           /\ \A i \in Nat : i + 1 \notin kept => Count(kept, i + 1) = Count(kept, i)
           /\ \A i, j \in Nat : i <= j => Count(kept, i) <= Count(kept, j)
           /\ Count(kept, N) = Cardinality(kept)
<1>1. IsFiniteSet(kept)
  <2>1. IsFiniteSet(1 .. N)
    BY FS_Interval
  <2>2. QED
    BY <2>1, FS_Subset
<1>2. \A j \in kept : j \in Nat /\ 1 <= j /\ j <= N
  OBVIOUS
<1>3. ASSUME NEW i \in Nat
      PROVE  IsFiniteSet(UpTo(kept, i)) /\ Count(kept, i) \in Nat
  <2>1. UpTo(kept, i) \in SUBSET kept
    BY DEF UpTo
  <2>2. IsFiniteSet(UpTo(kept, i))
    BY <1>1, <2>1, FS_Subset
  <2>3. QED
    BY <2>2, FS_CardinalityType DEF Count
<1>4. Count(kept, 0) = 0
  <2>1. \A j \in kept : ~(j <= 0)
    BY <1>2
  <2>2. UpTo(kept, 0) = {}
    BY <2>1 DEF UpTo
  <2>3. QED
    BY <2>2, FS_EmptySet DEF Count
<1>5. ASSUME NEW i \in Nat, i + 1 \in kept
      PROVE  Count(kept, i + 1) = Count(kept, i) + 1
  <2>1. \A j \in kept : j <= i + 1 <=> j <= i \/ j = i + 1
    BY <1>2
  <2>2. i + 1 <= i + 1 /\ ~(i + 1 <= i)
    OBVIOUS
  <2>3. UpTo(kept, i + 1) = UpTo(kept, i) \cup {i + 1} /\ i + 1 \notin UpTo(kept, i)
    <3> DEFINE next == i + 1
    <3> HIDE DEF next
    <3>1. \A j \in kept : j <= next <=> j <= i \/ j = next
      BY <2>1 DEF next
    <3>2. next <= next /\ ~(next <= i) /\ next \in kept
      BY <1>5, <2>2 DEF next
    <3>3. UpTo(kept, next) = UpTo(kept, i) \cup {next} /\ next \notin UpTo(kept, i)
      BY <3>1, <3>2, Zenon DEF UpTo
    <3>4. QED
      BY <3>3 DEF next
  <2>4. QED
    BY <1>3, <2>3, FS_AddElement DEF Count
<1>6. ASSUME NEW i \in Nat, i + 1 \notin kept
      PROVE  Count(kept, i + 1) = Count(kept, i)
  <2>1. \A j \in kept : j <= i + 1 <=> j <= i
    <3>1. SUFFICES ASSUME NEW j \in kept PROVE j <= i + 1 <=> j <= i
      OBVIOUS
    <3>2. j \in Nat /\ j # i + 1
      BY <1>2, <1>6
    <3>3. QED
      BY <3>2
  <2>2. UpTo(kept, i + 1) = UpTo(kept, i)
    BY <2>1, Zenon DEF UpTo
  <2>3. QED
    BY <2>2 DEF Count
<1>7. ASSUME NEW i \in Nat, NEW j \in Nat, i <= j
      PROVE  Count(kept, i) <= Count(kept, j)
  <2>1. \A k \in kept : k <= i => k <= j
    BY <1>2, <1>7
  <2>2. UpTo(kept, i) \in SUBSET UpTo(kept, j)
    BY <2>1, Zenon DEF UpTo
  <2>3. QED
    BY <1>3, <2>2, FS_Subset DEF Count
<1>8. Count(kept, N) = Cardinality(kept)
  <2>1. UpTo(kept, N) = kept
    BY <1>2, Zenon DEF UpTo
  <2>2. QED
    BY <2>1 DEF Count
<1>9. QED
  BY <1>3, <1>4, <1>5, <1>6, <1>7, <1>8

(* Every number up to that of all is the number of one of those kept.      *)
LEMMA EveryPlaceIsTaken ==
    ASSUME NEW N \in Nat, NEW kept \in SUBSET (1 .. N),
           NEW k \in 1 .. Cardinality(kept)
    PROVE  \E j \in kept : Count(kept, j) = k
<1> DEFINE found == {i \in Nat : Count(kept, i) >= k =>
                         \E j \in kept : Count(kept, j) = k}
<1>1. Cardinality(kept) \in Nat /\ k \in Nat /\ k >= 1 /\ k <= Cardinality(kept)
  BY CountSteps
<1>2. 0 \in found
  <2>1. Count(kept, 0) = 0
    BY CountSteps
  <2>2. ~(Count(kept, 0) >= k)
    BY <1>1, <2>1
  <2>3. QED
    BY <2>2
<1>3. ASSUME NEW i \in Nat, i \in found PROVE i + 1 \in found
  <2>1. SUFFICES ASSUME Count(kept, i + 1) >= k, ~(Count(kept, i) >= k)
                 PROVE  \E j \in kept : Count(kept, j) = k
    BY <1>3
  <2>2. i + 1 \in kept /\ Count(kept, i + 1) = Count(kept, i) + 1
    BY <1>1, <2>1, CountSteps
  <2>3. Count(kept, i + 1) = k
    BY <1>1, <2>1, <2>2, CountSteps
  <2>4. QED
    BY <2>2, <2>3
<1> HIDE DEF found
<1>4. Nat \subseteq found
  BY <1>2, <1>3, Induction
<1>5. Count(kept, N) >= k
  BY <1>1, CountSteps
<1>6. QED
  BY <1>4, <1>5 DEF found

LEMMA CountTellsOrder ==
    ASSUME NEW N \in Nat, NEW kept \in SUBSET (1 .. N), NEW i \in kept, NEW j \in kept
    PROVE  /\ i < j => Count(kept, i) < Count(kept, j)
           /\ Count(kept, i) \in 1 .. Cardinality(kept)
<1>1. i \in Nat /\ j \in Nat /\ i >= 1 /\ j >= 1 /\ i <= N
  OBVIOUS
<1>2. ASSUME i < j PROVE Count(kept, i) < Count(kept, j)
  <2> DEFINE m == j - 1
  <2>1. m \in Nat /\ i <= m /\ m + 1 = j
    BY <1>1, <1>2
  <2> HIDE DEF m
  <2>2. Count(kept, i) <= Count(kept, m)
    BY <1>1, <2>1, CountSteps
  <2>3. Count(kept, m + 1) = Count(kept, m) + 1
    BY <2>1, CountSteps
  <2>4. Count(kept, i) \in Nat /\ Count(kept, m) \in Nat
    BY <1>1, <2>1, CountSteps
  <2>5. QED
    BY <2>1, <2>2, <2>3, <2>4
<1>3. Count(kept, i) <= Cardinality(kept) /\ Count(kept, i) \in Nat
  <2>1. Count(kept, N) = Cardinality(kept) /\ Count(kept, i) \in Nat
    BY <1>1, CountSteps
  <2>2. Count(kept, i) <= Count(kept, N)
    BY <1>1, CountSteps
  <2>3. QED
    BY <2>1, <2>2
<1>4. Count(kept, i) >= 1
  <2> DEFINE m == i - 1
  <2>1. m \in Nat /\ m + 1 = i
    BY <1>1
  <2> HIDE DEF m
  <2>2. Count(kept, m + 1) = Count(kept, m) + 1 /\ Count(kept, m) \in Nat
    BY <2>1, CountSteps
  <2>3. QED
    BY <2>1, <2>2
<1>5. Cardinality(kept) \in Nat
  BY CountSteps
<1>6. QED
  BY <1>2, <1>3, <1>4, <1>5

(* parse_rules keeps the rules of a file as they are written: every line   *)
(* that is a rule gives one, in the order of the lines, and nothing else   *)
(* does.                                                                   *)
THEOREM ParsedInOrder ==
    ASSUME NEW f \in Files
    PROVE  LET parsed == ParseRules(f)
               kept == {i \in DOMAIN f : IsRule(f[i])}
           IN  \E place \in [DOMAIN parsed -> kept] :
                   /\ \A k \in DOMAIN parsed :
                         /\ parsed[k] = RuleOf(f[place[k]])
                         /\ \A j \in 1 .. k - 1 : place[j] < place[k]
                   /\ \A i \in kept : \E k \in DOMAIN parsed : place[k] = i
<1> DEFINE kept == {i \in DOMAIN f : IsRule(f[i])}
           n == Cardinality(kept)
           Nth(k) == CHOOSE i \in kept : Cardinality({j \in kept : j <= i}) = k
           place == [k \in 1 .. n |-> Nth(k)]
           parsed == [k \in 1 .. n |-> RuleOf(f[Nth(k)])]
<1>1. DOMAIN f = 1 .. Len(f) /\ Len(f) \in Nat
  BY LsmAssumption, LenProperties
<1>2. kept \in SUBSET (1 .. Len(f))
  BY <1>1
<1>3. ParseRules(f) = parsed
  BY DEF ParseRules
<1>4. ASSUME NEW k \in 1 .. n PROVE Nth(k) \in kept /\ Count(kept, Nth(k)) = k
  <2>1. \E i \in kept : Count(kept, i) = k
    BY <1>1, <1>2, EveryPlaceIsTaken
  <2> HIDE DEF kept, n
  <2>2. QED
    BY <2>1 DEF Count, UpTo
<1>5. \A k \in 1 .. n : place[k] = Nth(k) /\ parsed[k] = RuleOf(f[place[k]])
  OBVIOUS
<1>6. DOMAIN parsed = 1 .. n
  OBVIOUS
<1>7. n \in Nat
  BY <1>1, <1>2, CountSteps
<1>8. place \in [1 .. n -> kept]
  <2> HIDE DEF kept, n, Nth
  <2>1. QED
    BY <1>4
<1> HIDE DEF kept, n, Nth, place, parsed
<1>9. \A i, j \in kept :
          /\ i \in Nat
          /\ i < j => Count(kept, i) < Count(kept, j)
          /\ Count(kept, i) \in 1 .. n
  <2>1. \A i \in kept : i \in Nat
    BY <1>1, <1>2
  <2>2. ASSUME NEW i \in kept, NEW j \in kept
        PROVE  (i < j => Count(kept, i) < Count(kept, j)) /\ Count(kept, i) \in 1 .. n
    BY <1>1, <1>2, CountTellsOrder DEF n
  <2>3. QED
    BY <2>1, <2>2
<1>10. ASSUME NEW k \in 1 .. n, NEW j \in 1 .. k - 1 PROVE place[j] < place[k]
  <2> DEFINE a == place[j]
             b == place[k]
  <2>1. j \in 1 .. n /\ j < k
    BY <1>7
  <2>2. a \in kept /\ b \in kept /\ Count(kept, a) = j /\ Count(kept, b) = k
    BY <1>4, <1>5, <2>1
  <2> HIDE DEF a, b
  <2>3. a \in Nat /\ b \in Nat /\ ~(b < a) /\ a # b
    BY <1>7, <1>9, <2>1, <2>2
  <2>4. a < b
    BY <2>3
  <2>5. QED
    BY <2>4 DEF a, b
<1>11. ASSUME NEW i \in kept PROVE \E k \in 1 .. n : place[k] = i
  <2> DEFINE k == Count(kept, i)
             a == place[k]
  <2>1. k \in 1 .. n
    BY <1>9
  <2>2. a \in kept /\ Count(kept, a) = k
    BY <1>4, <1>5, <2>1
  <2>3. k \in Nat
    BY <1>7, <2>1
  <2> HIDE DEF a
  <2>4. i \in Nat /\ a \in Nat /\ ~(a < i) /\ ~(i < a)
    BY <1>9, <2>2, <2>3
  <2>5. a = i
    BY <2>4
  <2>6. QED
    BY <2>1, <2>5 DEF a
<1>12. /\ place \in [DOMAIN parsed -> kept]
       /\ \A k \in DOMAIN parsed :
             /\ parsed[k] = RuleOf(f[place[k]])
             /\ \A j \in 1 .. k - 1 : place[j] < place[k]
       /\ \A i \in kept : \E k \in DOMAIN parsed : place[k] = i
  BY <1>5, <1>6, <1>8, <1>10, <1>11
<1>13. QED
  BY <1>3, <1>12 DEF kept

-----------------------------------------------------------------------------

(* What CallsReturn rests on, without the fairness: no call waits for ever *)
(* by itself.  CanGoOn is what the actions of Continue ask of a thread at  *)
(* its place.                                                              *)
CanGoOn(t) ==
    \/ pc[t] \in {"read", "log"}
    \/ pc[t] = "install" /\ RulesFree
    \/ pc[t] \in {"record", "stats"} /\ DecisionsFree

(* Whoever has the rules' mutex can always go on: although it takes the    *)
(* second mutex while it holds the first, it never has to wait for it.  So *)
(* a load waits only for a call that is about to give the mutex up.        *)
HoldersGoOn ==
    /\ \A t \in Threads : Holding(t) => CanGoOn(t)
    /\ \A t \in Threads : pc[t] # "idle" =>
           CanGoOn(t) \/ \E u \in Threads : Holding(u) /\ CanGoOn(u)

(* No thread that has begun a call ever waits in a circle.                 *)
THEOREM NoCircularWait == Spec => []HoldersGoOn
<1>1. ASSUME IInv PROVE HoldersGoOn
  <2>1. \A t \in Threads :
            pc[t] \in {"idle", "read", "install", "record", "log", "stats"}
    BY <1>1 DEF IInv, TypeOK
  <2>2. \A t \in Threads : Holding(t) => CanGoOn(t)
    BY <1>1, <2>1 DEF IInv, Exclusive, Holding, CanGoOn, DecisionsFree
  <2>3. \A t \in Threads : pc[t] # "idle" =>
            CanGoOn(t) \/ \E u \in Threads : Holding(u)
    BY <2>1, <2>2 DEF Holding, CanGoOn, RulesFree
  <2>4. QED
    BY <2>2, <2>3 DEF HoldersGoOn
<1>2. QED
  BY <1>1, InitIInv, NextIInv, PTL DEF Spec

(* How many steps of its own a call still has before it.                   *)
StepsLeft(place) ==
    CASE place \in {"read", "record"} -> 2
      [] place \in {"install", "log", "stats"} -> 1
      [] place = "idle" -> 0

(* A step leaves every call that has begun where it is, or takes it nearer *)
(* to its end: nothing is retried, and nobody sends another thread back.   *)
CallsAdvance ==
    \A t \in Threads :
        pc[t] # "idle" => pc'[t] = pc[t] \/ StepsLeft(pc'[t]) < StepsLeft(pc[t])

(* A call ends after at most two steps once it has begun.                  *)
THEOREM CallsAreShort == Spec => [][CallsAdvance]_vars
<1>1. ASSUME IInv, [Next]_vars PROVE CallsAdvance \/ UNCHANGED vars
  <2>1. pc \in [Threads -> {"idle", "read", "install", "record", "log", "stats"}]
    BY <1>1 DEF IInv, TypeOK
  <2>2. /\ StepsLeft("idle") = 0 /\ StepsLeft("read") = 2
        /\ StepsLeft("record") = 2 /\ StepsLeft("install") = 1
        /\ StepsLeft("log") = 1 /\ StepsLeft("stats") = 1
    BY DEF StepsLeft
  <2>3. ASSUME NEW t \in Threads, NEW place, pc[t] = "idle", Goto(t, place)
        PROVE  CallsAdvance
    BY <2>1, <2>3 DEF Goto, CallsAdvance
  <2>4. ASSUME NEW t \in Threads, NEW place, Goto(t, place),
               StepsLeft(place) < StepsLeft(pc[t])
        PROVE  CallsAdvance
    BY <2>1, <2>4 DEF Goto, CallsAdvance
  <2>5. ASSUME UNCHANGED pc PROVE CallsAdvance
    BY <2>5 DEF CallsAdvance
  <2>6. ASSUME NEW t \in Threads,
               \/ LoadBegin(t) \/ AddRule(t) \/ RemoveRule(t)
               \/ EvaluateHook(t) \/ ClearDecisions(t) \/ StatsRules(t)
        PROVE  CallsAdvance
    BY <2>3, <2>5, <2>6
    DEF LoadBegin, AddRule, RemoveRule, EvaluateHook, EvaluateWith, ClearDecisions,
        StatsRules
  <2>7. ASSUME NEW t \in Threads, LoadRead(t) PROVE CallsAdvance
    BY <2>2, <2>4, <2>7 DEF LoadRead
  <2>8. ASSUME NEW t \in Threads, RecordDecision(t) PROVE CallsAdvance
    BY <2>2, <2>4, <2>8 DEF RecordDecision
  <2>9. ASSUME NEW t \in Threads, LoadInstall(t) \/ LogDecision(t) \/ StatsDecisions(t)
        PROVE  CallsAdvance
    BY <2>2, <2>4, <2>9 DEF LoadInstall, LogDecision, StatsDecisions
  <2>10. CASE Edit
    BY <2>5, <2>10 DEF Edit
  <2>11. QED
    BY <1>1, <2>6, <2>7, <2>8, <2>9, <2>10 DEF Next, Continue
<1>2. QED
  BY <1>1, InitIInv, NextIInv, PTL DEF Spec

=============================================================================
