------------------------------- MODULE MCLsm --------------------------------
(* A file without a rule, so that the defaults apply, and one with a denial*)
(* under a word the parser does not know, a silent denial after a condition*)
(* it cannot read, and lines it skips.                                     *)
EXTENDS Lsm, TLC

Text(word) == <<word>>

MCTmpDir == Text("/tmp/")

MCNumeral == Text("0") :> 0 @@ Text("21") :> 21 @@ Text("1000") :> 1000

Line(head, conditions, action) ==
    [blank |-> FALSE, arrows |-> 1, head |-> head,
     conditions |-> conditions, action |-> action]

Comment == [Line(<<"only", "capable">>, << >>, "allow") EXCEPT !.blank = TRUE]

MCFiles ==
    { << Comment, [Comment EXCEPT !.blank = FALSE, !.arrows = 2] >>,
      << Line(<<"guard", "process_exec">>, << <<"uid", Text("0")>> >>, "audit"),
         Line(<<"short">>, << >>, "allow"),
         Line(<<"stop", "process_exec">>, << <<"path">> >>, "silent_deny"),
         Line(<<"quit", "process_exit">>, << >>, "refuse") >> }

MCExtra ==
    { Rule("stop", "process_exec",
           {Condition("Boolean", "trusted", [wanted |-> FALSE])},
           "allow", 200, "Untrusted") }

MCCalls ==
    { [hook |-> "process_exec",
       context |-> [path |-> <<"/tmp/", "x">>, uid |-> Text("0")]],
      [hook |-> "capable",
       context |-> [cap |-> Text("21"), uid |-> Text("1000")]],
      [hook |-> "file_open", context |-> [pid |-> Text("21")]] }
=============================================================================
