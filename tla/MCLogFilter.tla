---------------------------- MODULE MCLogFilter ----------------------------
(* The four steps of the lifecycle, one of them an error, and a reset on a *)
(* long line.                                                              *)
EXTENDS LogFilter

Line(words, status, len) == [words |-> words, status |-> status, len |-> len]

MCLines ==
    { Line({"start"}, Info, 1),
      Line({"authenticate", "failed"}, Info, 1),
      Line({"bind", "debug"}, 3, 2),
      Line({"ready", "start"}, Info, 1),
      Line({"reset", "start"}, Info, 9) }

MCThresholds == { [num |-> 7, den |-> 5], [num |-> -1, den |-> 1] }

MCOptions == SUBSET {"analytics", "verify"}
=============================================================================
