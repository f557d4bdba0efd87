----------------------------- MODULE MCRollback -----------------------------
(* One call that is below its threshold, one that always deviates but      *)
(* never reaches it, and two that reach trigger_rollback.                  *)
EXTENDS Rollback, TLC

Symmetry == Permutations(Threads)

MCRequests ==
    { [call |-> "detect_and_trigger", trigger |-> Trigger("KernelPanic", 100)],
      [call |-> "detect_and_trigger", trigger |-> Trigger("BootFailure", 95)],
      [call |-> "monitor", entropy |-> 50],
      [call |-> "force_rollback"] }
=============================================================================
