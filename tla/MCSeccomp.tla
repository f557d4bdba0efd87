----------------------------- MODULE MCSeccomp ------------------------------
(* Two processes, and events enough for a handshake beside a violation and *)
(* a reset.                                                                *)
EXTENDS Seccomp, TLC

Symmetry == Permutations(Pids)
=============================================================================
