------------------------------- MODULE MCZram -------------------------------
(* One process far over the snapshot limit and one under it, two devices.  *)
EXTENDS Zram, TLC

Symmetry == Permutations(Threads)

MCRss == [small |-> 1, large |-> 8]
MCDevices == <<1, 2>>
=============================================================================
