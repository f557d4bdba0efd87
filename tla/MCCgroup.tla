------------------------------ MODULE MCCgroup ------------------------------
(* A process at rest, a growth of its memory over the threshold at the     *)
(* same moment and a moment later, and a growth of its CPU use.            *)
EXTENDS Cgroup, TLC

Symmetry == Permutations(Threads)

Sample(time, memory, cpu) == [time |-> time, memory |-> memory, cpu |-> cpu]

MCSamples == { Sample(1, 0, 0), Sample(1, 3, 0), Sample(2, 3, 0), Sample(2, 0, 3) }
=============================================================================
