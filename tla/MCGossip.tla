------------------------------ MODULE MCGossip ------------------------------
(* Two starts, and a platform that may or may not let an address be bound  *)
(* a second time.                                                          *)
EXTENDS Gossip, TLC

Symmetry ==
    Permutations(Receivers) \cup Permutations(Heartbeats)
        \cup Permutations(Gossipers)

MCRebinds == {TRUE, FALSE}
=============================================================================
