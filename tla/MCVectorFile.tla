---------------------------- MODULE MCVectorFile ----------------------------
(* Lines with the first two events of the lifecycle, one with an event     *)
(* that comes too early, and one with none.                                *)
EXTENDS VectorFile

MCLineWords == { {"start"}, {"authenticate"}, {"ready"}, {} }
=============================================================================
