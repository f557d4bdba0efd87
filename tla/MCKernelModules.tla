--------------------------- MODULE MCKernelModules --------------------------
(* The module of LkmManager and one more, which may be built in.           *)
EXTENDS KernelModules

MCDefinitions == <<"bpf", "ccze_lsm">>
MCModuleLists == {MCDefinitions}
=============================================================================
