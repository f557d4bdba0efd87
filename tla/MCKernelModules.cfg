SPECIFICATION Spec
CONSTANTS
    Threads = {t1, t2}
    Modules = {"bpf", "ccze_lsm"}
    Definitions <- MCDefinitions
    ModuleLists <- MCModuleLists
    LkmModule = "ccze_lsm"
    Silent = {"bpf"}
    MaxCalls = 2
    MaxOutside = 1
INVARIANTS
    StaleFlagHasCause
PROPERTIES
    AnswersWereSeen
    ReloadExcused
CHECK_DEADLOCK FALSE
