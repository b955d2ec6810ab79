SPECIFICATION FairSpec
CONSTANTS
    Slots <- MCSlotsTwoNi
    NiSlots <- MCTwoNi
    KsudSlots <- MCBootHooks
    KsudUnhooks <- MCBootUnhooks
    MaxEntries = 16
    Tasks = {t1}
    Calls <- MCMixedCalls
    Loadable = FALSE
    Tracepoints = FALSE
    PatchFaults = {}
INVARIANTS
    TypeOK
    NoLostSyscall
    HandledOnce
    NoNullCall
    MagicNeverReboots
PROPERTIES
    Stage2Installed
