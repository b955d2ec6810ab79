SPECIFICATION Spec
CONSTANTS
    Slots <- MCSlotsTwoNi
    NiSlots <- MCTwoNi
    KsudSlots <- MCBootHooks
    KsudUnhooks <- MCBootUnhooks
    MaxEntries = 16
    Tasks = {t1}
    Calls <- MCMixedCalls
    Loadable = TRUE
    Tracepoints = TRUE
    PatchFaults = {}
INVARIANTS
    NoLostSyscall
    HandledOnce
    NoNullCall
PROPERTIES
    ImplementsPatchTable
