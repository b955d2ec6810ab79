SPECIFICATION Spec
\* Without tasks the system stops once it has booted or unloaded.
CHECK_DEADLOCK FALSE
CONSTANTS
    Slots <- MCSlots
    NiSlots <- MCOneNi
    KsudSlots <- MCBootHooks
    KsudUnhooks <- MCBootUnhooks
    MaxEntries = 16
    Tasks = {}
    Calls = {}
    Loadable = TRUE
    Tracepoints = FALSE
    PatchFaults = {}
INVARIANTS
    RestoredAfterExit
