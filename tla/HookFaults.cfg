SPECIFICATION FairSpec
\* Without tasks the system stops once it has booted or unloaded.
CHECK_DEADLOCK FALSE
CONSTANTS
    Slots <- MCSlots
    NiSlots <- MCOneNi
    KsudSlots = {"execve"}
    KsudUnhooks = {"execve"}
    MaxEntries = 16
    Tasks = {}
    Calls = {}
    Loadable = TRUE
    Tracepoints = FALSE
    PatchFaults <- MCAllFaults
INVARIANTS
    TrackedOrigPristine
    PatchedTracked
PROPERTIES
    RestoredByExit
    ExitCompletes
    WorkerCompletes
