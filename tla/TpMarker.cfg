SPECIFICATION Spec
CONSTANTS
    Procs = {"ksud", "su", "app", "app2"}
    Allowed = {"ksud", "su"}
    Faults = {"arm"}
    MaxCount = 3
INVARIANTS
    TypeOK
    CountInStep
    OursServed
    OthersServed
    OnlyOursMarked
