SPECIFICATION Spec
CONSTANTS
    Apps <- MCApps
    Managers <- MCReinstalled
    Callers <- MCBoot
    MaxRetries = 0
    Faults = {"alloc", "read"}
INVARIANTS
    TypeOK
    LoadedBeforeCrown
    GrantsKept
    GrantsInForce
