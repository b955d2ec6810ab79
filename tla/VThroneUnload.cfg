SPECIFICATION UnloadSpec
CONSTANTS
    Apps <- MCApps
    Managers <- MCManager
    Callers <- MCObserved
    MaxRetries = 1
    Faults = {}
INVARIANTS
    ReleasedUnused
