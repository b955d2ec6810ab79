SPECIFICATION Spec
CONSTANTS
    Apps <- MCApps
    Managers <- MCManager
    Callers <- MCObserved
    MaxRetries = 2
    Faults = {}
PROPERTIES
    InvalidateOnlyUninstalled
