SPECIFICATION FairSpec
CONSTANTS
    Apps <- MCApps
    Managers <- MCManager
    Callers <- MCObserved
    MaxRetries = 1
    Faults = {}
PROPERTIES
    ManagerCrowned
