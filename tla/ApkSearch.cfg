SPECIFICATION FairSpec
CONSTANTS
    Apks <- MCApks
    Managers <- MCManagers
    Path <- MCPath
    Root = "root"
    Staging <- MCStaging
    Foreign <- MCForeign
    Hash <- MCHash
    Depth = 2
    Faults <- MCFaults
INVARIANTS
    TypeOK
    Complete
    ManagerFound
    Drained
PROPERTIES
    CacheSwept
    SearchEnds
