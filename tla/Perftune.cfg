SPECIFICATION FairSpec
CONSTANTS
    Knobs = 3
    MaxBoots = 4
INVARIANTS
    TypeOK
    SnapshotGenuine
    RollbackGenuine
PROPERTIES
    RollbackServed
