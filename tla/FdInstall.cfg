SPECIFICATION Spec
CONSTANTS
    Threads = {t1, t2, t3}
    MaxFd = 2
    Faults = {"alloc", "queue", "file", "copy"}
INVARIANTS
    TypeOK
    NoReservedLeak
    NoOrphan
    ReplyIsTrue
PROPERTIES
    OwnFilesStay
