SPECIFICATION LiveSpec
CONSTANTS
    t1 = t1
    t2 = t2
    Worker = Worker
    None = None
    Thread = {t1, t2}
    Calls <- AllIoctls
    MaxBufs = 1
    MaxQbufs = 2
    EventBufs = 1
    Memory = "MMAP"
    NonBlocking = FALSE
    FaultyReplies = FALSE
PROPERTIES CallsReturn GoneReleasesAll WaiterServed
CHECK_DEADLOCK FALSE
