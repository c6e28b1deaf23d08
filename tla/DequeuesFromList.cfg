SPECIFICATION Spec
CONSTANTS
    t1 = t1
    t2 = t2
    Worker = Worker
    None = None
    Thread = {t1, t2}
    Calls <- Canceller
    MaxBufs = 2
    MaxQbufs = 2
    EventBufs = 1
    Memory = "MMAP"
    NonBlocking = FALSE
    FaultyReplies = FALSE
INVARIANTS DequeuesFromList
CHECK_DEADLOCK FALSE
