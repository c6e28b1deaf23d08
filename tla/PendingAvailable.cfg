SPECIFICATION Spec
CONSTANTS
    t1 = t1
    t2 = t2
    Worker = Worker
    None = None
    Thread = {t1, t2}
    Calls <- OneDequeuer
    MaxBufs = 2
    MaxQbufs = 2
    EventBufs = 1
    Memory = "DMABUF"
    NonBlocking = FALSE
    FaultyReplies = FALSE
INVARIANTS PendingAvailable
CHECK_DEADLOCK FALSE
