SPECIFICATION Spec
CONSTANTS
    t1 = t1
    t2 = t2
    Worker = Worker
    None = None
    Thread = {t1, t2}
    Calls <- OneDequeuer
    MaxBufs = 2
    MaxQbufs = 3
    EventBufs = 1
    Memory = "DMABUF"
    NonBlocking = FALSE
    FaultyReplies = TRUE
INVARIANTS QueuedAccounting PendingIsDone FreshCompletion NoLostCompletion DeviceHoldsQueued PollKeepsWaiting FencesFollowSlots
CHECK_DEADLOCK FALSE
