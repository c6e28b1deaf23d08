SPECIFICATION Spec
CONSTANTS
    MaxBufs = 2
    MaxQbufs = 3
    MaxEvents = 2
    MaxChanges = 1
    MaxLeaked = 0
    Orderly = TRUE
    FailingBackend = FALSE
    MarksChange = FALSE
    Subscribable = {}
INVARIANTS QueuedAgrees CaptureConserved CompletionsFresh
CHECK_DEADLOCK FALSE
