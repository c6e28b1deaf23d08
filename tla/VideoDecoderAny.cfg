SPECIFICATION Spec
CONSTANTS
    MaxBufs = 1
    MaxQbufs = 2
    MaxEvents = 2
    MaxChanges = 1
    MaxLeaked = 1
    Orderly = FALSE
    FailingBackend = TRUE
    MarksChange = TRUE
    Subscribable = {"src", "eos"}
INVARIANTS CaptureQuiet NoEosAtChange
CHECK_DEADLOCK FALSE
