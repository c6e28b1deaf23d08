SPECIFICATION Spec
CONSTANTS
    File = {f1, f2}
    MaxRefs = 2
    MaxMaps = 2
    SizeSpace = 16
    Implemented <- Camera
    Polls = TRUE
    None = None
    Closed = Closed
    Unknown = Unknown
INVARIANTS SessionsOwned OutcomeSeen CtrlErrorsArrive SuccessButForNoResponse MapsBalanced
PROPERTY MapsPinned
CHECK_DEADLOCK FALSE
