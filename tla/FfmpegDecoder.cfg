SPECIFICATION Spec
CONSTANTS
    None = None
    Input = {i1, i2}
    Capture = {c1, c2}
    MaxJobs = 2
    MaxInside = 2
    MaxFormats = 2
    MaxEvents = 2
    Failing = TRUE
INVARIANTS
    InputsConserved
    FramesConserved
    DrainIsClean
    SignalFollows
PROPERTY
    CallsEnd
CHECK_DEADLOCK FALSE
