SPECIFICATION Spec
CONSTANTS
    None = None
    Input = {i1, i2}
    Capture = {c1, c2}
    MaxJobs = 2
    MaxInside = 2
    MaxFormats = 2
    MaxEvents = 2
    Failing = TRUE
PROPERTY DrainReported
CHECK_DEADLOCK FALSE
