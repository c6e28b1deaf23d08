SPECIFICATION Spec
CONSTANTS
    Session = {s1, s2}
    None = None
    Memory = {"MMAP", "USERPTR"}
    Addr = {a1, a2}
    MaxCapture = 2
    MaxOutput = 1
    MaxQueued <- TwoCapture
    MaxOpen = 1
    MaxMaps = 1
INVARIANTS
    CountCoversHost
    PollerFollows
    UserptrsPinned
    OffsetsMatch
CONSTRAINT Unmixed
SYMMETRY Symmetry
CHECK_DEADLOCK FALSE
