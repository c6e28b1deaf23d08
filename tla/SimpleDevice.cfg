SPECIFICATION Spec
CONSTANTS
    Session = {s1, s2}
    None = None
    MaxCount = 2
    MaxPage = 4
    MaxMems = 4
    MaxMaps = 1
INVARIANTS BuffersOwned MapsShowBuffers GuestAgrees
CHECK_DEADLOCK FALSE
