SPECIFICATION Spec
CONSTANTS
    PageSize = 2
    Space = 6
    Sizes = {0, 1, 3}
    GuestAddr = {a1, a2}
    NoAddr = NoAddr
    MaxMappings = 2
INVARIANTS TypeOK Sorted NoDeadBuffer MappingsCounted
PROPERTIES MappingStable ImplementsRange
CHECK_DEADLOCK FALSE
VIEW WithoutRet
