SPECIFICATION FromZeroSpec
CONSTANTS
    Shared = {MBL}
    Private = {CBO}
    Occupancy = OCC
    Reader = reader
    None = none
    NoEvent = event0
    Width = 3
    Errors = {4}
    MaxTotal = 3
    MaxFailures = 1
INVARIANTS
    SelectedIsMine
    ExtendedIsExact
PROPERTIES
    ImplementsMonotone
    CountsAreRead
CHECK_DEADLOCK FALSE
