SPECIFICATION FairSpec
CONSTANTS
    N = 2
    Order <- MCOrder
    Controllers <- MCControllers
    Raising <- MCRaising
    Pcm = TRUE
INVARIANTS
    UnitsLostToLeftover
    ResetUndoneOnce
PROPERTIES
    MonitorsEnd
    ComesToRest
CHECK_DEADLOCK FALSE
