SPECIFICATION FairSpec
CONSTANTS
    Daemons = {d1, d2}
    Clients = {c1}
    Subscriptions <- AllClasses
    None = none
    Empty = empty
    MaxRound <- Rounds
    Modes = {"difference", "absolute"}
    d1 = d1
    d2 = d2
INVARIANTS
    UpdateIsComplete
    UnmovedBeginMeansWhole
    RateMatchesBytes
    FileNamesServing
PROPERTIES
    DifferencesTile
    WaitingIsServed
CHECK_DEADLOCK FALSE
