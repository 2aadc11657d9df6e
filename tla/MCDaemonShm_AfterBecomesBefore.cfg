SPECIFICATION Spec
CONSTANTS
    Daemons = {d1, d2}
    Clients = {c1}
    Subscriptions <- AllClasses
    None = none
    Empty = empty
    MaxRound <- Rounds
    Modes = {"difference"}
    d1 = d1
    d2 = d2
INVARIANT AfterBecomesBefore
CHECK_DEADLOCK FALSE
