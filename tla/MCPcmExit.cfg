SPECIFICATION FairSpec
CONSTANTS
    Sockets = {0, 1}
    Workers = {w}
INVARIANTS EndsClean DirtyOnlyWhenKilled OwnCommandsDoNotEndIt
PROPERTIES TermEndsIt
CHECK_DEADLOCK FALSE
