SPECIFICATION NamedSpec
CONSTANTS
    Workers = {w1, w2, w3}
    Conns = {c1, c2}
    Main = main
    Asks <- OneOfEach
    w1 = w1
    w2 = w2
    c1 = c1
    c2 = c2
    Endless = {c2}
    Kept = 2
    Reads = 1
    MaxSamples = 3
INVARIANTS
    ExitLosesNothing
    
PROPERTIES
    SamplesApart
    PeriodicAnswered
    
CHECK_DEADLOCK FALSE
