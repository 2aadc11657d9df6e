SPECIFICATION LoadSpec
CONSTANTS
    Throughputs = {0, 2, 5}
    StartFreqs <- MCStartFreqs
    DualCap = TRUE
    PowerShift = TRUE
    History = 3
    WindowSize = 10
    IncTs = 1
    DecTs = 1
    BurstUp = 4
    BurstLow = 2
    MemTs = 4
INVARIANTS FlagMatchesHardware
PROPERTIES OnlyBurstsDiverge LoweredOnlyWhenCalm SettlesWhenLevel
