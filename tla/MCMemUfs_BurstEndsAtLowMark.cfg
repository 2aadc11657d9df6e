SPECIFICATION Spec
CONSTANTS
    Throughputs = {0, 1, 2}
    StartFreqs <- MCStartFreqs
    DualCap = TRUE
    PowerShift = TRUE
    History = 2
    WindowSize = 10
    IncTs = 0
    DecTs = 0
    BurstUp = 4
    BurstLow = 2
    MemTs = 1
PROPERTIES BurstEndsAtLowMark
