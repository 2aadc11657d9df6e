SPECIFICATION SystemSpec
CONSTANTS
    Callers = {pcm, gpu}
    Monitors = {gpu}
    Gpus = 2
    Freqs = {7, 8, 24}
    StartPairs <- MCStartPairs
INVARIANTS UndisturbedLands FlagIsHardware
PROPERTIES AloneIsAtomic SettlesWhenAgreed
