SPECIFICATION SdFairSpec

CONSTANTS
    Sectors = {s1, s2}
    Values = {v1, v2}
    Retries = 2
    Faults = {"mute", "lost"}
    MaxFaults = 3
    Kinds = {"sdhc", "mmc"}
    InitTries <- TriesEnough
    InitFaults = {"unsent"}
    MaxBusy = 1

PROPERTY
    CallsReturn
    InitComesUp
