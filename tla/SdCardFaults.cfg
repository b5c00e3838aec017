SPECIFICATION SdSpec

CONSTANTS
    Sectors = {s1, s2}
    Values = {v1, v2}
    Retries = 2
    Faults = {"mute", "lost", "answer", "data", "early"}
    MaxFaults = 2
    Kinds = {"mmc", "sd1", "sd2", "sdhc"}
    InitTries <- TriesFew
    InitFaults = {"unsent", "answer", "crc", "mute", "data"}
    MaxBusy = 1

INVARIANTS
    TypeOK
    FlagMeansDone
    CardTypeOK
    InitSound
PROPERTY
    DiskImplemented

\* A block that is damaged leaves the driver waiting for ever.
CHECK_DEADLOCK FALSE
