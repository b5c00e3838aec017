SPECIFICATION FairSpec

CONSTANTS
    Sectors = {s1, s2}
    Values = {v1, v2}
    Retries = 2
    Faults = {"data"}
    MaxFaults = 1

PROPERTY
    HardErrorReturned

CHECK_DEADLOCK FALSE
