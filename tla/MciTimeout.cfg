SPECIFICATION FairSpec

CONSTANTS
    Sectors = {s1, s2}
    Values = {v1, v2}
    Retries = 2
    Faults = {"answer"}
    MaxFaults = 1

PROPERTY
    TimeoutsEnd

CHECK_DEADLOCK FALSE
