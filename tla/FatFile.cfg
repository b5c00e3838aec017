SPECIFICATION FairSpec
CONSTANTS
    SS = 2
    csize = 2
    Clusters = {c1, c2, c3}
    Wrap = 12
    Values = {0, 1, 2, 3}
    Old = 3
    Modes <- ModesMC
    Sizes = {1, 2, 5}
    Offsets = {0, 1, 4, 7, 11}
    MaxCalls = 5
    Faults = {"read", "write", "table", "entry", "sync"}
INVARIANTS TypeOK PositionRight AnswerRight Saved
PROPERTIES FileImplemented CallsReturn
CHECK_DEADLOCK FALSE
