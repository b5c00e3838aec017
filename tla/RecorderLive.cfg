SPECIFICATION FairSpec
CONSTANTS
    Chunk = 2
    ImageSizes = {2, 3}
    Leftovers = {}
    Ram = 4
    Faults = {}
    MaxPresses = 3
    MaxFrames = 2
INVARIANT
    SizesMatchVideo
PROPERTIES
    StopEndsRecording
    SnapshotServed
    StartServed
