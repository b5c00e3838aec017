SPECIFICATION Spec
CONSTANTS
    Chunk = 1
    ImageSizes = {2}
    Leftovers <- LeftoversMC
    Ram = 2
    Faults = {"unlink", "open", "write", "full", "close", "camera"}
    MaxPresses = 3
    MaxFrames = 2
INVARIANTS
    TypeOK
    ImagesKeepTheirSession
    NoWriteToDeleted
    HandlesFresh
PROPERTY
    SnapshotKeepsRecording
VIEW Alike
