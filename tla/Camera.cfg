SPECIFICATION FairSpec

CONSTANTS
    Tries <- TriesMC
    Faults = {"lost", "refused", "garbled", "late"}
    MaxFaults = 5
    MaxCalls = 3

INVARIANTS
    TypeOK
    PictureWhole
    PictureFresh
    RetriesSuffice
PROPERTY
    CameraReturns

\* main() does not call takePicture for ever: MaxCalls.
CHECK_DEADLOCK FALSE
