SPECIFICATION FairSpec
CONSTANTS
    None = None
    OCC_ENTER_FRAMES = 2
    OCC_CLEAR_FRAMES = 3
    MaxRun = 4
INVARIANTS TypeOK FrameOwned FlipPublished LedObeys
PROPERTIES Hysteresis SnapshotServed
CHECK_DEADLOCK FALSE
