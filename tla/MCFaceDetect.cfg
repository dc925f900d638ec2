SPECIFICATION FairSpec
CONSTANTS
    t0 = t0 t1 = t1 t2 = t2
    slices_per_frame = 3
    NODES = 3
    SdkNodes = 2
    Stamps = {t0, t1, t2}
    Zeroed = t0
    MaxFaces = 2
    None = None
INVARIANTS TypeOK OneResultOnDisplay LatestPending
PROPERTIES PreviewGoesOn
CHECK_DEADLOCK FALSE
