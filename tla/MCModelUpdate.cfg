SPECIFICATION FairSpec
CONSTANTS
    ambient = ambient comfort = comfort
    Models = {ambient, comfort}
    Builtin = Builtin
    Chunks <- Sent
    None = None
    Long = Long
    XferMax = 3
    NvsFails = TRUE
    MaxCrashes = 1
INVARIANTS TypeOK AckedSurvives LedForced
PROPERTIES CommitExact NewModelTakesOver
CHECK_DEADLOCK FALSE
