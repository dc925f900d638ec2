SPECIFICATION Spec
CONSTANTS
    ambient = ambient comfort = comfort
    Models = {ambient, comfort}
    Builtin = Builtin
    Chunks <- Sent
    None = None
    Long = Long
    XferMax = 3
    NvsFails = TRUE
    MaxCrashes = 1
INVARIANT NeverMixed
CHECK_DEADLOCK FALSE
