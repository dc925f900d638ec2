SPECIFICATION Spec
CONSTANTS
    plain = plain bare = bare unfit = unfit
    Files = {plain}
    Builtin = Builtin
    None = None
    Raw = {}
    Unfit = {}
    QueueLen = 2
    FlashFails = FALSE
    MaxResets = 1
    MaxCrashes = 0
INVARIANTS ResetReverts
CHECK_DEADLOCK FALSE
