SPECIFICATION FairSpec
CONSTANTS
    plain = plain bare = bare unfit = unfit
    Files = {bare, unfit}
    Builtin = Builtin
    None = None
    Raw = {bare}
    Unfit = {unfit}
    QueueLen = 1
    FlashFails = TRUE
    MaxResets = 1
    MaxCrashes = 1
INVARIANTS TypeOK ServesWhole FlashWhole StoreAgrees
PROPERTIES AnswersTrue EveryJobEnds
CHECK_DEADLOCK FALSE
