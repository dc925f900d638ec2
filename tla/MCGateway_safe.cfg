SPECIFICATION GatewaySpec
CONSTANTS
    NSLOTS = 2
    r1 = r1 r2 = r2 r3 = r3
    Records = {r1, r2, r3}
    None = None
    Corrupt = Corrupt
    Found <- FoundBlank
    Faults <- PowerAndRead
    MaxReboots = 1
    DRAIN_PER_TICK = 1
    ReconnectTicks = 1
    InboxSize = 1
    DropPoints <- BetweenTicks
    SilentFailures = FALSE
SYMMETRY AnyRecord
INVARIANTS GatewayTypeOK NothingLost SentOncePerBoot
PROPERTIES CommitsWhatItSent
CHECK_DEADLOCK FALSE
