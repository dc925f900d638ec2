SPECIFICATION FairGatewaySpec
CONSTANTS
    NSLOTS = 2
    r1 = r1 r2 = r2 r3 = r3
    Records = {r1, r2}
    None = None
    Corrupt = Corrupt
    Found <- FoundBlank
    Faults <- NoFaults
    MaxReboots = 1
    DRAIN_PER_TICK = 2
    ReconnectTicks = 1
    InboxSize = 1
    DropPoints <- Anywhere
    SilentFailures = TRUE
PROPERTIES BacklogDrains
CHECK_DEADLOCK FALSE
