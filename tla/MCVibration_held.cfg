SPECIFICATION Spec
CONSTANTS
    PERIOD = 5
    ON = 2
    WINDOW = 6
    STATE_MS = 5
    MaxStep = 2
    MaxInterval = 2
    FLOOR = 2
    WARN = 4
    Thresholds <- SomeThresholds
    DefaultThreshold = 5
    Levels <- SomeLevels
    Classes <- SomeClasses
    None = None
INVARIANTS NeverHeldOn
CHECK_DEADLOCK FALSE
