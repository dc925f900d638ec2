SPECIFICATION Spec
CONSTANTS
    short = short long = long toolong = toolong noise = noise bare = bare
    Lines <- MCLines
    Prefixed <- MCPrefixed
    Size <- MCSize
    Garbled = Garbled
    None = None
    INGEST_LINE_MAX = 5
    INGEST_PREFIX_LEN = 1
    LINE_RING_SIZE = 8
    BufSize = 5
    MaxLines = 4
    MaxLost = 2
INVARIANTS TypeOK InBounds LossCounted
PROPERTIES ImplementsLossyLine
CHECK_DEADLOCK FALSE
