SPECIFICATION Spec
CONSTANTS
    NSLOTS = 2
    r1 = r1 r2 = r2 r3 = r3 r4 = r4 r5 = r5
    Records = {r1, r2}
    None = None
    Corrupt = Corrupt
    Found <- FoundBlank
    Faults <- FlushIo
    MaxReboots = 1
SYMMETRY AnyRecord
INVARIANTS Recoverable

CHECK_DEADLOCK FALSE
