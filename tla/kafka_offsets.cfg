\* Three runs, one at a time, over a topic of up to two partitions.
SPECIFICATION Spec
CONSTANTS
    None = None
    p1 = p1
    p2 = p2
    r1 = r1
    r2 = r2
    r3 = r3
    Partitions <- Partitions2
    Runs <- Runs3
    MaxActive = 1
    Retries = 1
    MaxOffset = 2
    MaxFaults = 1
SYMMETRY Symmetry
INVARIANTS
    TypeOK
    Gapless
    NoDuplicates
    OnlyGrowthFailsRuns
PROPERTIES
    OffsetsNeverMoveBack
    SavedWindowsAreContiguous
    PartitionsImplementLanding
\* The runs are finitely many and all end: the instance may stop.
CHECK_DEADLOCK FALSE
