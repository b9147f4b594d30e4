\* $match against a quoted checkpoint selects nothing.
SPECIFICATION Spec
CONSTANTS
    None = None
    a = a
    b = b
    r1 = r1
    r2 = r2
    r3 = r3
    Rows <- Rows2
    Timestamps <- Ts13
    Runs <- Runs2
    Kind = "mongodb"
    Grain = 1
    MaxActive = 2
    Retries = 0
    MetricType = "cloud_queue"
    CheckpointConn = TRUE
    HardDeletes = FALSE
    MaxFaults = 0
    FaultsRecur = FALSE
SYMMETRY Symmetry
INVARIANTS
    NoGap
\* The runs are finitely many and all end: the instance may stop.
CHECK_DEADLOCK FALSE
