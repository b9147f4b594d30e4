\* One run at a time over a JDBC table that keeps its rows; the column is a Decimal in halves.
SPECIFICATION Spec
CONSTANTS
    None = None
    a = a
    b = b
    r1 = r1
    r2 = r2
    r3 = r3
    Rows <- Rows2
    Timestamps <- Ts14
    Runs <- Runs3
    Kind = "sql"
    Grain = 2
    MaxActive = 1
    Retries = 0
    MetricType = "cloud_queue"
    CheckpointConn = TRUE
    HardDeletes = FALSE
    MaxFaults = 1
    FaultsRecur = FALSE
SYMMETRY Symmetry
INVARIANTS
    NoGap
    DisjointWindows
PROPERTIES
    NeverMovesBack
\* The runs are finitely many and all end: the instance may stop.
CHECK_DEADLOCK FALSE
