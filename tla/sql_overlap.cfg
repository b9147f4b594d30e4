\* Two overlapping runs over a JDBC table, with retries and a fault.
SPECIFICATION Spec
CONSTANTS
    None = None
    a = a
    b = b
    r1 = r1
    r2 = r2
    r3 = r3
    Rows <- Rows2
    Timestamps <- Ts13
    Runs <- Runs2
    Kind = "sql"
    Grain = 1
    MaxActive = 2
    Retries = 1
    MetricType = "cloud_queue"
    CheckpointConn = TRUE
    HardDeletes = FALSE
    MaxFaults = 1
    FaultsRecur = FALSE
SYMMETRY Symmetry
INVARIANTS
    TypeOK
    NoGap
    SuccessIsTruthful
    SavedIsPublished
PROPERTIES
    BackOnlyByOverlap
    SnapshotLanded
    ImplementsLanding
\* The runs are finitely many and all end: the instance may stop.
CHECK_DEADLOCK FALSE
