\* Every triggered run ends.
SPECIFICATION FairSpec
CONSTANTS
    None = None
    a = a
    b = b
    r1 = r1
    r2 = r2
    r3 = r3
    Rows <- Rows1
    Timestamps <- Ts12
    Runs <- Runs2
    Kind = "sql"
    Grain = 1
    MaxActive = 2
    Retries = 1
    MetricType = "cloud_queue"
    CheckpointConn = TRUE
    HardDeletes = FALSE
    MaxFaults = 0
    FaultsRecur = TRUE
PROPERTIES
    RunsEnd
    EveryStepCounts
\* The runs are finitely many and all end: the instance may stop.
CHECK_DEADLOCK FALSE
