\* DynamoDB, Cassandra: lower bound only, the falsy checkpoint 0, deleted rows, events lost by Kafka.
SPECIFICATION Spec
CONSTANTS
    None = None
    a = a
    b = b
    r1 = r1
    r2 = r2
    r3 = r3
    Rows <- Rows2
    Timestamps <- Ts01
    Runs <- Runs2
    Kind = "nosql"
    Grain = 1
    MaxActive = 2
    Retries = 0
    MetricType = "kafka_queue"
    CheckpointConn = TRUE
    HardDeletes = TRUE
    MaxFaults = 1
    FaultsRecur = FALSE
SYMMETRY Symmetry
INVARIANTS
    NoGap
PROPERTIES
    SnapshotLanded
    ImplementsLanding
\* The runs are finitely many and all end: the instance may stop.
CHECK_DEADLOCK FALSE
