\* Two runs over an S3 prefix or an HDFS directory, two retries per task.
SPECIFICATION Spec
CONSTANTS
    None = None
    f1 = f1
    f2 = f2
    Files <- Files2
    ReadTypes = {"s3", "file"}
    Retries = 2
    MaxRuns = 2
    MaxTime = 4
    MaxFaults = 2
SYMMETRY Symmetry
INVARIANTS
    TypeOK
    WindowIsLanded
    StandingIsVouched
\* The runs are finitely many and all end: the instance may stop.
CHECK_DEADLOCK FALSE
