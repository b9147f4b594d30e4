\* The third try of a copy cannot succeed.
SPECIFICATION Spec
CONSTANTS
    None = None
    f1 = f1
    f2 = f2
    Files <- Files2
    ReadTypes = {"s3"}
    Retries = 2
    MaxRuns = 1
    MaxTime = 1
    MaxFaults = 2
SYMMETRY Symmetry
INVARIANTS
    RetriesAreUsable
\* The runs are finitely many and all end: the instance may stop.
CHECK_DEADLOCK FALSE
