\* The Kafka pipeline fails before Spark starts, without any fault.
SPECIFICATION Spec
CONSTANTS
    None = None
    p1 = p1
    p2 = p2
    r1 = r1
    r2 = r2
    r3 = r3
    Partitions <- Partitions2
    Runs <- Runs3
    MaxActive = 1
    Retries = 0
    MaxOffset = 2
    MaxFaults = 0
SYMMETRY Symmetry
INVARIANTS
    ReachesTheSource
\* The runs are finitely many and all end: the instance may stop.
CHECK_DEADLOCK FALSE
