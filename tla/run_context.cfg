\* Two runs of one DAG and one of another, while files and tables change.
SPECIFICATION Spec
CONSTANTS
    None = None
    Broken = Broken
    d1 = d1
    d2 = d2
    r1 = r1
    r2 = r2
    r3 = r3
    dated = dated
    named = named
    Dags <- MCDags
    Runs <- MCRuns
    DagOf <- MCDagOf
    Interval <- MCInterval
    RunId <- MCRunId
    Sanitised <- MCSanitised
    Sources <- MCSources
    Column <- MCColumn
    Contents <- MCContents
    Deployed <- MCDeployed
    Retries = 1
    MaxInFlight = 2
    MaxRows <- MCMaxRows
    MaxEdits = 1
    MaxFaults = 1
SYMMETRY Symmetry
INVARIANTS
    TypeOK
    PathNamesOrigin
    CountIsTruthful
    GapsNeedRetarget
    OnlyConfigFailsRuns
PROPERTIES
    DagsImplementLanding
\* The runs are finitely many and all end: the instance may stop.
CHECK_DEADLOCK FALSE
