\* One failed put, and the marker still says that all is done.
SPECIFICATION Spec
CONSTANTS
    SecretPaths <- DemoSecrets
    MaxCrashes = 0
    MaxStarts = 1
    MaxFaults = 1
INVARIANTS
    MarkerMeansSeeded
\* The container may stay down: nothing obliges anyone to start it again.
CHECK_DEADLOCK FALSE
