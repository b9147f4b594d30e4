\* The container dies anywhere, a command fails, while a task reads its secrets.
SPECIFICATION DeliverySpec
CONSTANTS
    None = None
    t1 = t1
    t2 = t2
    t3 = t3
    Methods <- MCMethods
    Tokens <- MCTokens
    EnvToken = t1
    Retries = 1
    MaxBlips = 1
    SecretPaths <- MCSecrets
    MaxCrashes = 2
    MaxStarts = 3
    MaxFaults = 1
SYMMETRY Symmetry
INVARIANTS
    TypeOK
    ReadyIsUsable
    GivesUpOnLostKeys
    TaskTypeOK
PROPERTIES
    SavedFilesSurvive
    KeepsCustody
    ServingIsEnough
\* The container may stay down: nothing obliges anyone to start it again.
CHECK_DEADLOCK FALSE
