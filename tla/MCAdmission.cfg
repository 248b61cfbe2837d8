SPECIFICATION FairSpec
CONSTANTS
    Runs = {1, 2, 3, 4}
    Definition <- Mixed
    Legacy = {1}
    Attended = {"run"}
    Daemons = {"daemon"}
    Crashing = {"run"}
    Stoppable = {"b"}
    MaxConcurrent = 2
    MinFree = 1
    Size <- Disks
    None = None
INVARIANTS
    ActiveWithinCap
    QueueOneExecutesAlone
    HeadroomKeptUpToLateRuns
PROPERTIES
    DispatchedOnce
    AdmittedUnderAuthority
    QueueDrains
