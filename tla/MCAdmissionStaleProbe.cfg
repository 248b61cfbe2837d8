SPECIFICATION Spec
CONSTANTS
    Runs = {1, 2, 3}
    Definition <- Queued
    Legacy = {}
    Attended = {"run"}
    Daemons = {"daemon"}
    Crashing = {"run"}
    Stoppable = {"a", "b"}
    MaxConcurrent = 2
    MinFree = 1
    Size <- OneDisk
    None = None
INVARIANTS
    HeadroomKept
