SPECIFICATION FairSpec
CONSTANTS
    Scenarios <- Guards
    Daemons = {"d1", "d2"}
    EventIds = {"e1"}
    Wall <- FallBack
    DayLength = 4
    Grace = 1
    MaxDue = 5
    MaxTime = 3
    None = None
INVARIANTS
    OneRunPerOccurrence
PROPERTIES
    CursorCoversDecided
    CursorCatchesUp
