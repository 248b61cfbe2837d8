SPECIFICATION FairSpec
CONSTANTS
    Scenarios <- Unguarded
    Daemons = {"d1"}
    EventIds = {"e1"}
    Wall <- FallBack
    DayLength = 4
    Grace = 1
    MaxDue = 2
    MaxTime = 4
    None = None
PROPERTIES
    HeldOccurrencesDecided
