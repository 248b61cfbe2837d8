SPECIFICATION Spec
CONSTANTS
    Scenarios <- Intakes
    Daemons = {"d1"}
    EventIds = {"e1"}
    Wall <- FallBack
    DayLength = 3
    Grace = 1
    MaxDue = 5
    MaxTime = 4
    None = None
INVARIANTS
    OverlapHolds
    DailyLimitHolds
PROPERTIES
    AuthorityForward
    AcceptedUnderAuthority
