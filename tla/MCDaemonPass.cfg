SPECIFICATION Spec
CONSTANTS
    Runs = {1, 2, 3}
    ListLimit = 1
    Jobs <- MCJobs
    RunOf <- MCRunOf
    Scenarios <- MCScenarios
    None = None
PROPERTIES
    OutcomeStaysUnread
    AcceptedIsDispatched
    DueIsDecided
    RunningIsWatched
