SPECIFICATION Spec
CONSTANTS
    Threads = {"monitor", "reconciler"}
    Tracked <- MCTracked
    Untracked <- MCUntracked
    Inputs = {"in"}
    Sorted <- MCSorted
    Reserved = {"planted"}
    Scope = {"ignore", "new"}
    IgnoreFile = "ignore"
    Ignores <- MCIgnores
    Contents = {"short", "long"}
    Original = "short"
    Absent = Absent
    Partial = Partial
    None = None
    Size <- MCSize
    MaxFile = 2
    MaxTotal = 2
    Limit = 1
    Unset = Unset
    Scenarios <- MCScenarios
    Lease = 3
    StartDelay = 1
INVARIANTS InputsNeverTorn SuccessMatchesWorktree PublishedMeansGone GoneBeforeTakeover
PROPERTIES ReceiptIsASnapshot MarkerIsFinal
CHECK_DEADLOCK FALSE
