SPECIFICATION Spec
CONSTANTS
    Owners = {"d1", "d2", "attended", "operator"}
    Claims = {"exec", "daemon", "mon", "cli"}
    Receipts = {"attestation"}
    None = None
    Horizon = 1
    Jobs <- VerifiedJobs
    Policy = "auto"
    Commands = {"cancel", "recover", "close"}
    Attended = TRUE
    Crashes = {"attended"}
    ProvisioningLease = 2
    OperationLimit = 1
    CloseLease = 2
    VerifierLease = 2
    VerifierLimit = 1
    CommitDelay = 0
    ScanDelay = 0
INVARIANTS
    NoOrphanWorkspace
    SuccessIsReal
    VerifierRunsOnce
    CloseIssuedOnce
    RetiredMeansGone
PROPERTIES
    StartOnlyWhileClaimed
    CloseFencesRun
