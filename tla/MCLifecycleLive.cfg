SPECIFICATION FairSpec
CONSTANTS
    Owners = {"d1", "d2", "attended", "operator"}
    Claims = {"exec", "daemon", "mon", "cli"}
    Receipts = {"attestation"}
    None = None
    Horizon = 1
    Jobs <- AllJobs
    Policy = "auto"
    Commands = {"recover", "close", "remove"}
    Attended = FALSE
    Crashes = {"daemon"}
    ProvisioningLease = 2
    OperationLimit = 1
    CloseLease = 2
    VerifierLease = 2
    VerifierLimit = 1
    CommitDelay = 0
    ScanDelay = 0
PROPERTIES
    StoreSpec
    EventuallyRetired
